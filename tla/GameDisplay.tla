----------------------------- MODULE GameDisplay -----------------------------
(***************************************************************************)
(* The rhythm game on the screen, as src/Modules/synth_toplevel.sv wires   *)
(* it: vga_controller and rhythm_game share the 50 MHz clock and Reset_h   *)
(* (KEY0), and the vertical sync of the one is Frame_Clk of the other.     *)
(*                                                                         *)
(* clkdiv, vs and deltatime change in the wake of one edge of the 50 MHz   *)
(* clock, each clocked by the one before.  gameinprogress changes at that  *)
(* same edge, with nothing to order it against Frame_Clk, so a frame that  *)
(* begins just then finds its old value or its new one.                    *)
(***************************************************************************)
EXTENDS Integers

CONSTANTS hpixels, vlines, HVisible, VVisible, HSyncFirst, HSyncEnd, VSyncFirst, LastTime

ASSUME HorizontalAssumption ==
  /\ hpixels \in Nat /\ HVisible \in Nat \ {0} /\ HSyncFirst \in Nat /\ HSyncEnd \in Nat
  /\ HVisible <= HSyncFirst /\ HSyncFirst < HSyncEnd /\ HSyncEnd <= hpixels
ASSUME VerticalAssumption ==
  /\ vlines \in Nat /\ VVisible \in Nat \ {0} /\ VSyncFirst \in Nat
  /\ VVisible < VSyncFirst /\ VSyncFirst + 1 < vlines
ASSUME LastTimeAssumption == LastTime \in Nat \ {0}

VARIABLES
  clkdiv, hc, vc, hs, vs,                    (* vga_controller              *)
  gameinprogress, temp_start, deltatime,     (* rhythm_game                 *)
  Reset_h, Press_Start,                      (* KEY0 and KEY1, held down    *)
  clocked,     (* the keys have been as they are for an edge of the clock   *)
  straddled    (* history: KEY0 was down while a start was pending, and     *)
               (* deltatime has not been 0 since                            *)

screen == <<clkdiv, hc, vc, hs, vs>>
game   == <<gameinprogress, temp_start, deltatime>>
keys   == <<Reset_h, Press_Start>>
vars   == <<screen, game, keys, clocked, straddled>>

Vga  == INSTANCE VgaController
Game == INSTANCE RhythmGame

Init ==
  /\ Vga!Init /\ Game!Init
  /\ Reset_h = FALSE /\ Press_Start = FALSE
  /\ clocked = TRUE /\ straddled = FALSE

(* A finger moves a key; far slower than the clock.  Reset is asynchronous.*)
Key ==
  /\ clocked
  /\ \E r, p \in BOOLEAN :
       /\ <<r, p>> # keys
       /\ Reset_h' = r /\ Press_Start' = p
       /\ IF r THEN Vga!Reset ELSE UNCHANGED screen
  /\ clocked' = FALSE
  /\ UNCHANGED <<game, straddled>>

(* Mutant: the horizontal sync is wired to Frame_Clk.                      *)
FrameClkRisesEveryLine == ~hs /\ hs'

FrameClkRises == ~vs /\ vs'

(* posedge MAX10_CLK1_50                                                   *)
Clock ==
  /\ IF Reset_h THEN Vga!Reset ELSE Vga!Clk
  /\ Game!MasterClk(Reset_h, Press_Start)
  /\ IF FrameClkRises
     THEN \E running \in {gameinprogress, gameinprogress'} : Game!FrameClk(running)
     ELSE UNCHANGED deltatime
  /\ clocked' = TRUE
  /\ straddled' = ((Reset_h /\ temp_start) \/ (straddled /\ deltatime' # 0))
  /\ UNCHANGED keys

Next == Key \/ Clock

(* The oscillator does not stop.                                           *)
Spec == Init /\ [][Next]_vars /\ WF_vars(Clock)
-----------------------------------------------------------------------------
TypeOK ==
  /\ Vga!TypeOK /\ Game!TypeOK
  /\ Reset_h \in BOOLEAN /\ Press_Start \in BOOLEAN
  /\ clocked \in BOOLEAN /\ straddled \in BOOLEAN

(* The screen stands at its first pixel, with vs held low: only by a reset.*)
AfterReset == hc = 0 /\ vc = 0 /\ ~vs

(***************************************************************************)
(* deltatime scrolls the score (score_address of synth_toplevel.sv).  No   *)
(* picture is torn: it moves only while nothing is displayed, or with the  *)
(* first pixel after a reset.                                              *)
(***************************************************************************)
TearFree == [][deltatime' # deltatime => vc' >= VVisible \/ AfterReset]_vars

(***************************************************************************)
(* A game begins at time 0, although the flag rises in one clock domain    *)
(* and the counter is cleared in the other - unless KEY0 was down with a   *)
(* start pending: a KEY1 let go during the reset, together with KEY0 or    *)
(* just behind it may have the new game take over the time of the old one. *)
(***************************************************************************)
NewGameStartsAtZero ==
  [][~gameinprogress /\ gameinprogress' => deltatime = 0 \/ straddled]_vars

(***************************************************************************)
(* A reset puts the time back to 0 at once: it holds vs low, so its release*)
(* is an edge of Frame_Clk, and the game has been stopped by then - with   *)
(* the same exception.                                                     *)
(***************************************************************************)
ResetRestarts ==
  [][AfterReset /\ vs' => deltatime' = 0 \/ straddled]_vars

(***************************************************************************)
(* Every game ends, and unless KEY0 is held for good the counter goes back *)
(* to 0, which is when rhythm_game takes a start again.                    *)
(***************************************************************************)
GameEnds ==
  /\ gameinprogress ~> ~gameinprogress
  /\ []<>(~Reset_h) => (deltatime = LastTime ~> deltatime = 0)
=============================================================================
