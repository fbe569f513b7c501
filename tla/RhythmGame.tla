----------------------------- MODULE RhythmGame ------------------------------
(***************************************************************************)
(* rhythm_game (src/Modules/rhythmgame.sv): a game is started by letting   *)
(* KEY1 go, counts frames in deltatime and ends when the counter is full.  *)
(* Two clock domains: the game flag runs on Master_Clk, the counter on     *)
(* Frame_Clk.  The constant 13'h1ffff of the source is cut to 13 bits.     *)
(***************************************************************************)
EXTENDS Integers

CONSTANT LastTime        (* 13'h1fff, the full counter                      *)

VARIABLES gameinprogress, temp_start, deltatime

Init == gameinprogress = FALSE /\ temp_start = FALSE /\ deltatime = 0

(* Mutant: the end of the game is tested before the start.                 *)
MasterClkEndFirst(Game_Reset, Press_Start) ==
  IF Game_Reset
  THEN gameinprogress' = FALSE /\ UNCHANGED temp_start
  ELSE /\ temp_start' = Press_Start
       /\ gameinprogress' = IF temp_start /\ ~Press_Start THEN TRUE
                            ELSE gameinprogress /\ deltatime # LastTime

(* Mutant: the game never ends.                                            *)
MasterClkNoEnd(Game_Reset, Press_Start) ==
  IF Game_Reset
  THEN gameinprogress' = FALSE /\ UNCHANGED temp_start
  ELSE /\ temp_start' = Press_Start
       /\ gameinprogress' = (gameinprogress \/ (temp_start /\ ~Press_Start))

(* Mutant: a reset does not stop the game.                                 *)
MasterClkNoReset(Game_Reset, Press_Start) ==
  /\ temp_start' = Press_Start
  /\ gameinprogress' =
       ((gameinprogress \/ (temp_start /\ ~Press_Start)) /\ deltatime # LastTime)

(***************************************************************************)
(* posedge Master_Clk.  Game_Reset leaves temp_start alone; the last       *)
(* assignment to gameinprogress wins, so the end of a game beats a start.  *)
(***************************************************************************)
MasterClk(Game_Reset, Press_Start) ==
  IF Game_Reset
  THEN gameinprogress' = FALSE /\ UNCHANGED temp_start
  ELSE /\ temp_start' = Press_Start
       /\ gameinprogress' =
            ((gameinprogress \/ (temp_start /\ ~Press_Start)) /\ deltatime # LastTime)

(* posedge Frame_Clk, which finds the game flag to be running              *)
FrameClk(running) ==
  deltatime' = IF ~running THEN 0
               ELSE IF deltatime # LastTime THEN deltatime + 1 ELSE deltatime

TypeOK ==
  /\ gameinprogress \in BOOLEAN /\ temp_start \in BOOLEAN
  /\ deltatime \in 0 .. LastTime
=============================================================================
