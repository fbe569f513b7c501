---------------------------- MODULE VgaController ----------------------------
(***************************************************************************)
(* vga_controller (src/Modules/VGA_controller.sv): pixel clock, horizontal *)
(* and vertical counters, sync pulses.  Every always_ff block is edge-     *)
(* triggered by clkdiv, which is itself a register of Clk, or by Reset.    *)
(***************************************************************************)
EXTENDS Integers

CONSTANTS
  hpixels, vlines,         (* last pixel of a line 799, last line 524       *)
  HVisible, VVisible,      (* 640 and 480                                   *)
  HSyncFirst, HSyncEnd,    (* 656 and 752                                   *)
  VSyncFirst               (* 490                                           *)

VARIABLES clkdiv, hc, vc, hs, vs

Init == clkdiv = FALSE /\ hc = 0 /\ vc = 0 /\ hs = FALSE /\ vs = FALSE

(* posedge Reset, and as long as Reset is high                             *)
Reset == clkdiv' = FALSE /\ hc' = 0 /\ vc' = 0 /\ hs' = FALSE /\ vs' = FALSE

(* Mutant: a line has one pixel more.                                      *)
CountersLongLine ==
  IF hc = hpixels + 1
  THEN hc' = 0 /\ vc' = (IF vc = vlines THEN 0 ELSE vc + 1)
  ELSE hc' = hc + 1 /\ UNCHANGED vc

Counters ==
  IF hc = hpixels
  THEN hc' = 0 /\ vc' = (IF vc = vlines THEN 0 ELSE vc + 1)
  ELSE hc' = hc + 1 /\ UNCHANGED vc

Syncs ==
  /\ hs' = ~(HSyncFirst <= hc + 1 /\ hc + 1 < HSyncEnd)
  /\ vs' = (vc + 1 \notin {VSyncFirst, VSyncFirst + 1})

(* posedge Clk with Reset low; clkdiv has a rising edge at every other one *)
Clk ==
  /\ clkdiv' = ~clkdiv
  /\ IF clkdiv' THEN Counters /\ Syncs ELSE UNCHANGED <<hc, vc, hs, vs>>

display == hc < HVisible /\ vc < VVisible

TypeOK ==
  /\ clkdiv \in BOOLEAN /\ hs \in BOOLEAN /\ vs \in BOOLEAN
  /\ hc \in 0 .. hpixels /\ vc \in 0 .. vlines
=============================================================================
