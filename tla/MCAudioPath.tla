----------------------------- MODULE MCAudioPath -----------------------------
(* AudioPath with two keys, a wavetable of two entries and full velocity.  *)
EXTENDS AudioPath, TLC

MCWords   == {Silence, [pitch |-> 2, vel |-> 3], [pitch |-> 3, vel |-> 3],
              [pitch |-> 9, vel |-> 3]}
MCFreqROM == 0 :> 1 @@ 1 :> 2 @@ 2 :> 0
MCRAM     == 0 :> 0 @@ 1 :> 3
Symmetry  == Permutations(Voice)
=============================================================================
