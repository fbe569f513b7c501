----------------------------- MODULE MCMidiSynth -----------------------------
(* A small instance of the key-to-voice path.                              *)
EXTENDS MidiSynth

Keys      == {60, 64}
SafeSizes == (1 .. Slots) \ {Slots - 1}
=============================================================================
