-------------------------- MODULE MCVoiceAllocator --------------------------
(* A small instance of the voice allocator: three voices, three pitches.   *)
EXTENDS VoiceAllocator

Keys      == {60, 64, 67}
Strengths == {0, 100}
=============================================================================
