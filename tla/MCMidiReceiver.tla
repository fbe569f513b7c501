--------------------------- MODULE MCMidiReceiver ---------------------------
(* A small instance of the receive buffer.  Events a and b carry data      *)
(* bytes, c (a real-time message) carries none.                            *)
EXTENDS MidiReceiver

CONSTANTS a, b, c

Events     == {a, b, c}
RealTime   == {c}
\* Any packet but an empty one and one of exactly Slots - 1 events.
SafeSizes  == (1 .. Slots) \ {Slots - 1}
\* Every non-empty packet.
FullSizes  == 1 .. Slots
=============================================================================
