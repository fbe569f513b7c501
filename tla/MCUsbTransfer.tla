---------------------------- MODULE MCUsbTransfer ----------------------------
(* UsbTransfer for TLC. *)
EXTENDS UsbTransfer

(* Control transfers have the largest power and give up after 3 NAKs here, a MIDI
   poll gives up at the first one, an OUT endpoint of power 0 at the deadline. *)
MCNakPower == [ctrl |-> 4, in |-> 1, out |-> 0]
=============================================================================
