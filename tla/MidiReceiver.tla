---------------------------- MODULE MidiReceiver ----------------------------
(***************************************************************************)
(* The receive side of the USB-MIDI driver: USBH_MIDI::RecvData in         *)
(* src/SOC/software/space_jam/include/usbh_midi.cpp.  One bulk transfer    *)
(* fills recvBuf with up to MIDI_EVENT_PACKET_SIZE bytes, four per event;  *)
(* each call returns one event and readPtr remembers how far it got.       *)
(* There is no count: after a transfer the first byte pair past the data   *)
(* is zeroed, and a zero pair at readPtr means the buffer is used up.      *)
(*                                                                         *)
(* The buffer is a row of four-byte slots.  Of a slot the code tells apart *)
(* only whether its first byte pair (cable/code index and status) and its  *)
(* second pair (data) are zero, so a slot is the pair [head, tail] of the  *)
(* messages its halves were last written from, or Zero.  An event always   *)
(* has a non-zero first pair; code indices 0 and 1, which cin2len gives    *)
(* length 0, are reserved and no device sends them.                        *)
(***************************************************************************)
EXTENDS Integers, Sequences

CONSTANTS
  Slots,         (* MIDI_EVENT_PACKET_SIZE / 4: events that fit recvBuf, 16   *)
  Messages,      (* the events the keyboard can send                          *)
  Dataless,      (* those whose two data bytes are zero                       *)
  PacketSizes,   (* how many events the keyboard puts into one packet         *)
  MaxOutbox,     (* bound: events the keyboard holds back for the next packet *)
  Zero,          (* two zero bytes                                            *)
  Nothing        (* RecvData returned 0 and left outBuf alone                 *)

ASSUME SlotsAssumption    == Slots \in Nat \ {0}
ASSUME MessagesAssumption == Zero \notin Messages /\ Dataless \subseteq Messages
ASSUME PacketAssumption   == PacketSizes \subseteq 0 .. Slots

VARIABLES
  bPollEnable,   (* the driver is configured                                  *)
  readPtr,       (* next slot to return; 0 asks for a transfer                *)
  recvBuf,       (* the slots; never cleared, not even by Release             *)
  fresh,         (* history: events the last transfer brought                 *)
  received,      (* what the last call to RecvData returned                   *)
  plugged,       (* the keyboard is on the bus                                *)
  outbox         (* events waiting in the keyboard                            *)

driver   == <<bPollEnable, readPtr, recvBuf, fresh, received>>
keyboard == <<plugged, outbox>>
vars     == <<bPollEnable, readPtr, recvBuf, fresh, received, plugged, outbox>>

Slot    == 0 .. Slots - 1
Empty   == [head |-> Zero, tail |-> Zero]
Bytes(m) == [head |-> m, tail |-> IF m \in Dataless THEN Zero ELSE m]

Init ==
  /\ bPollEnable = FALSE
  /\ readPtr = 0
  /\ recvBuf = [s \in Slot |-> Empty]
  /\ fresh = 0
  /\ received = Nothing
  /\ plugged = FALSE
  /\ outbox = <<>>

-----------------------------------------------------------------------------
(***************************************************************************)
(* The keyboard, and the two entry points of the driver that the USB task  *)
(* calls: Init succeeds for a keyboard on the bus, Release follows once it *)
(* is gone.  Between the unplugging and Release every transfer fails.      *)
(***************************************************************************)
Send(m) ==
  /\ plugged /\ bPollEnable
  /\ Len(outbox) < MaxOutbox
  /\ outbox' = Append(outbox, m)
  /\ UNCHANGED <<driver, plugged>>

Unplug ==
  /\ plugged
  /\ plugged' = FALSE
  /\ outbox' = <<>>
  /\ UNCHANGED driver

Configure ==
  /\ ~bPollEnable
  /\ bPollEnable' = TRUE
  /\ plugged' = TRUE
  /\ UNCHANGED <<readPtr, recvBuf, fresh, received, outbox>>

(* Mutant: readPtr survives Release.                                       *)
ReleaseKeepsPtr ==
  /\ bPollEnable /\ ~plugged
  /\ bPollEnable' = FALSE
  /\ UNCHANGED <<readPtr, recvBuf, fresh, received, keyboard>>

Release ==
  /\ bPollEnable /\ ~plugged
  /\ bPollEnable' = FALSE
  /\ readPtr' = 0
  /\ UNCHANGED <<recvBuf, fresh, received, keyboard>>

-----------------------------------------------------------------------------
(* Mutant: the rest of the buffer is never looked at.                      *)
UnprocessedNever(buf, p) == FALSE

(* Is there an unprocessed message in the buffer?                          *)
Unprocessed(buf, p) == p \in 1 .. Slots - 1 /\ buf[p].head # Zero

(***************************************************************************)
(* recvBuf after a transfer of the messages ms: they overwrite the first   *)
(* slots, and the pair behind them is zeroed when fewer than               *)
(* MIDI_EVENT_PACKET_SIZE - 4 bytes came.                                  *)
(***************************************************************************)
(* Mutant: no terminator at all.                                           *)
FilledUnterminated(buf, ms) ==
  [s \in Slot |-> IF s < Len(ms) THEN Bytes(ms[s + 1]) ELSE buf[s]]

Filled(buf, ms) ==
  [s \in Slot |->
     IF s < Len(ms) THEN Bytes(ms[s + 1])
     ELSE IF s = Len(ms) /\ s < Slots - 1 THEN [buf[s] EXCEPT !.head = Zero]
     ELSE buf[s]]

(* One slot goes to the caller and readPtr moves on.                       *)
Return(buf, p) ==
  /\ received' = buf[p].head
  /\ readPtr' = p + 1

ReturnFromBuffer ==
  /\ Unprocessed(recvBuf, readPtr)
  /\ Return(recvBuf, readPtr)
  /\ UNCHANGED <<recvBuf, fresh, outbox>>

(* The transfer brings n events; a packet of zeros counts as no data.      *)
FetchPacket ==
  /\ plugged
  /\ \E n \in PacketSizes \cap (0 .. Len(outbox)) :
       /\ recvBuf' = Filled(recvBuf, SubSeq(outbox, 1, n))
       /\ outbox' = SubSeq(outbox, n + 1, Len(outbox))
       /\ fresh' = n
  /\ IF recvBuf'[0] = Empty
     THEN received' = Nothing /\ readPtr' = 0
     ELSE Return(recvBuf', 0)

(* Mutant: the failure is noted in the pointer.                            *)
FetchFailsMarked ==
  /\ recvBuf' = Filled(recvBuf, <<>>)
  /\ received' = Nothing
  /\ readPtr' = -1
  /\ fresh' = 0
  /\ UNCHANGED outbox

(* NAK or bus error: no bytes came, so the terminator goes to slot 0.      *)
FetchFails ==
  /\ recvBuf' = Filled(recvBuf, <<>>)
  /\ received' = Nothing
  /\ readPtr' = 0
  /\ fresh' = 0
  /\ UNCHANGED outbox

RecvData ==
  /\ bPollEnable
  /\ \/ ReturnFromBuffer
     \/ ~Unprocessed(recvBuf, readPtr) /\ (FetchPacket \/ FetchFails)
  /\ UNCHANGED <<bPollEnable, plugged>>

Next ==
  \/ \E m \in Messages : Send(m)
  \/ Unplug \/ Configure \/ Release \/ RecvData

Spec == Init /\ [][Next]_vars
-----------------------------------------------------------------------------
HalfSlot == Messages \cup {Zero}

TypeOK ==
  /\ bPollEnable \in BOOLEAN /\ plugged \in BOOLEAN
  /\ readPtr \in 0 .. Slots /\ fresh \in 0 .. Slots
  /\ recvBuf \in [Slot -> [head : HalfSlot, tail : HalfSlot]]
  /\ received \in Messages \cup {Zero, Nothing}
  /\ outbox \in Seq(Messages) /\ Len(outbox) <= MaxOutbox

(***************************************************************************)
(* The messages still to come: those readPtr has not passed in recvBuf,    *)
(* up to the terminator, then those in the keyboard.                       *)
(***************************************************************************)
Unread ==
  LET last == CHOOSE e \in readPtr .. Slots :
                /\ ~Unprocessed(recvBuf, e)
                /\ \A s \in readPtr .. e - 1 : Unprocessed(recvBuf, s)
  IN  [k \in 1 .. last - readPtr |-> recvBuf[readPtr + k - 1].head]

(***************************************************************************)
(* The buffer with its in-band terminator behaves like a queue: nothing is *)
(* lost, doubled, reordered or made up between keyboard and caller.        *)
(***************************************************************************)
Abstract == INSTANCE EventQueue WITH queue <- Unread \o outbox

ImplementsQueue == Abstract!Spec

(***************************************************************************)
(* "Checking unprocessed message in buffer" (usbh_midi.cpp:337): what the  *)
(* code takes for an unprocessed message came with the last transfer.      *)
(***************************************************************************)
UnprocessedIsNew == Unprocessed(recvBuf, readPtr) => readPtr < fresh
=============================================================================
