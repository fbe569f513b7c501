------------------------------ MODULE MidiSynth ------------------------------
(***************************************************************************)
(* The path from a key to a voice: the keyboard, the receive buffer of the *)
(* USB-MIDI driver (MidiReceiver) and the voice allocator (VoiceAllocator),*)
(* run by the loop of main() in src/SOC/software/space_jam/main.cpp:       *)
(*                                                                         *)
(*    while(1) { Usb.Task();                                               *)
(*               if(Midi) do { size = RecvData(..); ... } while(size > 0) }*)
(*                                                                         *)
(* Usb.Task is reduced to what it does to the driver: it configures a      *)
(* keyboard that appeared and releases one that is gone (module UsbHost    *)
(* has the rest).  It does not run while the inner loop drains messages.   *)
(***************************************************************************)
EXTENDS Integers, Sequences

CONSTANTS
  NumNotes, Pitches, Velocities,             (* see VoiceAllocator          *)
  Slots, PacketSizes, MaxOutbox, Zero, Nothing,  (* see MidiReceiver        *)
  InitialPitch,  (* pitch of the packet a keyboard sends when configured    *)
  MaxPlugs       (* bound: how often a keyboard is plugged in               *)

ASSUME InitialPitchAssumption == InitialPitch \notin Pitches
ASSUME PlugsAssumption        == MaxPlugs \in Nat
ASSUME VoicesAssumption       == NumNotes \in Nat \ {0}
ASSUME SlotsAssumption        == Slots \in Nat \ {0}
ASSUME OutboxAssumption       == MaxOutbox \in Nat \ {0}
ASSUME PacketAssumption       == PacketSizes \subseteq 0 .. Slots
ASSUME BytesAssumption        == Pitches \cup {InitialPitch} \cup Velocities \subseteq 0 .. 255

VARIABLES
  packet, note_vol, note_used, first_note,                     (* allocator *)
  bPollEnable, readPtr, recvBuf, fresh, received, plugged, outbox, (* driver *)
  pc,      (* "task" before Usb.Task, "drain" before RecvData               *)
  down,    (* keys the player holds                                         *)
  cut,     (* history: pitches that were cut off by an unplugging           *)
  plugs    (* history: how often a keyboard was configured                  *)

allocator == <<packet, note_vol, note_used, first_note>>
receiver  == <<bPollEnable, readPtr, recvBuf, fresh, received, plugged, outbox>>
vars      == <<allocator, receiver, pc, down, cut, plugs>>

AllPitches == Pitches \cup {InitialPitch}
On(p, v)   == [kind |-> "on", pitch |-> p, vel |-> v]
Off(p)     == [kind |-> "off", pitch |-> p, vel |-> 0]
Played     == {On(p, v) : p \in AllPitches, v \in Velocities} \cup {Off(p) : p \in Pitches}

ASSUME ValuesAssumption == Zero \notin Played /\ Nothing \notin Played

Alloc == INSTANCE VoiceAllocator WITH Pitches <- AllPitches, Velocities <- Velocities \cup {0}
Recv  == INSTANCE MidiReceiver WITH Messages <- Played, Dataless <- {}

Init ==
  /\ Alloc!Init /\ Recv!Init
  /\ pc = "task"
  /\ down = {} /\ cut = {} /\ plugs = 0

-----------------------------------------------------------------------------
(* The player and the cable.                                               *)
Press(p, v) ==
  /\ p \notin down
  /\ Recv!Send(On(p, v))
  /\ down' = down \cup {p}
  /\ UNCHANGED <<allocator, pc, cut, plugs>>

Lift(p) ==
  /\ p \in down
  /\ Recv!Send(Off(p))
  /\ down' = down \ {p}
  /\ UNCHANGED <<allocator, pc, cut, plugs>>

(* The cable is pulled: no Note Off will come for the keys that are down,  *)
(* nor for those whose Note Off has not left the keyboard.                 *)
Unplug ==
  /\ Recv!Unplug
  /\ cut' = cut \cup down \cup {p \in Pitches : \E k \in 1 .. Len(outbox) : outbox[k] = Off(p)}
  /\ down' = {}
  /\ UNCHANGED <<allocator, pc, plugs>>

-----------------------------------------------------------------------------
(* Usb.Task(), then if(Midi).                                              *)
Attach ==
  /\ plugs < MaxPlugs
  /\ ~bPollEnable
  /\ bPollEnable' = TRUE /\ plugged' = TRUE /\ plugs' = plugs + 1
  /\ \E v \in Velocities : outbox' = <<On(InitialPitch, v)>>
  /\ UNCHANGED <<readPtr, recvBuf, fresh, received>>

Detach == Recv!Release /\ UNCHANGED plugs

Idle == ~(bPollEnable /\ ~plugged) /\ UNCHANGED <<receiver, plugs>>

Task ==
  /\ pc = "task"
  /\ Attach \/ Detach \/ Idle
  /\ pc' = IF bPollEnable' THEN "drain" ELSE "task"
  /\ UNCHANGED <<allocator, down, cut>>

(* Mutant: the inner loop is an if, one message per Usb.Task.              *)
DispatchOnce ==
  /\ pc' = "task"
  /\ IF received' \in Played THEN Alloc!Handle(received') ELSE UNCHANGED allocator

(* Mutant: while(size >= 0), which always holds for an unsigned size.      *)
DispatchForever ==
  /\ UNCHANGED pc
  /\ IF received' \in Played THEN Alloc!Handle(received') ELSE UNCHANGED allocator

(* One turn of the inner loop: size 0 leaves it.                           *)
Dispatch ==
  IF received' \in Played
  THEN Alloc!Handle(received') /\ UNCHANGED pc
  ELSE pc' = "task" /\ UNCHANGED allocator

Drain ==
  /\ pc = "drain"
  /\ Recv!RecvData
  /\ Dispatch
  /\ UNCHANGED <<down, cut, plugs>>

Player == \E p \in Pitches : Lift(p) \/ \E v \in Velocities : Press(p, v)

Next == Player \/ Unplug \/ Task \/ Drain

(***************************************************************************)
(* The processor runs the loop without end, and a keyboard that has events *)
(* and is asked again and again sends a packet eventually.                 *)
(***************************************************************************)
DrainPacket == Drain /\ Recv!FetchPacket

Spec == Init /\ [][Next]_vars /\ WF_vars(Task) /\ WF_vars(Drain) /\ SF_vars(DrainPacket)
-----------------------------------------------------------------------------
InTransit == Recv!Unread \o outbox
Pending(m) == \E k \in 1 .. Len(InTransit) : InTransit[k] = m
Playing(p) == Alloc!Playing(p)

TypeOK ==
  /\ Alloc!TypeOK /\ Recv!TypeOK
  /\ pc \in {"task", "drain"}
  /\ down \subseteq Pitches /\ cut \subseteq Pitches /\ plugs \in 0 .. MaxPlugs

(***************************************************************************)
(* No hanging notes: a voice plays a pitch only while its key is down, its *)
(* Note Off is under way, or a pulled cable has swallowed the Note Off.    *)
(***************************************************************************)
NoHangingNote ==
  \A p \in Pitches : Playing(p) # {} => p \in down \/ Pending(Off(p)) \/ p \in cut

(***************************************************************************)
(* Release forgets readPtr, yet throws no message away: the inner loop     *)
(* leaves the buffer empty before Usb.Task can run.                        *)
(***************************************************************************)
ReleaseDiscardsNothing == pc = "task" => Recv!Unread = <<>>

(***************************************************************************)
(* A key that is let go for good falls silent, unless the cable was pulled *)
(* under it.                                                               *)
(***************************************************************************)
ReleasedKeyFallsSilent ==
  \A p \in Pitches : <>[](p \notin down /\ p \notin cut) => <>[](Playing(p) = {})

(* An unplugged keyboard is released: the drain loop cannot keep Usb.Task  *)
(* from running once nothing is sent any more.                             *)
UnplugIsNoticed == bPollEnable /\ ~plugged ~> ~bPollEnable
=============================================================================
