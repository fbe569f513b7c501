-------------------------- MODULE MidiSynth_proofs --------------------------
(***************************************************************************)
(* No hanging notes, for any number of voices, any buffer and any keys.    *)
(* The argument follows one key: the Note Ons and Note Offs for it that    *)
(* are under way, the voices that play it and whether it is held down.     *)
(***************************************************************************)
EXTENDS MidiSynth, SequenceTheorems, TLAPS

AP == INSTANCE VoiceAllocator_proofs
        WITH Pitches <- AllPitches, Velocities <- Velocities \cup {0}
RP == INSTANCE MidiReceiver_proofs WITH Messages <- Played, Dataless <- {}

(* The packets that the buffer keeps apart, and the keys that the search   *)
(* by pitch byte keeps apart from a silent voice.                          *)
Deployed == /\ 0 \notin PacketSizes /\ Slots - 1 \notin PacketSizes /\ Slots > 1
            /\ 0 \notin Pitches

-----------------------------------------------------------------------------
(***************************************************************************)
(* One key.  q is what is under way, held says that the key is down, plays *)
(* that a voice plays it: every Note On is answered by a later Note Off    *)
(* unless the key is held, two Note Ons have a Note Off between them, and  *)
(* a voice that plays counts as a Note On that has arrived already.        *)
(***************************************************************************)
Ons(q, p)  == {k \in 1 .. Len(q) : q[k].kind = "on" /\ q[k].pitch = p}
Offs(q, p) == {k \in 1 .. Len(q) : q[k] = Off(p)}

Key(q, p, held, plays) ==
  /\ \A k \in Ons(q, p) : held \/ \E j \in Offs(q, p) : k < j
  /\ \A i, k \in Ons(q, p) : i < k => \E j \in Offs(q, p) : i < j /\ j < k
  /\ plays => held \/ Offs(q, p) # {}
  /\ plays => \A k \in Ons(q, p) : \E j \in Offs(q, p) : j < k

LEMMA Messages2 ==
  ASSUME NEW m \in Played
  PROVE  /\ m.kind \in {"on", "off"}
         /\ m.pitch \in AllPitches
         /\ m.kind = "off" => m = Off(m.pitch) /\ m.pitch \in Pitches
         /\ m.kind = "on" => \E v \in Velocities : m = On(m.pitch, v)
         /\ m.vel \in Velocities \cup {0}
BY DEF Played, On, Off, AllPitches

LEMMA OnsOffs ==
  ASSUME NEW q \in Seq(Played), NEW p
  PROVE  Ons(q, p) \subseteq Int /\ Offs(q, p) \subseteq Int
         /\ Ons(q, p) \subseteq 1 .. Len(q) /\ Offs(q, p) \subseteq 1 .. Len(q)
BY DEF Ons, Offs

(* Appending.                                                              *)
LEMMA Appended ==
  ASSUME NEW q \in Seq(Played), NEW m \in Played, NEW p
  PROVE  /\ Len(q) \in Nat
         /\ Ons(q, p) \subseteq 1 .. Len(q) /\ Offs(q, p) \subseteq 1 .. Len(q)
         /\ m.kind = "on" /\ m.pitch = p => Ons(Append(q, m), p) = Ons(q, p) \cup {Len(q) + 1}
         /\ m.kind # "on" \/ m.pitch # p => Ons(Append(q, m), p) = Ons(q, p)
         /\ m = Off(p) => Offs(Append(q, m), p) = Offs(q, p) \cup {Len(q) + 1}
         /\ m # Off(p) => Offs(Append(q, m), p) = Offs(q, p)
<1>1. /\ Len(Append(q, m)) = Len(q) + 1 /\ Len(q) \in Nat
      /\ \A i \in 1 .. Len(q) : Append(q, m)[i] = q[i]
      /\ Append(q, m)[Len(q) + 1] = m
  BY AppendProperties, LenProperties
<1>2. \A k : k \in 1 .. Len(q) + 1 <=> k \in 1 .. Len(q) \/ k = Len(q) + 1
  BY <1>1
<1> QED BY <1>1, <1>2 DEF Ons, Offs

LEMMA KeyPressed ==
  ASSUME NEW q \in Seq(Played), NEW m \in Played, NEW p \in Pitches, NEW plays \in BOOLEAN,
         m.kind = "on", m.pitch = p, Key(q, p, FALSE, plays)
  PROVE  Key(Append(q, m), p, TRUE, plays)
<1>1. m # Off(p)
  BY DEF Off
<1>2. /\ Len(q) \in Nat
      /\ Ons(q, p) \subseteq 1 .. Len(q) /\ Offs(q, p) \subseteq 1 .. Len(q)
      /\ Ons(Append(q, m), p) = Ons(q, p) \cup {Len(q) + 1}
      /\ Offs(Append(q, m), p) = Offs(q, p)
  BY <1>1, Appended
<1>3. ASSUME NEW i \in Ons(q, p) \cup {Len(q) + 1}, NEW k \in Ons(q, p) \cup {Len(q) + 1}, i < k
      PROVE  \E j \in Offs(q, p) : i < j /\ j < k
  <2>1. CASE k = Len(q) + 1
    <3>1. i \in Ons(q, p)
      BY <1>2, <1>3, <2>1
    <3>2. PICK j \in Offs(q, p) : i < j
      BY <3>1 DEF Key
    <3> QED BY <1>2, <2>1, <3>2
  <2>2. CASE k \in Ons(q, p)
    <3>1. i \in Ons(q, p)
      BY <1>2, <1>3, <2>2
    <3> QED BY <1>3, <2>2, <3>1 DEF Key
  <2> QED BY <2>1, <2>2
<1>4. ASSUME plays, NEW k \in Ons(q, p) \cup {Len(q) + 1}
      PROVE  \E j \in Offs(q, p) : j < k
  <2>1. CASE k = Len(q) + 1
    <3>1. PICK j \in Offs(q, p) : TRUE
      BY <1>4 DEF Key
    <3> QED BY <1>2, <2>1, <3>1
  <2>2. CASE k \in Ons(q, p)
    BY <1>4, <2>2 DEF Key
  <2> QED BY <2>1, <2>2
<1> QED BY <1>2, <1>3, <1>4 DEF Key

LEMMA KeyLifted ==
  ASSUME NEW q \in Seq(Played), NEW p \in Pitches, NEW plays \in BOOLEAN, NEW held \in BOOLEAN,
         Off(p) \in Played, Key(q, p, held, plays)
  PROVE  Key(Append(q, Off(p)), p, FALSE, plays)
<1>1. Off(p).kind # "on"
  BY DEF Off
<1>2. /\ Len(q) \in Nat
      /\ Ons(q, p) \subseteq 1 .. Len(q) /\ Offs(q, p) \subseteq 1 .. Len(q)
      /\ Ons(Append(q, Off(p)), p) = Ons(q, p)
      /\ Offs(Append(q, Off(p)), p) = Offs(q, p) \cup {Len(q) + 1}
  BY <1>1, Appended
<1>3. \A k \in Ons(q, p) : k < Len(q) + 1
  BY <1>2
<1> QED BY <1>2, <1>3 DEF Key

LEMMA KeyUntouched ==
  ASSUME NEW q \in Seq(Played), NEW m \in Played, NEW p \in Pitches, NEW plays \in BOOLEAN,
         NEW held \in BOOLEAN, m.pitch # p, Key(q, p, held, plays)
  PROVE  Key(Append(q, m), p, held, plays)
<1>1. m # Off(p)
  BY DEF Off
<1>2. Ons(Append(q, m), p) = Ons(q, p) /\ Offs(Append(q, m), p) = Offs(q, p)
  BY <1>1, Appended
<1> QED BY <1>2 DEF Key

(* Taking the head off.                                                    *)
LEMMA TakenOff ==
  ASSUME NEW q \in Seq(Played), q # <<>>, NEW p
  PROVE  /\ Tail(q) \in Seq(Played) /\ Head(q) = q[1] /\ Head(q) \in Played
         /\ \A k \in Ons(q, p) : k # 1 => k - 1 \in Ons(Tail(q), p)
         /\ \A k \in Ons(Tail(q), p) : k \in Int /\ k + 1 \in Ons(q, p) /\ k > 0
         /\ \A k \in Offs(q, p) : k # 1 => k - 1 \in Offs(Tail(q), p)
         /\ \A k \in Offs(Tail(q), p) : k \in Int /\ k + 1 \in Offs(q, p) /\ k > 0
         /\ Ons(q, p) \subseteq Int /\ Offs(q, p) \subseteq Int
<1>1. /\ Head(q) \in Played
      /\ Tail(q) \in Seq(Played)
      /\ Len(Tail(q)) = Len(q)-1
      /\ \A i \in 1 .. Len(Tail(q)) : Tail(q)[i] = q[i+1]
  BY HeadTailProperties
<1>2. Len(q) \in Nat
  BY LenProperties
<1>3. \A k \in 1 .. Len(q) : k # 1 => k - 1 \in 1 .. Len(Tail(q)) /\ Tail(q)[k - 1] = q[k]
  <2> SUFFICES ASSUME NEW k \in 1 .. Len(q), k # 1
               PROVE  k - 1 \in 1 .. Len(Tail(q)) /\ Tail(q)[k - 1] = q[k]
    OBVIOUS
  <2>1. k - 1 \in 1 .. Len(Tail(q)) /\ (k - 1) + 1 = k
    BY <1>1, <1>2
  <2> QED BY <1>1, <2>1
<1>4. \A k \in 1 .. Len(Tail(q)) : k + 1 \in 1 .. Len(q) /\ Tail(q)[k] = q[k + 1]
  BY <1>1, <1>2
<1> QED BY <1>1, <1>2, <1>3, <1>4 DEF Ons, Offs

LEMMA KeyOnArrived ==
  ASSUME NEW q \in Seq(Played), q # <<>>, NEW p \in Pitches, NEW plays \in BOOLEAN,
         NEW held \in BOOLEAN, Key(q, p, held, plays), 1 \in Ons(q, p)
  PROVE  ~plays /\ \A b \in BOOLEAN : Key(Tail(q), p, held, b)
<1>1. \A j \in Offs(q, p) : j >= 1 /\ j # 1
  BY OnsOffs DEF Ons, Offs, Off
<1>2. ~plays
  <2>1. plays => \E j \in Offs(q, p) : j < 1
    BY DEF Key
  <2>2. \A j \in Offs(q, p) : j \in Int
    BY OnsOffs
  <2> QED BY <1>1, <2>1, <2>2
<1>3. /\ \A k \in Ons(q, p) : k # 1 => k - 1 \in Ons(Tail(q), p)
      /\ \A k \in Ons(Tail(q), p) : k \in Int /\ k + 1 \in Ons(q, p) /\ k > 0
      /\ \A k \in Offs(q, p) : k # 1 => k - 1 \in Offs(Tail(q), p)
      /\ \A k \in Offs(Tail(q), p) : k \in Int /\ k + 1 \in Offs(q, p) /\ k > 0
      /\ Ons(q, p) \subseteq Int /\ Offs(q, p) \subseteq Int
  BY TakenOff
<1>4. ASSUME NEW k \in Ons(Tail(q), p), ~held
      PROVE  \E j \in Offs(Tail(q), p) : k < j
  <2>1. PICK j \in Offs(q, p) : k + 1 < j
    BY <1>3, <1>4 DEF Key
  <2> QED BY <1>1, <1>3, <2>1
<1>5. ASSUME NEW i \in Ons(Tail(q), p), NEW k \in Ons(Tail(q), p), i < k
      PROVE  \E j \in Offs(Tail(q), p) : i < j /\ j < k
  <2>1. PICK j \in Offs(q, p) : i + 1 < j /\ j < k + 1
    BY <1>3, <1>5 DEF Key
  <2> QED BY <1>1, <1>3, <2>1
<1>6. held \/ Offs(Tail(q), p) # {}
  <2>1. held \/ \E j \in Offs(q, p) : 1 < j
    BY DEF Key
  <2> QED BY <1>1, <1>3, <2>1
<1>7. ASSUME NEW k \in Ons(Tail(q), p)
      PROVE  \E j \in Offs(Tail(q), p) : j < k
  <2>1. PICK j \in Offs(q, p) : 1 < j /\ j < k + 1
    BY <1>3 DEF Key
  <2> QED BY <1>1, <1>3, <2>1
<1> QED BY <1>2, <1>4, <1>5, <1>6, <1>7 DEF Key

LEMMA KeyOffArrived ==
  ASSUME NEW q \in Seq(Played), q # <<>>, NEW p \in Pitches, NEW plays \in BOOLEAN,
         NEW held \in BOOLEAN, Key(q, p, held, plays)
  PROVE  Key(Tail(q), p, held, FALSE)
<1>1. /\ \A k \in Ons(Tail(q), p) : k \in Int /\ k + 1 \in Ons(q, p) /\ k > 0
      /\ \A k \in Offs(q, p) : k # 1 => k - 1 \in Offs(Tail(q), p)
      /\ Ons(q, p) \subseteq Int /\ Offs(q, p) \subseteq Int
  BY TakenOff
<1>2. ASSUME NEW k \in Ons(Tail(q), p), ~held
      PROVE  \E j \in Offs(Tail(q), p) : k < j
  <2>1. PICK j \in Offs(q, p) : k + 1 < j
    BY <1>1, <1>2 DEF Key
  <2> QED BY <1>1, <2>1
<1>3. ASSUME NEW i \in Ons(Tail(q), p), NEW k \in Ons(Tail(q), p), i < k
      PROVE  \E j \in Offs(Tail(q), p) : i < j /\ j < k
  <2>1. PICK j \in Offs(q, p) : i + 1 < j /\ j < k + 1
    BY <1>1, <1>3 DEF Key
  <2> QED BY <1>1, <2>1
<1> QED BY <1>2, <1>3 DEF Key

LEMMA KeyOtherArrived ==
  ASSUME NEW q \in Seq(Played), q # <<>>, NEW p \in Pitches, NEW plays \in BOOLEAN,
         NEW held \in BOOLEAN, Key(q, p, held, plays), Head(q).pitch # p
  PROVE  Key(Tail(q), p, held, plays)
<1>1. Key(Tail(q), p, held, FALSE)
  BY KeyOffArrived
<1>2. /\ \A k \in Ons(Tail(q), p) : k \in Int /\ k + 1 \in Ons(q, p) /\ k > 0
      /\ \A k \in Offs(q, p) : k # 1 => k - 1 \in Offs(Tail(q), p)
      /\ Offs(q, p) \subseteq Int /\ Head(q) = q[1]
  BY TakenOff
<1>3. 1 \notin Offs(q, p)
  BY <1>2 DEF Offs, Off
<1>4. ASSUME plays, ~held
      PROVE  Offs(Tail(q), p) # {}
  <2>1. PICK j \in Offs(q, p) : TRUE
    BY <1>4 DEF Key
  <2> QED BY <1>2, <1>3, <2>1
<1>5. ASSUME plays, NEW k \in Ons(Tail(q), p)
      PROVE  \E j \in Offs(Tail(q), p) : j < k
  <2>1. PICK j \in Offs(q, p) : j < k + 1
    BY <1>2, <1>5 DEF Key
  <2> QED BY <1>2, <1>3, <2>1
<1> QED BY <1>1, <1>4, <1>5 DEF Key

(* Cutting off a rear part that holds no Note Off for the key.             *)
LEMMA KeyCut ==
  ASSUME NEW u \in Seq(Played), NEW t \in Seq(Played), NEW p \in Pitches,
         NEW plays \in BOOLEAN, Offs(t, p) = {}, Key(u \o t, p, FALSE, plays)
  PROVE  Key(u, p, FALSE, plays)
<1>1. /\ Len(u \o t) = Len(u) + Len(t) /\ Len(u) \in Nat /\ Len(t) \in Nat
      /\ \A i \in 1 .. Len(u) + Len(t) : (u \o t)[i] = IF i <= Len(u) THEN u[i]
                                                       ELSE t[i - Len(u)]
  BY ConcatProperties, LenProperties
<1>2. Ons(u, p) \subseteq Ons(u \o t, p)
  BY <1>1 DEF Ons
<1>3. Offs(u \o t, p) \subseteq Offs(u, p)
  <2> SUFFICES ASSUME NEW k \in Offs(u \o t, p)
               PROVE  k \in Offs(u, p)
    OBVIOUS
  <2>1. k \in 1 .. Len(u) + Len(t) /\ (u \o t)[k] = Off(p)
    BY <1>1 DEF Offs
  <2>2. CASE k <= Len(u)
    BY <1>1, <2>1, <2>2 DEF Offs
  <2>3. CASE k > Len(u)
    <3>1. k - Len(u) \in 1 .. Len(t) /\ t[k - Len(u)] = Off(p)
      BY <1>1, <2>1, <2>3
    <3> QED BY <3>1 DEF Offs
  <2> QED BY <1>1, <2>1, <2>2, <2>3
<1>4. Offs(u, p) \subseteq Offs(u \o t, p)
  BY <1>1 DEF Offs
<1> QED BY <1>2, <1>3, <1>4 DEF Key

-----------------------------------------------------------------------------
(* The assumptions of the two components hold here.                        *)
LEMMA ReceiverFits ==
  /\ RP!SlotsAssumption /\ RP!MessagesAssumption /\ RP!PacketAssumption
  /\ Deployed => RP!Sizes
BY SlotsAssumption, ValuesAssumption, PacketAssumption, OutboxAssumption
DEF RP!SlotsAssumption, RP!MessagesAssumption, RP!PacketAssumption, RP!Sizes, Deployed

LEMMA AllocatorFits == AP!NumNotesAssumption /\ AP!ByteAssumption
BY VoicesAssumption, BytesAssumption
DEF AP!NumNotesAssumption, AP!ByteAssumption, AllPitches, AP!Byte

LEMMA PlayedAreMessages ==
  ASSUME NEW m \in Played
  PROVE  m \in AP!Message
BY DEF Played, On, Off, AllPitches, AP!Message

(* The components under their two names.                                   *)
LEMMA ReceiverSame ==
  /\ Recv!Unread = RP!Unread
  /\ (Recv!TypeOK <=> RP!TypeOK)
  /\ (Recv!Init <=> RP!Init)
  /\ \A m : Recv!Send(m) <=> RP!Send(m)
  /\ (Recv!Unplug <=> RP!Unplug)
  /\ (Recv!Release <=> RP!Release)
<1>1. Recv!Unread = RP!Unread
  BY DEF Recv!Unread, RP!Unread, Recv!Unprocessed, RP!Unprocessed
<1>2. Recv!TypeOK <=> RP!TypeOK
  BY DEF Recv!TypeOK, RP!TypeOK, Recv!HalfSlot, RP!HalfSlot, Recv!Slot, RP!Slot
<1>3. Recv!Init <=> RP!Init
  BY DEF Recv!Init, RP!Init, Recv!Slot, RP!Slot, Recv!Empty, RP!Empty
<1>4. \A m : Recv!Send(m) <=> RP!Send(m)
  BY DEF Recv!Send, RP!Send, Recv!driver, RP!driver
<1>5. Recv!Unplug <=> RP!Unplug
  BY DEF Recv!Unplug, RP!Unplug, Recv!driver, RP!driver
<1>6. Recv!Release <=> RP!Release
  BY DEF Recv!Release, RP!Release, Recv!keyboard, RP!keyboard
<1> QED BY <1>1, <1>2, <1>3, <1>4, <1>5, <1>6

LEMMA RecvDataSame == Recv!RecvData => RP!RecvData
<1>1. Recv!ReturnFromBuffer <=> RP!ReturnFromBuffer
  BY DEF Recv!ReturnFromBuffer, RP!ReturnFromBuffer, Recv!Unprocessed, RP!Unprocessed,
         Recv!Return, RP!Return
<1>2. Recv!FetchFails <=> RP!FetchFails
  BY DEF Recv!FetchFails, RP!FetchFails, Recv!Filled, RP!Filled, Recv!Bytes, RP!Bytes,
         Recv!Slot, RP!Slot
<1>3. Recv!FetchPacket <=> RP!FetchPacket
  BY DEF Recv!FetchPacket, RP!FetchPacket, Recv!Filled, RP!Filled, Recv!Bytes, RP!Bytes,
         Recv!Slot, RP!Slot, Recv!Empty, RP!Empty, Recv!Return, RP!Return
<1>4. Recv!Unprocessed(recvBuf, readPtr) <=> RP!Unprocessed(recvBuf, readPtr)
  BY DEF Recv!Unprocessed, RP!Unprocessed
<1> QED BY <1>1, <1>2, <1>3, <1>4 DEF Recv!RecvData, RP!RecvData

LEMMA AllocatorSame ==
  /\ (Alloc!TypeOK <=> AP!TypeOK)
  /\ (Alloc!Init <=> AP!Init)
  /\ \A m \in Played : Alloc!Handle(m) <=> AP!Handle(m)
<1>1. Alloc!TypeOK <=> AP!TypeOK
  BY DEF Alloc!TypeOK, AP!TypeOK, Alloc!Message, AP!Message, Alloc!NoMessage, AP!NoMessage,
         Alloc!Voice, AP!Voice, Alloc!Word, AP!Word, Alloc!Silence, AP!Silence
<1>2. Alloc!Init <=> AP!Init
  BY DEF Alloc!Init, AP!Init, Alloc!NoMessage, AP!NoMessage,
         Alloc!Voice, AP!Voice, Alloc!Silence, AP!Silence
<1>3. ASSUME NEW m \in Played PROVE Alloc!Handle(m) <=> AP!Handle(m)
  <2>1. Alloc!NoteOn(m) <=> AP!NoteOn(m)
    BY DEF Alloc!NoteOn, AP!NoteOn, Alloc!DropFirst, AP!DropFirst, Alloc!TakeVoice,
           AP!TakeVoice, Alloc!NoVoice, AP!NoVoice, Alloc!Voice, AP!Voice,
           Alloc!FirstAvailable, AP!FirstAvailable, Alloc!Available, AP!Available
  <2>2. Alloc!NoteOff(m) <=> AP!NoteOff(m)
    BY DEF Alloc!NoteOff, AP!NoteOff, Alloc!FreeVoice, AP!FreeVoice, Alloc!NotFound,
           AP!NotFound, Alloc!Voice, AP!Voice, Alloc!FirstSounding, AP!FirstSounding,
           Alloc!Sounds, AP!Sounds, Alloc!Silence, AP!Silence
  <2>3. CASE m.kind = "on"
    BY <2>1, <2>3 DEF Alloc!Handle, AP!Handle
  <2>4. CASE m.kind = "off"
    BY <2>2, <2>4 DEF Alloc!Handle, AP!Handle
  <2> QED BY <2>3, <2>4, Messages2
<1> QED BY <1>1, <1>2, <1>3

-----------------------------------------------------------------------------
(* One message and the voices of one key.                                  *)
Solo(S) == \A i, j \in S : i = j

LEMMA VoicesOfKey ==
  ASSUME AP!TypeOK, AP!FreeVoiceIsSilent, 0 \notin Pitches,
         NEW m \in Played, AP!Handle(m), NEW p \in Pitches
  PROVE  /\ m.pitch # p => Playing(p)' = Playing(p)
         /\ m.kind = "on" /\ m.pitch = p /\ Playing(p) = {} => Solo(Playing(p)')
         /\ m = Off(p) /\ Solo(Playing(p)) => Playing(p)' = {}
<1>1. /\ \/ m.kind = "on" /\ AP!DropFirst(m)
         \/ m.kind = "on" /\ AP!TakeVoice(m)
         \/ m.kind = "on" /\ AP!NoVoice(m)
         \/ m.kind = "off" /\ AP!FreeVoice(m)
         \/ m.kind = "off" /\ AP!NotFound(m)
         \/ m.kind = "other" /\ UNCHANGED <<note_vol, note_used, first_note>>
  BY PlayedAreMessages, AllocatorFits, AP!HandlerCases
<1>2. /\ Playing(p) = {i \in AP!Voice : note_used[i] /\ note_vol[i].pitch = p}
      /\ Playing(p)' = {i \in AP!Voice : note_used'[i] /\ note_vol'[i].pitch = p}
  BY DEF Playing, Alloc!Playing, Alloc!Sounds, Alloc!Voice, AP!Voice
<1>3. /\ note_vol \in [AP!Voice -> AP!Word] /\ note_used \in [AP!Voice -> BOOLEAN]
      /\ p # 0 /\ (m.kind \in {"on", "off"}) /\ (m = Off(p) => m.kind = "off" /\ m.pitch = p)
      /\ m.kind = "off" /\ m.pitch = p => m = Off(p)
  BY Messages2 DEF AP!TypeOK, Off
<1>4. CASE UNCHANGED <<note_vol, note_used>>
  <2>1. Playing(p)' = Playing(p)
    BY <1>2, <1>4
  <2>2. m = Off(p) => Playing(p) = {}
    <3> SUFFICES ASSUME m = Off(p) PROVE Playing(p) = {}
      OBVIOUS
    <3>1. CASE AP!NotFound(m)
      BY <1>2, <1>3, <3>1 DEF AP!NotFound, AP!Sounds
    <3>2. CASE AP!FreeVoice(m)
      <4>1. PICK i \in AP!Voice : /\ note_vol[i].pitch = p
                                  /\ note_vol' = [note_vol EXCEPT ![i] = AP!Silence]
        BY <1>3, <3>2 DEF AP!FreeVoice, AP!FirstSounding, AP!Sounds
      <4>2. note_vol'[i].pitch = 0
        BY <1>3, <4>1 DEF AP!Silence
      <4> QED BY <1>3, <1>4, <4>1, <4>2
    <3> QED BY <1>1, <1>3, <3>1, <3>2
  <2> QED BY <2>1, <2>2 DEF Solo
<1>5. CASE m.kind = "on" /\ AP!TakeVoice(m)
  <2>1. PICK i \in AP!Voice :
          /\ ~note_used[i]
          /\ note_used' = [note_used EXCEPT ![i] = TRUE]
          /\ note_vol' = [note_vol EXCEPT ![i] = [pitch |-> m.pitch, vol |-> m.vel]]
    BY <1>5 DEF AP!TakeVoice, AP!FirstAvailable, AP!Available
  <2>2. /\ note_used'[i] /\ note_vol'[i].pitch = m.pitch
        /\ \A j \in AP!Voice : j # i => note_used'[j] = note_used[j] /\ note_vol'[j] = note_vol[j]
    BY <1>3, <2>1
  <2>3. m.pitch # p => Playing(p)' = Playing(p)
    BY <1>2, <2>1, <2>2
  <2>4. Playing(p) = {} => Solo(Playing(p)')
    BY <1>2, <2>1, <2>2 DEF Solo
  <2> QED BY <1>3, <1>5, <2>3, <2>4
<1>6. CASE m.kind = "off" /\ AP!FreeVoice(m)
  <2>1. PICK i \in AP!Voice :
          /\ note_vol[i].pitch = m.pitch
          /\ note_used' = [note_used EXCEPT ![i] = FALSE]
          /\ note_vol' = [note_vol EXCEPT ![i] = AP!Silence]
    BY <1>6 DEF AP!FreeVoice, AP!FirstSounding, AP!Sounds
  <2>2. /\ ~note_used'[i]
        /\ \A j \in AP!Voice : j # i => note_used'[j] = note_used[j] /\ note_vol'[j] = note_vol[j]
    BY <1>3, <2>1
  <2>3. m.pitch # p => Playing(p)' = Playing(p)
    BY <1>2, <2>1, <2>2
  <2>4. m.pitch = p => note_used[i]
    <3> SUFFICES ASSUME m.pitch = p, ~note_used[i] PROVE FALSE
      OBVIOUS
    <3>1. note_vol[i] = AP!Silence
      BY <2>1 DEF AP!FreeVoiceIsSilent
    <3> QED BY <1>3, <2>1, <3>1 DEF AP!Silence
  <2>5. m = Off(p) /\ Solo(Playing(p)) => Playing(p)' = {}
    BY <1>2, <1>3, <2>1, <2>2, <2>4 DEF Solo
  <2> QED BY <1>6, <2>3, <2>5
<1> QED BY <1>1, <1>3, <1>4, <1>5, <1>6 DEF AP!DropFirst, AP!NoVoice, AP!NotFound

-----------------------------------------------------------------------------
(***************************************************************************)
(* The invariant: what is under way for a key agrees with the key and with *)
(* the voices, and the buffer is empty whenever Usb.Task may run.          *)
(***************************************************************************)
Q == RP!Unread \o outbox

KeyInv(p) == Key(Q, p, p \in down, Playing(p) # {}) /\ Solo(Playing(p))

SInv ==
  /\ AP!TypeOK /\ AP!FreeVoiceIsSilent
  /\ RP!TypeOK /\ RP!Terminated /\ RP!Held
  /\ pc \in {"task", "drain"}
  /\ pc = "task" => readPtr = 0
  /\ down \subseteq Pitches /\ cut \subseteq Pitches /\ plugs \in 0 .. MaxPlugs
  /\ \A p \in Pitches \ cut : KeyInv(p)

LEMMA ReceiverStep ==
  ASSUME Deployed, RP!TypeOK, RP!Terminated, RP!Held, [RP!Next]_RP!vars
  PROVE  RP!TypeOK' /\ RP!Terminated' /\ RP!Held'
<1>1. RP!SlotsAssumption /\ RP!MessagesAssumption /\ RP!PacketAssumption /\ RP!Sizes
  BY ReceiverFits
<1>2. MaxOutbox \in Nat
  BY OutboxAssumption
<1>3. RP!TypeOK'
  BY <1>1, <1>2, RP!TypeStep
<1>4. RP!Terminated'
  BY <1>1, RP!TerminatedStep DEF Deployed
<1>5. RP!Held'
  BY <1>1, RP!StepSimulation
<1> QED BY <1>3, <1>4, <1>5

LEMMA QueueType ==
  ASSUME Deployed, RP!TypeOK, RP!Terminated, RP!Held
  PROVE  /\ RP!Unread \in Seq(Played) /\ outbox \in Seq(Played) /\ Q \in Seq(Played)
         /\ readPtr = 0 => RP!Unread = <<>>
<1>1. /\ RP!Unread \in Seq(Played) /\ outbox \in Seq(Played)
      /\ readPtr = 0 => RP!Unread = <<>>
  BY ReceiverFits, RP!QueueOf
<1> QED BY <1>1, ConcatProperties DEF Q

(* The voices of a key do not change when the allocator does not run.      *)
LEMMA VoicesKept ==
  ASSUME UNCHANGED allocator, AP!TypeOK, AP!FreeVoiceIsSilent
  PROVE  /\ AP!TypeOK' /\ AP!FreeVoiceIsSilent'
         /\ \A p : Playing(p)' = Playing(p)
BY DEF allocator, AP!TypeOK, AP!FreeVoiceIsSilent, Playing, Alloc!Playing, Alloc!Sounds

(* Truth values by name.                                                   *)
LEMMA Truths ==
  ASSUME NEW p
  PROVE  \E held \in BOOLEAN, plays \in BOOLEAN :
           held = (p \in down) /\ plays = (Playing(p) # {})
<1>1. (p \in down) \in BOOLEAN /\ (Playing(p) # {}) \in BOOLEAN
  OBVIOUS
<1>2. \A a, b \in BOOLEAN : \E held \in BOOLEAN, plays \in BOOLEAN : held = a /\ plays = b
  OBVIOUS
<1> QED BY <1>1, <1>2

(* A key goes down or up.                                                  *)
LEMMA PlayerStep == Deployed /\ SInv /\ Player => SInv'
<1> SUFFICES ASSUME Deployed, SInv, Player PROVE SInv'
  OBVIOUS
<1>1. PICK m \in Played, r \in Pitches :
        /\ Recv!Send(m) /\ m.pitch = r
        /\ \/ m.kind = "on" /\ r \notin down /\ down' = down \cup {r}
           \/ m = Off(r) /\ down' = down \ {r}
        /\ UNCHANGED <<allocator, pc, cut, plugs>>
  <2>1. CASE \E p \in Pitches : Lift(p)
    <3>1. PICK p \in Pitches : Lift(p)
      BY <2>1
    <3>2. Off(p) \in Played /\ Off(p).pitch = p
      BY DEF Played, Off
    <3> QED BY <3>1, <3>2 DEF Lift
  <2>2. CASE \E p \in Pitches : \E v \in Velocities : Press(p, v)
    <3>1. PICK p \in Pitches, v \in Velocities : Press(p, v)
      BY <2>2
    <3>2. On(p, v) \in Played /\ On(p, v).pitch = p /\ On(p, v).kind = "on"
      BY DEF Played, On, AllPitches
    <3> QED BY <3>1, <3>2 DEF Press
  <2> QED BY <2>1, <2>2 DEF Player
<1>2. RP!Send(m)
  BY <1>1, ReceiverSame
<1>3. RP!TypeOK' /\ RP!Terminated' /\ RP!Held'
  BY <1>2, ReceiverStep DEF SInv, RP!Next
<1>4. Q' = Append(Q, m)
  <2>1. RP!SlotsAssumption /\ RP!MessagesAssumption /\ RP!PacketAssumption /\ RP!Sizes
    BY ReceiverFits
  <2> QED BY <1>2, <2>1, RP!SendAppends DEF SInv, Q
<1>5. Q \in Seq(Played)
  BY QueueType DEF SInv
<1>6. AP!TypeOK' /\ AP!FreeVoiceIsSilent' /\ \A p : Playing(p)' = Playing(p)
  BY <1>1, VoicesKept DEF SInv
<1>7. readPtr' = readPtr /\ pc' = pc /\ cut' = cut /\ plugs' = plugs
  BY <1>1, <1>2 DEF RP!Send, RP!driver
<1>8. ASSUME NEW p \in Pitches \ cut
      PROVE  KeyInv(p)'
  <2>1. Key(Q, p, p \in down, Playing(p) # {}) /\ Solo(Playing(p))
    BY DEF SInv, KeyInv
  <2>2. Key(Append(Q, m), p, p \in down', Playing(p) # {})
    <3>0. PICK held \in BOOLEAN, plays \in BOOLEAN :
            held = (p \in down) /\ plays = (Playing(p) # {})
      BY Truths
    <3>1. CASE p # r
      <4>1. (p \in down') = (p \in down)
        BY <1>1, <3>1
      <4>2. Key(Append(Q, m), p, p \in down, Playing(p) # {})
        <5>1. Key(Append(Q, m), p, held, plays)
          BY <1>1, <1>5, <2>1, <3>0, <3>1, KeyUntouched
        <5> QED BY <3>0, <5>1
      <4> QED BY <4>1, <4>2
    <3>2. CASE p = r /\ m.kind = "on" /\ r \notin down /\ down' = down \cup {r}
      <4>1. (p \in down) = FALSE /\ (p \in down') = TRUE
        BY <3>2
      <4>2. Key(Q, p, FALSE, Playing(p) # {})
        BY <2>1, <4>1
      <4>3. Key(Append(Q, m), p, TRUE, Playing(p) # {})
        BY <1>1, <1>5, <3>2, <4>2, KeyPressed
      <4> QED BY <4>1, <4>3
    <3>3. CASE p = r /\ m = Off(r) /\ down' = down \ {r}
      <4>1. (p \in down') = FALSE
        BY <3>3
      <4>2. Key(Append(Q, m), p, FALSE, Playing(p) # {})
        <5>1. Key(Append(Q, Off(p)), p, FALSE, plays)
          BY <1>1, <1>5, <2>1, <3>0, <3>3, KeyLifted
        <5> QED BY <3>0, <3>3, <5>1
      <4> QED BY <4>1, <4>2
    <3> QED BY <1>1, <3>1, <3>2, <3>3
  <2> QED BY <1>4, <1>6, <2>1, <2>2 DEF KeyInv
<1>9. down' \subseteq Pitches
  BY <1>1 DEF SInv
<1> QED BY <1>3, <1>6, <1>7, <1>8, <1>9 DEF SInv

(* The cable is pulled: a key is cut off, or nothing in the keyboard is    *)
(* about to release it.                                                    *)
LEMMA UnplugStep == Deployed /\ SInv /\ Unplug => SInv'
<1> SUFFICES ASSUME Deployed, SInv, Unplug PROVE SInv'
  OBVIOUS
<1>1. /\ RP!Unplug /\ down' = {}
      /\ cut' = cut \cup down \cup
                  {p \in Pitches : \E k \in 1 .. Len(outbox) : outbox[k] = Off(p)}
      /\ UNCHANGED <<allocator, pc, plugs>>
  BY ReceiverSame DEF Unplug
<1>2. RP!TypeOK' /\ RP!Terminated' /\ RP!Held'
  BY <1>1, ReceiverStep DEF SInv, RP!Next
<1>3. Q' = RP!Unread
  <2>1. RP!SlotsAssumption /\ RP!MessagesAssumption /\ RP!PacketAssumption /\ RP!Sizes
    BY ReceiverFits
  <2> QED BY <1>1, <2>1, RP!UnplugCuts DEF SInv, Q
<1>4. RP!Unread \in Seq(Played) /\ outbox \in Seq(Played)
  BY QueueType DEF SInv
<1>5. AP!TypeOK' /\ AP!FreeVoiceIsSilent' /\ \A p : Playing(p)' = Playing(p)
  BY <1>1, VoicesKept DEF SInv
<1>6. readPtr' = readPtr
  BY <1>1 DEF RP!Unplug, RP!driver
<1>7. ASSUME NEW p \in Pitches \ cut'
      PROVE  KeyInv(p)'
  <2>1. p \in Pitches \ cut /\ p \notin down /\ Offs(outbox, p) = {}
    BY <1>1 DEF Offs
  <2>2. Key(Q, p, FALSE, Playing(p) # {}) /\ Solo(Playing(p))
    <3>1. (p \in down) = FALSE
      BY <2>1
    <3> QED BY <2>1, <3>1 DEF SInv, KeyInv
  <2>3. Key(RP!Unread, p, FALSE, Playing(p) # {})
    BY <1>4, <2>1, <2>2, KeyCut DEF Q
  <2>4. (p \in down') = FALSE
    BY <1>1
  <2> QED BY <1>3, <1>5, <2>2, <2>3, <2>4 DEF KeyInv
<1>8. cut' \subseteq Pitches /\ down' \subseteq Pitches
  BY <1>1 DEF SInv
<1> QED BY <1>1, <1>2, <1>5, <1>6, <1>7, <1>8 DEF SInv

(* Usb.Task configures or releases the driver, with nothing in the buffer. *)
LEMMA TaskStep == Deployed /\ SInv /\ Task => SInv'
<1> SUFFICES ASSUME Deployed, SInv, Task PROVE SInv'
  OBVIOUS
<1>1. readPtr = 0 /\ pc' \in {"task", "drain"} /\ UNCHANGED <<allocator, down, cut>>
  BY DEF SInv, Task
<1>2. AP!TypeOK' /\ AP!FreeVoiceIsSilent' /\ \A p : Playing(p)' = Playing(p)
  BY <1>1, VoicesKept DEF SInv
<1>3. RP!Unread = <<>> /\ outbox \in Seq(Played)
  BY <1>1, QueueType DEF SInv
<1>4. CASE Attach
  <2>1. PICK v \in Velocities : outbox' = <<On(InitialPitch, v)>>
    BY <1>4 DEF Attach
  <2>2. /\ ~bPollEnable /\ bPollEnable' = TRUE /\ plugged' = TRUE /\ plugs' = plugs + 1
        /\ plugs < MaxPlugs
        /\ UNCHANGED <<readPtr, recvBuf, fresh, received>>
    BY <1>4 DEF Attach
  <2>3. outbox = <<>> /\ Q = <<>>
    <3>1. outbox = <<>>
      BY <2>2 DEF SInv, RP!Held
    <3> QED BY <1>3, <3>1 DEF Q
  <2>4. /\ On(InitialPitch, v) \in Played
        /\ On(InitialPitch, v).pitch = InitialPitch
    BY DEF Played, On, AllPitches
  <2>5. outbox' \in Seq(Played) /\ Len(outbox') = 1
    BY <2>1, <2>4
  <2>6. RP!TypeOK'
    BY <2>2, <2>5, OutboxAssumption DEF SInv, RP!TypeOK
  <2>7. RP!Terminated' /\ RP!Held'
    BY <1>1, <2>2 DEF SInv, RP!Terminated, RP!Held
  <2>8. Q' = Append(<<>>, On(InitialPitch, v))
    <3>1. RP!Unread' = <<>>
      BY <1>3, <2>2 DEF RP!Unread, RP!Unprocessed
    <3> QED BY <2>1, <3>1 DEF Q
  <2>9. ASSUME NEW p \in Pitches \ cut'
        PROVE  KeyInv(p)'
    <3>1. Key(<<>>, p, p \in down, Playing(p) # {}) /\ Solo(Playing(p))
      BY <1>1, <2>3 DEF SInv, KeyInv
    <3>2. On(InitialPitch, v).pitch # p
      BY <2>4, InitialPitchAssumption
    <3>3. Key(Append(<<>>, On(InitialPitch, v)), p, p \in down, Playing(p) # {})
      <4>1. PICK held \in BOOLEAN, plays \in BOOLEAN :
              held = (p \in down) /\ plays = (Playing(p) # {})
        BY Truths
      <4>2. <<>> \in Seq(Played)
        OBVIOUS
      <4>3. Key(Append(<<>>, On(InitialPitch, v)), p, held, plays)
        BY <2>4, <3>1, <3>2, <4>1, <4>2, KeyUntouched
      <4> QED BY <4>1, <4>3
    <3> QED BY <1>1, <1>2, <2>8, <3>1, <3>3 DEF KeyInv
  <2>10. plugs' \in 0 .. MaxPlugs
    BY <2>2, PlugsAssumption DEF SInv
  <2> QED BY <1>1, <1>2, <2>2, <2>6, <2>7, <2>9, <2>10 DEF SInv
<1>5. CASE Detach \/ Idle
  <2>1. /\ readPtr' = readPtr /\ UNCHANGED <<recvBuf, outbox, plugs>>
        /\ RP!TypeOK' /\ RP!Terminated' /\ RP!Held'
    <3>1. CASE Detach
      <4>1. RP!Release /\ UNCHANGED plugs
        BY <3>1, ReceiverSame DEF Detach
      <4>2. RP!TypeOK' /\ RP!Terminated' /\ RP!Held'
        BY <4>1, ReceiverStep DEF SInv, RP!Next
      <4> QED BY <1>1, <4>1, <4>2 DEF RP!Release, RP!keyboard
    <3>2. CASE Idle
      <4>1. UNCHANGED RP!vars /\ UNCHANGED plugs
        BY <3>2 DEF Idle, receiver, RP!vars
      <4>2. RP!TypeOK' /\ RP!Terminated' /\ RP!Held'
        BY <4>1, ReceiverStep DEF SInv
      <4> QED BY <4>1, <4>2 DEF RP!vars
    <3> QED BY <1>5, <3>1, <3>2
  <2>2. Q' = Q
    BY <2>1 DEF Q, RP!Unread, RP!Unprocessed
  <2>3. \A p \in Pitches \ cut' : KeyInv(p)'
    BY <1>1, <1>2, <2>2 DEF SInv, KeyInv
  <2> QED BY <1>1, <1>2, <2>1, <2>3 DEF SInv
<1> QED BY <1>4, <1>5 DEF Task

(* One turn of the inner loop.                                             *)
LEMMA DrainStep == Deployed /\ SInv /\ Drain => SInv'
<1> SUFFICES ASSUME Deployed, SInv, Drain PROVE SInv'
  OBVIOUS
<1>1. /\ pc = "drain" /\ Recv!RecvData /\ Dispatch /\ UNCHANGED <<down, cut, plugs>>
  BY DEF Drain
<1>2. RP!RecvData
  BY <1>1, RecvDataSame
<1>3. RP!TypeOK' /\ RP!Terminated' /\ RP!Held'
  BY <1>2, ReceiverStep DEF SInv, RP!Next
<1>4. Q \in Seq(Played)
  BY QueueType DEF SInv
<1>5. \/ /\ Q # <<>> /\ received' = Head(Q) /\ Q' = Tail(Q) /\ received' \in Played
      \/ /\ received' = Nothing /\ readPtr' = 0 /\ Q' = Q
  <2>1. RP!SlotsAssumption /\ RP!MessagesAssumption /\ RP!PacketAssumption /\ RP!Sizes
    BY ReceiverFits
  <2> QED BY <1>2, <2>1, RP!CallTakesHead DEF SInv, Q
<1>6. CASE Q # <<>> /\ received' = Head(Q) /\ Q' = Tail(Q) /\ received' \in Played
  <2>1. PICK m \in Played : m = Head(Q)
    BY <1>6
  <2>2. AP!Handle(m) /\ pc' = "drain"
    BY <1>1, <1>6, <2>1, AllocatorSame DEF Dispatch
  <2>3. AP!TypeOK' /\ AP!FreeVoiceIsSilent'
    BY <2>2, PlayedAreMessages, AllocatorFits, AP!HandleKeepsTypes, AP!HandleKeepsSilence
    DEF SInv
  <2>4. ASSUME NEW p \in Pitches \ cut
        PROVE  KeyInv(p)'
    <3>1. Key(Q, p, p \in down, Playing(p) # {}) /\ Solo(Playing(p))
      BY DEF SInv, KeyInv
    <3>2. /\ m.pitch # p => Playing(p)' = Playing(p)
          /\ m.kind = "on" /\ m.pitch = p /\ Playing(p) = {} => Solo(Playing(p)')
          /\ m = Off(p) /\ Solo(Playing(p)) => Playing(p)' = {}
      BY <2>2, VoicesOfKey DEF SInv, Deployed
    <3>3. PICK held \in BOOLEAN, plays \in BOOLEAN :
            held = (p \in down) /\ plays = (Playing(p) # {})
      BY Truths
    <3>4. Key(Q, p, held, plays)
      BY <3>1, <3>3
    <3>5. /\ Key(Tail(Q), p, held, (Playing(p) # {})')
          /\ Solo(Playing(p)')
      <4>1. CASE m.pitch # p
        <5>1. Key(Tail(Q), p, held, plays)
          BY <1>4, <1>6, <2>1, <3>4, <4>1, KeyOtherArrived
        <5> QED BY <3>1, <3>2, <3>3, <4>1, <5>1
      <4>2. CASE m.pitch = p /\ m.kind = "on"
        <5>1. 1 \in Ons(Q, p)
          BY <1>4, <1>6, <2>1, <4>2 DEF Ons
        <5>2. ~plays /\ \A b \in BOOLEAN : Key(Tail(Q), p, held, b)
          BY <1>4, <1>6, <3>4, <5>1, KeyOnArrived
        <5>3. (Playing(p) # {})' \in BOOLEAN
          OBVIOUS
        <5>4. Playing(p) = {}
          BY <3>3, <5>2
        <5> QED BY <3>2, <4>2, <5>2, <5>3, <5>4
      <4>3. CASE m = Off(p)
        <5>1. Key(Tail(Q), p, held, FALSE)
          BY <1>4, <1>6, <3>4, KeyOffArrived
        <5>2. Playing(p)' = {}
          BY <3>1, <3>2, <4>3
        <5>3. (Playing(p) # {})' = FALSE
          BY <5>2
        <5> QED BY <5>1, <5>2, <5>3 DEF Solo
      <4>4. m.pitch = p => m.kind = "on" \/ m = Off(p)
        BY Messages2
      <4> QED BY <4>1, <4>2, <4>3, <4>4
    <3>6. (p \in down)' = held
      BY <1>1, <3>3
    <3> QED BY <1>6, <3>5, <3>6 DEF KeyInv
  <2> QED BY <1>1, <1>3, <2>2, <2>3, <2>4 DEF SInv
<1>7. CASE received' = Nothing /\ readPtr' = 0 /\ Q' = Q
  <2>1. pc' = "task" /\ UNCHANGED allocator
    BY <1>1, <1>7, ValuesAssumption DEF Dispatch
  <2>2. AP!TypeOK' /\ AP!FreeVoiceIsSilent' /\ \A p : Playing(p)' = Playing(p)
    BY <2>1, VoicesKept DEF SInv
  <2>3. \A p \in Pitches \ cut' : KeyInv(p)'
    BY <1>1, <1>7, <2>2 DEF SInv, KeyInv
  <2> QED BY <1>1, <1>3, <1>7, <2>1, <2>2, <2>3 DEF SInv
<1> QED BY <1>5, <1>6, <1>7

-----------------------------------------------------------------------------
(* The invariant.                                                          *)
THEOREM InvHolds ==
  ASSUME Deployed
  PROVE  Spec => []SInv
<1>1. Init => SInv
  <2> SUFFICES ASSUME Init PROVE SInv
    OBVIOUS
  <2>1. AP!Init /\ RP!Init /\ pc = "task" /\ down = {} /\ cut = {} /\ plugs = 0
    BY AllocatorSame, ReceiverSame DEF Init
  <2>2. AP!TypeOK /\ AP!FreeVoiceIsSilent
    BY <2>1 DEF AP!Init, AP!TypeOK, AP!FreeVoiceIsSilent, AP!NoMessage, AP!Word, AP!Silence
  <2>3. RP!TypeOK
    <3>1. <<>> \in Seq(Played) /\ Len(<<>>) = 0
      OBVIOUS
    <3> QED BY <2>1, <3>1, SlotsAssumption, OutboxAssumption
            DEF RP!Init, RP!TypeOK, RP!Slot, RP!HalfSlot, RP!Empty
  <2>4. RP!Terminated /\ RP!Held /\ readPtr = 0
    BY <2>1, SlotsAssumption
    DEF RP!Init, RP!Terminated, RP!Held, RP!Slot, RP!Empty
  <2>5. Q = <<>>
    <3>1. RP!Unread = <<>>
      BY <2>3, <2>4, QueueType
    <3> QED BY <2>1, <3>1 DEF Q, RP!Init
  <2>6. \A p \in Pitches : Playing(p) = {}
    BY <2>1 DEF AP!Init, AP!Voice, Playing, Alloc!Playing, Alloc!Voice
  <2>7. \A p \in Pitches : KeyInv(p)
    BY <2>5, <2>6 DEF KeyInv, Key, Solo, Ons, Offs
  <2> QED BY <2>1, <2>2, <2>3, <2>4, <2>7, PlugsAssumption DEF SInv
<1>2. SInv /\ [Next]_vars => SInv'
  <2> SUFFICES ASSUME SInv, [Next]_vars PROVE SInv'
    OBVIOUS
  <2>1. CASE Next
    BY <2>1, PlayerStep, UnplugStep, TaskStep, DrainStep DEF Next
  <2>2. CASE UNCHANGED vars
    <3>1. /\ UNCHANGED <<allocator, pc, down, cut, plugs>> /\ UNCHANGED RP!vars
      BY <2>2 DEF vars, receiver, RP!vars
    <3>2. RP!TypeOK' /\ RP!Terminated' /\ RP!Held'
      BY <3>1, ReceiverStep DEF SInv
    <3>3. AP!TypeOK' /\ AP!FreeVoiceIsSilent' /\ \A p : Playing(p)' = Playing(p)
      BY <3>1, VoicesKept DEF SInv
    <3>4. Q' = Q /\ readPtr' = readPtr
      BY <3>1 DEF Q, RP!vars, RP!Unread, RP!Unprocessed
    <3> QED BY <3>1, <3>2, <3>3, <3>4 DEF SInv, KeyInv
  <2> QED BY <2>1, <2>2
<1> QED BY <1>1, <1>2, PTL DEF Spec

(* Type correctness of the two components and of the loop.                 *)
THEOREM TypeCorrect ==
  ASSUME Deployed
  PROVE  Spec => []TypeOK
<1>1. SInv => TypeOK
  BY AllocatorSame, ReceiverSame DEF SInv, TypeOK
<1> QED BY <1>1, InvHolds, PTL

(***************************************************************************)
(* No hanging notes (main.cpp:83-131): while a voice plays a key, the key  *)
(* is down, its Note Off is under way, or a pulled cable swallowed it.     *)
(***************************************************************************)
THEOREM NotesEnd ==
  ASSUME Deployed
  PROVE  Spec => []NoHangingNote
<1>1. SInv => NoHangingNote
  <2> SUFFICES ASSUME SInv, NEW p \in Pitches, Playing(p) # {}, p \notin down, p \notin cut
               PROVE  Pending(Off(p))
    BY DEF NoHangingNote
  <2>1. Offs(Q, p) # {}
    BY DEF SInv, KeyInv, Key
  <2>2. InTransit = Q
    BY ReceiverSame DEF InTransit, Q
  <2> QED BY <2>1, <2>2 DEF Offs, Pending
<1> QED BY <1>1, InvHolds, PTL

(***************************************************************************)
(* Release (usbh_midi.cpp:277) finds the buffer empty: the inner loop of   *)
(* main() has read it to the end before Usb.Task runs.                     *)
(***************************************************************************)
THEOREM NothingDiscarded ==
  ASSUME Deployed
  PROVE  Spec => []ReleaseDiscardsNothing
<1>1. SInv => ReleaseDiscardsNothing
  BY ReceiverSame, QueueType DEF SInv, ReleaseDiscardsNothing
<1> QED BY <1>1, InvHolds, PTL
=============================================================================
