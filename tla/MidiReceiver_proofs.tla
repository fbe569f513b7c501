------------------------- MODULE MidiReceiver_proofs -------------------------
(***************************************************************************)
(* Proofs about MidiReceiver for every buffer size, every set of messages  *)
(* and every set of packet sizes.                                          *)
(***************************************************************************)
EXTENDS MidiReceiver, SequenceTheorems, TLAPS

BufferType == [Slot -> [head : HalfSlot, tail : HalfSlot]]

(* A transfer leaves a well-formed buffer.                                 *)
LEMMA FilledType ==
  ASSUME NEW buf \in BufferType, NEW ms \in Seq(Messages)
  PROVE  Filled(buf, ms) \in BufferType
<1> SUFFICES ASSUME NEW s \in Slot
             PROVE  Filled(buf, ms)[s] \in [head : HalfSlot, tail : HalfSlot]
  BY DEF Filled, BufferType
<1>1. CASE s < Len(ms)
  <2>1. ms[s + 1] \in Messages
    BY <1>1 DEF Slot
  <2>2. Bytes(ms[s + 1]) \in [head : HalfSlot, tail : HalfSlot]
    BY <2>1 DEF Bytes, HalfSlot
  <2>3. QED
    BY <1>1, <2>2 DEF Filled
<1>2. CASE ~(s < Len(ms))
  BY <1>2 DEF Filled, BufferType, HalfSlot
<1>3. QED
  BY <1>1, <1>2

(* A transfer of fewer than Slots - 1 messages is terminated.              *)
LEMMA FilledTerminated ==
  ASSUME NEW buf \in BufferType, NEW ms \in Seq(Messages),
         NEW n \in Nat, n = Len(ms), n < Slots - 1
  PROVE  Filled(buf, ms)[n].head = Zero
<1>1. n \in Slot
  BY SlotsAssumption DEF Slot
<1>2. QED
  BY <1>1 DEF Filled, BufferType

(* What a call does to the variables, with the packet it fetched.          *)
LEMMA PacketTaken ==
  ASSUME TypeOK, NEW n \in PacketSizes \cap (0 .. Len(outbox))
  PROVE  /\ SubSeq(outbox, 1, n) \in Seq(Messages) /\ Len(SubSeq(outbox, 1, n)) = n
         /\ SubSeq(outbox, n + 1, Len(outbox)) \in Seq(Messages)
         /\ Len(SubSeq(outbox, n + 1, Len(outbox))) = Len(outbox) - n
         /\ n \in 0 .. Slots
  BY PacketAssumption, SlotsAssumption DEF TypeOK
-----------------------------------------------------------------------------
(* Every step keeps the types; readPtr never leaves the buffer.            *)
LEMMA TypeStep ==
  ASSUME MaxOutbox \in Nat, TypeOK, [Next]_vars
  PROVE  TypeOK'
<1>1. ASSUME NEW m \in Messages, Send(m)
      PROVE  TypeOK'
  BY <1>1 DEF Send, TypeOK, driver
<1>2. CASE Unplug
  <2>1. <<>> \in Seq(Messages) /\ Len(<<>>) = 0
    OBVIOUS
  <2>2. outbox' \in Seq(Messages) /\ Len(outbox') <= MaxOutbox
    BY <1>2, <2>1 DEF Unplug
  <2>3. plugged' \in BOOLEAN
    BY <1>2 DEF Unplug
  <2>4. QED
    BY <1>2, <2>2, <2>3 DEF Unplug, TypeOK, driver
<1>3. CASE Configure
  BY <1>3 DEF Configure, TypeOK
<1>4. CASE Release
  <2>1. readPtr' \in 0 .. Slots
    BY <1>4, SlotsAssumption DEF Release
  <2>2. QED
    BY <1>4, <2>1 DEF Release, TypeOK, keyboard
<1>5. CASE RecvData
  <2>1. CASE ReturnFromBuffer
    <3>1. readPtr \in Slot /\ readPtr + 1 \in 0 .. Slots
      BY <2>1, SlotsAssumption DEF ReturnFromBuffer, Unprocessed, Slot, TypeOK
    <3>2. recvBuf[readPtr].head \in HalfSlot
      BY <3>1 DEF TypeOK
    <3>3. QED
      BY <1>5, <2>1, <3>1, <3>2 DEF RecvData, ReturnFromBuffer, Return, TypeOK, HalfSlot
  <2>2. CASE FetchPacket
    <3>1. PICK n \in PacketSizes \cap (0 .. Len(outbox)) :
            /\ recvBuf' = Filled(recvBuf, SubSeq(outbox, 1, n))
            /\ outbox' = SubSeq(outbox, n + 1, Len(outbox))
            /\ fresh' = n
      BY <2>2 DEF FetchPacket
    <3>2. recvBuf' \in BufferType /\ recvBuf \in BufferType
      BY <3>1, PacketTaken, FilledType DEF TypeOK, BufferType
    <3>3. outbox' \in Seq(Messages) /\ Len(outbox') <= MaxOutbox /\ fresh' \in 0 .. Slots
      BY <3>1, PacketTaken DEF TypeOK
    <3>4. readPtr' \in 0 .. Slots
      BY <2>2, SlotsAssumption DEF FetchPacket, Return
    <3>5. recvBuf'[0].head \in HalfSlot
      BY <3>2, SlotsAssumption DEF BufferType, Slot
    <3>6. received' \in Messages \cup {Zero, Nothing}
      BY <2>2, <3>5 DEF FetchPacket, Return, HalfSlot
    <3>7. QED
      BY <1>5, <3>2, <3>3, <3>4, <3>6 DEF RecvData, TypeOK, BufferType
  <2>3. CASE FetchFails
    <3>1. recvBuf \in BufferType /\ <<>> \in Seq(Messages)
      BY DEF TypeOK, BufferType
    <3>2. recvBuf' \in BufferType
      BY <2>3, <3>1, FilledType DEF FetchFails
    <3>3. readPtr' \in 0 .. Slots /\ fresh' \in 0 .. Slots
      BY <2>3, SlotsAssumption DEF FetchFails
    <3>4. QED
      BY <1>5, <2>3, <3>2, <3>3 DEF RecvData, FetchFails, TypeOK, BufferType
  <2>4. QED
    BY <1>5, <2>1, <2>2, <2>3 DEF RecvData
<1>6. CASE UNCHANGED vars
  BY <1>6 DEF vars, TypeOK
<1>7. QED
  BY <1>1, <1>2, <1>3, <1>4, <1>5, <1>6 DEF Next

(* Type correctness.                                                       *)
THEOREM TypeCorrect ==
  ASSUME MaxOutbox \in Nat
  PROVE  Spec => []TypeOK
<1>1. Init => TypeOK
  BY SlotsAssumption DEF Init, TypeOK, Empty, HalfSlot, Slot
<1>2. TypeOK /\ [Next]_vars => TypeOK'
  BY TypeStep
<1>3. QED
  BY <1>1, <1>2, PTL DEF Spec

-----------------------------------------------------------------------------
(***************************************************************************)
(* The strengthening: readPtr stays within what the last transfer brought, *)
(* and that ends at a terminator or at the end of the buffer.              *)
(***************************************************************************)
Terminated ==
  /\ readPtr <= fresh
  /\ fresh \in PacketSizes \cup {0}
  /\ fresh < Slots - 1 => recvBuf[fresh].head = Zero

(* Every operation keeps the strengthening.                                *)
LEMMA TerminatedStep ==
  ASSUME 0 \notin PacketSizes, Slots - 1 \notin PacketSizes, Slots > 1,
         TypeOK, Terminated, [Next]_vars
  PROVE  Terminated'
<1>1. ASSUME NEW m \in Messages, Send(m)
      PROVE  Terminated'
  BY <1>1 DEF Send, Terminated, driver
<1>2. CASE Unplug
  BY <1>2 DEF Unplug, Terminated, driver
<1>3. CASE Configure
  BY <1>3 DEF Configure, Terminated
<1>4. CASE Release
  BY <1>4 DEF Release, Terminated, TypeOK
<1>5. CASE RecvData
  <2>1. CASE ReturnFromBuffer
    <3>1. readPtr < fresh
      <4> SUFFICES ASSUME readPtr = fresh
                   PROVE  FALSE
        BY DEF Terminated, TypeOK
      <4>1. fresh \in 1 .. Slots - 1 /\ recvBuf[fresh].head # Zero
        BY <2>1 DEF ReturnFromBuffer, Unprocessed
      <4>2. fresh # Slots - 1
        BY <4>1 DEF Terminated
      <4>3. QED
        BY <4>1, <4>2, SlotsAssumption DEF Terminated
    <3>2. QED
      BY <2>1, <3>1 DEF ReturnFromBuffer, Return, Terminated, TypeOK
  <2>2. CASE FetchPacket
    <3>1. PICK n \in PacketSizes \cap (0 .. Len(outbox)) :
            /\ recvBuf' = Filled(recvBuf, SubSeq(outbox, 1, n))
            /\ fresh' = n
      BY <2>2 DEF FetchPacket
    <3>2. n >= 1
      BY DEF TypeOK
    <3>3. readPtr' <= fresh'
      BY <2>2, <3>1, <3>2 DEF FetchPacket, Return
    <3>4. fresh' < Slots - 1 => recvBuf'[fresh'].head = Zero
      <4> DEFINE ms == SubSeq(outbox, 1, n)
      <4>1. ms \in Seq(Messages) /\ Len(ms) = n /\ n \in Nat
        BY PacketTaken DEF TypeOK
      <4>2. recvBuf \in BufferType
        BY DEF TypeOK, BufferType
      <4>3. n < Slots - 1 => Filled(recvBuf, ms)[n].head = Zero
        <5> HIDE DEF ms
        <5> QED BY <4>1, <4>2, FilledTerminated
      <4>4. QED
        BY <3>1, <4>3
    <3>5. QED
      BY <3>1, <3>3, <3>4 DEF Terminated
  <2>3. CASE FetchFails
    <3>1. <<>> \in Seq(Messages) /\ Len(<<>>) = 0
      OBVIOUS
    <3>2. recvBuf \in BufferType
      BY DEF TypeOK, BufferType
    <3>3. 0 \in Nat /\ 0 < Slots - 1
      BY SlotsAssumption
    <3>4. recvBuf'[0].head = Zero
      BY <2>3, <3>1, <3>2, <3>3, FilledTerminated DEF FetchFails
    <3>5. QED
      BY <2>3, <3>4 DEF FetchFails, Terminated
  <2>4. QED
    BY <1>5, <2>1, <2>2, <2>3 DEF RecvData
<1>6. CASE UNCHANGED vars
  BY <1>6 DEF vars, Terminated
<1>7. QED
  BY <1>1, <1>2, <1>3, <1>4, <1>5, <1>6 DEF Next

(***************************************************************************)
(* As long as no packet is empty and none carries exactly Slots - 1 events *)
(* (60 of 64 bytes), what RecvData takes for an unprocessed message came   *)
(* with the last transfer.  Neither hypothesis on the packet sizes can be  *)
(* dropped (run stale_replay).                                             *)
(***************************************************************************)
THEOREM NoStaleMessage ==
  ASSUME MaxOutbox \in Nat, 0 \notin PacketSizes, Slots - 1 \notin PacketSizes, Slots > 1
  PROVE  Spec => []UnprocessedIsNew
<1>1. Init => Terminated
  BY SlotsAssumption DEF Init, Terminated, Empty, Slot
<1>2. TypeOK /\ Terminated /\ [Next]_vars => Terminated'
  BY TerminatedStep
<1>3. TypeOK /\ Terminated => UnprocessedIsNew
  <2> SUFFICES ASSUME TypeOK, Terminated, Unprocessed(recvBuf, readPtr), readPtr = fresh
               PROVE  FALSE
    BY DEF UnprocessedIsNew, Terminated, TypeOK
  <2>1. fresh \in 1 .. Slots - 1 /\ recvBuf[fresh].head # Zero
    BY DEF Unprocessed
  <2>2. fresh # Slots - 1
    BY <2>1 DEF Terminated
  <2>3. QED
    BY <2>1, <2>2, SlotsAssumption DEF Terminated
<1>4. QED
  BY <1>1, <1>2, <1>3, TypeCorrect, PTL DEF Spec

-----------------------------------------------------------------------------
(***************************************************************************)
(* Refinement: seen through the mapping to EventQueue the buffer is a      *)
(* queue.  Between two transfers the messages still to come are those from *)
(* readPtr to fresh, where the terminator is.                              *)
(***************************************************************************)
Held ==
  /\ ~bPollEnable => ~plugged /\ readPtr = 0
  /\ ~plugged => outbox = <<>>
  /\ readPtr # 0 => \A s \in 0 .. fresh - 1 : recvBuf[s].head \in Messages

UpTo(buf, p, e) == /\ ~Unprocessed(buf, e)
                   /\ \A s \in p .. e - 1 : Unprocessed(buf, s)

UnreadOf(buf, p) ==
  LET last == CHOOSE e \in p .. Slots : UpTo(buf, p, e)
  IN  [k \in 1 .. last - p |-> buf[p + k - 1].head]

LEMMA UnreadIsOf == Unread = UnreadOf(recvBuf, readPtr)
BY DEF Unread, UnreadOf, UpTo

(* With readPtr 0 nothing is unread, whatever the buffer holds.            *)
LEMMA NothingUnread ==
  ASSUME NEW buf
  PROVE  UnreadOf(buf, 0) = <<>>
<1>1. UpTo(buf, 0, 0)
  BY SlotsAssumption DEF UpTo, Unprocessed
<1>2. ASSUME NEW e \in 0 .. Slots, UpTo(buf, 0, e)
      PROVE  e = 0
  <2>1. CASE e > 0
    <3>1. Unprocessed(buf, 0)
      BY <1>2, <2>1, SlotsAssumption DEF UpTo
    <3> QED BY <3>1 DEF Unprocessed
  <2> QED BY <2>1
<1>3. (CHOOSE e \in 0 .. Slots : UpTo(buf, 0, e)) = 0
  <2>1. 0 \in 0 .. Slots
    BY SlotsAssumption
  <2> QED BY <1>1, <1>2, <2>1
<1>4. [k \in 1 .. 0 - 0 |-> buf[0 + k - 1].head] = <<>>
  OBVIOUS
<1> QED BY <1>3, <1>4 DEF UnreadOf

(* Else they end where the last transfer ended.                            *)
LEMMA UnreadUpTo ==
  ASSUME NEW buf, NEW f \in 1 .. Slots, NEW p \in 1 .. f,
         \A s \in 0 .. f - 1 : buf[s].head \in Messages,
         ~Unprocessed(buf, f)
  PROVE  /\ UnreadOf(buf, p) = [k \in 1 .. f - p |-> buf[p + k - 1].head]
         /\ UnreadOf(buf, p) \in Seq(Messages)
         /\ Len(UnreadOf(buf, p)) = f - p
         /\ \A k \in 1 .. f - p : UnreadOf(buf, p)[k] = buf[p + k - 1].head
<1>1. \A s \in 1 .. f - 1 : Unprocessed(buf, s)
  BY SlotsAssumption, MessagesAssumption DEF Unprocessed
<1>2. UpTo(buf, p, f)
  BY <1>1 DEF UpTo
<1>3. ASSUME NEW e \in p .. Slots, UpTo(buf, p, e)
      PROVE  e = f
  <2>1. e < f => FALSE
    BY <1>1, <1>3, SlotsAssumption DEF UpTo
  <2>2. e > f => FALSE
    BY <1>3, SlotsAssumption DEF UpTo
  <2> QED BY <2>1, <2>2, SlotsAssumption
<1>4. (CHOOSE e \in p .. Slots : UpTo(buf, p, e)) = f
  <2>1. f \in p .. Slots
    BY SlotsAssumption
  <2> QED BY <1>2, <1>3, <2>1
<1>5. UnreadOf(buf, p) = [k \in 1 .. f - p |-> buf[p + k - 1].head]
  BY <1>4 DEF UnreadOf
<1>6. \A k \in 1 .. f - p : buf[p + k - 1].head \in Messages
  BY SlotsAssumption
<1>7. [k \in 1 .. f - p |-> buf[p + k - 1].head] \in Seq(Messages)
  BY <1>6, SlotsAssumption
<1> QED BY <1>5, <1>7, SlotsAssumption

(* What is left of a queue after its first element has gone.               *)
LEMMA Dequeued ==
  ASSUME NEW S, NEW q \in Seq(S), NEW r \in Seq(S), q # <<>>,
         Len(r) = Len(q) - 1, \A i \in 1 .. Len(r) : r[i] = q[i + 1]
  PROVE  r = Tail(q) /\ Head(q) = q[1]
<1>1. Tail(q) \in Seq(S) /\ Len(Tail(q)) = Len(q) - 1
      /\ \A i \in 1 .. Len(Tail(q)) : Tail(q)[i] = q[i + 1]
  BY HeadTailProperties
<1>2. r = Tail(q)
  BY <1>1, SeqEqual
<1> QED BY <1>2

(* An event taken from the front part of the queue.                        *)
LEMMA FrontTaken ==
  ASSUME NEW S, NEW u \in Seq(S), NEW v \in Seq(S), NEW t \in Seq(S), u # <<>>,
         Len(v) = Len(u) - 1, \A i \in 1 .. Len(v) : v[i] = u[i + 1]
  PROVE  u \o t # <<>> /\ v \o t = Tail(u \o t) /\ Head(u \o t) = u[1]
<1>1. Len(u) \in Nat \ {0} /\ Len(t) \in Nat /\ Len(v) \in Nat
  BY EmptySeq, LenProperties
<1>2. /\ u \o t \in Seq(S) /\ Len(u \o t) = Len(u) + Len(t)
      /\ \A i \in 1 .. Len(u) + Len(t) : (u \o t)[i] = IF i <= Len(u) THEN u[i]
                                                       ELSE t[i - Len(u)]
  BY ConcatProperties
<1>3. /\ v \o t \in Seq(S) /\ Len(v \o t) = Len(v) + Len(t)
      /\ \A i \in 1 .. Len(v) + Len(t) : (v \o t)[i] = IF i <= Len(v) THEN v[i]
                                                       ELSE t[i - Len(v)]
  BY ConcatProperties
<1>4. u \o t # <<>> /\ Len(v \o t) = Len(u \o t) - 1 /\ (u \o t)[1] = u[1]
  BY <1>1, <1>2, <1>3
<1>5. ASSUME NEW i \in 1 .. Len(v \o t)
      PROVE  (v \o t)[i] = (u \o t)[i + 1]
  <2>1. i \in 1 .. Len(v) + Len(t) /\ i + 1 \in 1 .. Len(u) + Len(t) /\ i \in Nat
    BY <1>1, <1>3
  <2>2. CASE i <= Len(v)
    BY <1>1, <1>2, <1>3, <2>1, <2>2
  <2>3. CASE i > Len(v)
    <3>1. (v \o t)[i] = t[i - Len(v)]
      BY <1>1, <1>3, <2>1, <2>3
    <3>2. (u \o t)[i + 1] = t[(i + 1) - Len(u)]
      BY <1>1, <1>2, <2>1, <2>3
    <3>3. (i + 1) - Len(u) = i - Len(v)
      BY <1>1, <2>1
    <3> QED BY <3>1, <3>2, <3>3
  <2> QED BY <1>1, <2>1, <2>2, <2>3
<1> QED BY <1>2, <1>3, <1>4, <1>5, Dequeued

-----------------------------------------------------------------------------
Sizes == /\ 0 \notin PacketSizes /\ Slots - 1 \notin PacketSizes
         /\ Slots > 1 /\ MaxOutbox \in Nat

(* The queue between the keyboard and the caller, in one place.            *)
LEMMA QueueOf ==
  ASSUME Sizes, TypeOK, Terminated, Held
  PROVE  /\ readPtr = 0 => Unread = <<>>
         /\ readPtr # 0 => /\ fresh \in 1 .. Slots /\ readPtr \in 1 .. fresh
                           /\ ~Unprocessed(recvBuf, fresh)
                           /\ (Unprocessed(recvBuf, readPtr) <=> readPtr < fresh)
                           /\ Unread = UnreadOf(recvBuf, readPtr)
                           /\ Len(Unread) = fresh - readPtr
                           /\ \A k \in 1 .. fresh - readPtr :
                                Unread[k] = recvBuf[readPtr + k - 1].head
         /\ Unread \in Seq(Messages) /\ outbox \in Seq(Messages)
<1>1. outbox \in Seq(Messages) /\ <<>> \in Seq(Messages)
  BY DEF TypeOK
<1>2. readPtr = 0 => Unread = <<>>
  BY UnreadIsOf, NothingUnread
<1>3. ASSUME readPtr # 0
      PROVE  /\ fresh \in 1 .. Slots /\ readPtr \in 1 .. fresh
             /\ ~Unprocessed(recvBuf, fresh)
             /\ \A s \in 0 .. fresh - 1 : recvBuf[s].head \in Messages
             /\ (Unprocessed(recvBuf, readPtr) <=> readPtr < fresh)
  <2>1. fresh \in 1 .. Slots /\ readPtr \in 1 .. fresh
    BY <1>3, SlotsAssumption DEF TypeOK, Terminated
  <2>2. ~Unprocessed(recvBuf, fresh)
    <3> SUFFICES ASSUME Unprocessed(recvBuf, fresh) PROVE FALSE
      OBVIOUS
    <3>1. fresh \in 1 .. Slots - 1 /\ recvBuf[fresh].head # Zero
      BY DEF Unprocessed
    <3>2. fresh # Slots - 1
      BY <3>1 DEF Terminated, Sizes
    <3> QED BY <3>1, <3>2, SlotsAssumption DEF Terminated
  <2>3. \A s \in 0 .. fresh - 1 : recvBuf[s].head \in Messages
    BY <1>3 DEF Held
  <2>4. Unprocessed(recvBuf, readPtr) <=> readPtr < fresh
    <3>1. CASE readPtr < fresh
      BY <2>1, <2>3, <3>1, SlotsAssumption, MessagesAssumption DEF Unprocessed
    <3>2. CASE readPtr = fresh
      BY <2>2, <2>1, <3>2
    <3> QED BY <2>1, <3>1, <3>2
  <2> QED BY <2>1, <2>2, <2>3, <2>4
<1>4. ASSUME readPtr # 0
      PROVE  /\ Unread = UnreadOf(recvBuf, readPtr)
             /\ Unread \in Seq(Messages)
             /\ Len(Unread) = fresh - readPtr
             /\ \A k \in 1 .. fresh - readPtr : Unread[k] = recvBuf[readPtr + k - 1].head
  BY <1>3, <1>4, UnreadIsOf, UnreadUpTo
<1> QED BY <1>1, <1>2, <1>3, <1>4

(***************************************************************************)
(* One call of RecvData either takes the head of the queue or comes back   *)
(* empty-handed and leaves the queue alone, with readPtr at 0.             *)
(***************************************************************************)
LEMMA CallTakesHead ==
  ASSUME Sizes, TypeOK, Terminated, Held, RecvData
  PROVE  /\ Held'
         /\ \/ /\ Unread \o outbox # <<>>
               /\ received' = Head(Unread \o outbox)
               /\ (Unread \o outbox)' = Tail(Unread \o outbox)
               /\ received' \in Messages
            \/ /\ received' = Nothing /\ readPtr' = 0
               /\ (Unread \o outbox)' = Unread \o outbox
<1>0. bPollEnable /\ UNCHANGED <<bPollEnable, plugged>>
  BY DEF RecvData
<1>1. Unread' = UnreadOf(recvBuf', readPtr')
  BY DEF Unread, UnreadOf, UpTo
<1>2. Unread \in Seq(Messages) /\ outbox \in Seq(Messages)
  BY QueueOf
<1>3. CASE ReturnFromBuffer
  <2>1. readPtr # 0 /\ Unprocessed(recvBuf, readPtr)
    BY <1>3 DEF ReturnFromBuffer, Unprocessed
  <2>2. /\ fresh \in 1 .. Slots /\ readPtr \in 1 .. fresh /\ readPtr < fresh
        /\ ~Unprocessed(recvBuf, fresh)
        /\ Len(Unread) = fresh - readPtr
        /\ \A k \in 1 .. fresh - readPtr : Unread[k] = recvBuf[readPtr + k - 1].head
    BY <2>1, QueueOf
  <2>3. /\ readPtr' = readPtr + 1 /\ received' = recvBuf[readPtr].head
        /\ UNCHANGED <<recvBuf, fresh, outbox>>
    BY <1>3 DEF ReturnFromBuffer, Return
  <2>4. \A s \in 0 .. fresh - 1 : recvBuf[s].head \in Messages
    BY <2>1 DEF Held
  <2>5. readPtr + 1 \in 1 .. fresh
    BY <2>2, SlotsAssumption
  <2>6. /\ Unread' \in Seq(Messages)
        /\ Len(Unread') = fresh - (readPtr + 1)
        /\ \A k \in 1 .. fresh - (readPtr + 1) :
             Unread'[k] = recvBuf[(readPtr + 1) + k - 1].head
    BY <1>1, <2>2, <2>3, <2>4, <2>5, UnreadUpTo
  <2>7. Unread # <<>> /\ Len(Unread') = Len(Unread) - 1 /\ Unread[1] = received'
    BY <1>2, <2>2, <2>3, <2>6, SlotsAssumption
  <2>8. ASSUME NEW i \in 1 .. Len(Unread')
        PROVE  Unread'[i] = Unread[i + 1]
    <3>1. i \in 1 .. fresh - (readPtr + 1) /\ i + 1 \in 1 .. fresh - readPtr
      BY <2>2, <2>6, SlotsAssumption
    <3>2. Unread'[i] = recvBuf[(readPtr + 1) + i - 1].head
      BY <2>6, <3>1
    <3>3. Unread[i + 1] = recvBuf[readPtr + (i + 1) - 1].head
      BY <2>2, <3>1
    <3>4. (readPtr + 1) + i - 1 = readPtr + (i + 1) - 1
      BY <2>2, <3>1, SlotsAssumption
    <3> QED BY <3>2, <3>3, <3>4
  <2>9. /\ Unread \o outbox # <<>>
        /\ Unread' \o outbox = Tail(Unread \o outbox)
        /\ Head(Unread \o outbox) = received'
    BY <1>2, <2>6, <2>7, <2>8, FrontTaken
  <2>10. received' \in Messages
    BY <2>2, <2>3, <2>4, SlotsAssumption
  <2>11. Held'
    BY <1>0, <2>3, <2>4 DEF Held
  <2> QED BY <2>3, <2>9, <2>10, <2>11
<1>4. CASE ~Unprocessed(recvBuf, readPtr) /\ (FetchPacket \/ FetchFails)
  <2>1. Unread = <<>>
    <3>1. CASE readPtr = 0
      BY <3>1, QueueOf
    <3>2. CASE readPtr # 0
      <4>1. Len(Unread) = 0
        BY <1>4, <3>2, QueueOf, SlotsAssumption
      <4> QED BY <1>2, <4>1
    <3> QED BY <3>1, <3>2
  <2>2. Unread \o outbox = outbox
    BY <1>2, <2>1, ConcatEmptySeq
  <2>3. CASE FetchFails
    <3>1. readPtr' = 0 /\ received' = Nothing /\ UNCHANGED outbox
      BY <2>3 DEF FetchFails
    <3>2. Unread' = <<>>
      BY <1>1, <3>1, NothingUnread
    <3>3. Held'
      BY <1>0, <3>1 DEF Held
    <3> QED BY <2>1, <3>1, <3>2, <3>3
  <2>4. CASE FetchPacket
    <3>1. PICK n \in PacketSizes \cap (0 .. Len(outbox)) :
            /\ recvBuf' = Filled(recvBuf, SubSeq(outbox, 1, n))
            /\ outbox' = SubSeq(outbox, n + 1, Len(outbox))
            /\ fresh' = n
      BY <2>4 DEF FetchPacket
    <3>2. n \in 1 .. Slots /\ n # Slots - 1 /\ n <= Len(outbox) /\ Len(outbox) \in Nat
      BY <1>2, SlotsAssumption, PacketAssumption DEF Sizes
    <3>3. \A k \in 1 .. n : outbox[k] \in Messages
      BY <1>2, <3>2
    <3>4. \A s \in 0 .. n - 1 : recvBuf'[s] = Bytes(outbox[s + 1])
      BY <3>1, <3>2, SlotsAssumption DEF Filled, Slot
    <3>5. \A s \in 0 .. n - 1 : recvBuf'[s].head = outbox[s + 1]
      <4>1. \A m : Bytes(m).head = m
        BY DEF Bytes
      <4>2. ASSUME NEW s \in 0 .. n - 1
            PROVE  recvBuf'[s].head = outbox[s + 1]
        <5>1. recvBuf'[s] = Bytes(outbox[s + 1])
          BY <3>4
        <5> QED BY <4>1, <5>1
      <4> QED BY <4>2
    <3>6. \A s \in 0 .. n - 1 : recvBuf'[s].head \in Messages
      BY <3>3, <3>5, <3>2
    <3>7. recvBuf'[0].head = outbox[1] /\ outbox[1] \in Messages
      BY <3>2, <3>3, <3>5
    <3>8. recvBuf'[0] # Empty
      BY <3>7, MessagesAssumption DEF Empty
    <3>9. received' = outbox[1] /\ readPtr' = 1
      BY <2>4, <3>7, <3>8 DEF FetchPacket, Return
    <3>10. ~Unprocessed(recvBuf', n)
      <4>1. CASE n = Slots
        BY <4>1, SlotsAssumption DEF Unprocessed
      <4>2. CASE n < Slots - 1
        <5>1. n \in Slot /\ Len(SubSeq(outbox, 1, n)) = n
          BY <1>2, <3>2, <4>2, SlotsAssumption DEF Slot
        <5>2. recvBuf[n] \in [head : HalfSlot, tail : HalfSlot]
          BY <5>1 DEF TypeOK
        <5>3. recvBuf'[n].head = Zero
          BY <3>1, <5>1, <5>2, <4>2 DEF Filled
        <5> QED BY <5>3 DEF Unprocessed
      <4> QED BY <3>2, <4>1, <4>2, SlotsAssumption
    <3>11. /\ Unread' \in Seq(Messages)
           /\ Len(Unread') = n - 1
           /\ \A k \in 1 .. n - 1 : Unread'[k] = recvBuf'[1 + k - 1].head
      <4>1. 1 \in 1 .. n
        BY <3>2
      <4> QED BY <1>1, <3>2, <3>6, <3>9, <3>10, <4>1, UnreadUpTo
    <3>12. \A k \in 1 .. n - 1 : Unread'[k] = outbox[k + 1]
      BY <3>2, <3>5, <3>11
    <3>13. /\ outbox' \in Seq(Messages) /\ Len(outbox') = Len(outbox) - n
           /\ \A i \in 1 .. Len(outbox) - n : outbox'[i] = outbox[n + i]
      BY <1>2, <3>1, <3>2
    <3>14. /\ Unread' \o outbox' \in Seq(Messages)
           /\ Len(Unread' \o outbox') = Len(outbox) - 1
           /\ \A i \in 1 .. Len(outbox) - 1 :
                (Unread' \o outbox')[i] = IF i <= n - 1 THEN Unread'[i]
                                          ELSE outbox'[i - (n - 1)]
      <4>1. /\ Unread' \o outbox' \in Seq(Messages)
            /\ Len(Unread' \o outbox') = Len(Unread') + Len(outbox')
            /\ \A i \in 1 .. Len(Unread') + Len(outbox') :
                 (Unread' \o outbox')[i] = IF i <= Len(Unread') THEN Unread'[i]
                                           ELSE outbox'[i - Len(Unread')]
        BY <3>11, <3>13, ConcatProperties
      <4>2. Len(Unread') + Len(outbox') = Len(outbox) - 1
        BY <3>2, <3>11, <3>13
      <4> QED BY <3>11, <4>1, <4>2
    <3>15. ASSUME NEW i \in 1 .. Len(outbox) - 1
           PROVE  (Unread' \o outbox')[i] = outbox[i + 1]
      <4>1. CASE i <= n - 1
        <5>1. i \in 1 .. n - 1
          BY <3>2, <4>1
        <5>2. (Unread' \o outbox')[i] = Unread'[i]
          BY <3>14, <4>1
        <5> QED BY <3>12, <5>1, <5>2
      <4>2. CASE i > n - 1
        <5>1. i - (n - 1) \in 1 .. Len(outbox) - n /\ n + (i - (n - 1)) = i + 1
          BY <3>2, <4>2
        <5>2. (Unread' \o outbox')[i] = outbox'[i - (n - 1)]
          BY <3>2, <3>14, <4>2
        <5> QED BY <3>13, <5>1, <5>2
      <4>3. n \in Int /\ i \in Int
        BY <3>2, SlotsAssumption
      <4>4. i <= n - 1 \/ i > n - 1
        BY <4>3
      <4> QED BY <4>1, <4>2, <4>4
    <3>16. outbox # <<>>
      BY <3>2
    <3>17. Unread' \o outbox' = Tail(outbox) /\ Head(outbox) = outbox[1]
      BY <1>2, <3>14, <3>15, <3>16, Dequeued
    <3>18. Held'
      <4>1. plugged
        BY <2>4 DEF FetchPacket
      <4> QED BY <1>0, <3>1, <3>6, <4>1 DEF Held
    <3> QED BY <2>2, <3>7, <3>9, <3>16, <3>17, <3>18
  <2> QED BY <1>4, <2>3, <2>4
<1> QED BY <1>3, <1>4 DEF RecvData

(* The keyboard adds at the end, and a pulled cable cuts off the rear part. *)
LEMMA SendAppends ==
  ASSUME Sizes, TypeOK, Terminated, Held, NEW m \in Messages, Send(m)
  PROVE  (Unread \o outbox)' = Append(Unread \o outbox, m)
<1>1. outbox' = Append(outbox, m) /\ UNCHANGED <<readPtr, recvBuf>>
  BY DEF Send, driver
<1>2. Unread' = Unread /\ Unread \in Seq(Messages) /\ outbox \in Seq(Messages)
  BY <1>1, QueueOf DEF Unread, Unprocessed
<1>3. outbox' = outbox \o <<m>>
  BY <1>1, <1>2, AppendIsConcat
<1>4. <<m>> \in Seq(Messages)
  OBVIOUS
<1>5. Unread \o outbox \in Seq(Messages)
  BY <1>2, ConcatProperties
<1>6. Unread \o (outbox \o <<m>>) = (Unread \o outbox) \o <<m>>
  BY <1>2, <1>4, ConcatAssociative
<1>7. Append(Unread \o outbox, m) = (Unread \o outbox) \o <<m>>
  BY <1>5, AppendIsConcat
<1> QED BY <1>2, <1>3, <1>6, <1>7

LEMMA UnplugCuts ==
  ASSUME Sizes, TypeOK, Terminated, Held, Unplug
  PROVE  (Unread \o outbox)' = Unread
<1>1. outbox' = <<>> /\ UNCHANGED <<readPtr, recvBuf>>
  BY DEF Unplug, driver
<1>2. Unread' = Unread /\ Unread \in Seq(Messages)
  BY <1>1, QueueOf DEF Unread, Unprocessed
<1> QED BY <1>1, <1>2, ConcatEmptySeq

-----------------------------------------------------------------------------
(* Every step of the driver and of the keyboard is a step of the queue.    *)
LEMMA StepSimulation ==
  ASSUME Sizes, TypeOK, Terminated, Held, [Next]_vars
  PROVE  Held' /\ [Abstract!Next]_Abstract!vars
<1>1. Unread' = UnreadOf(recvBuf', readPtr')
  BY DEF Unread, UnreadOf, UpTo
<1>2. Unread = UnreadOf(recvBuf, readPtr)
  BY UnreadIsOf
<1>3. Unread \in Seq(Messages) /\ outbox \in Seq(Messages)
  BY QueueOf
<1>4. ASSUME NEW m \in Messages, Send(m)
      PROVE  Held' /\ Abstract!Send(m)
  <2>1. /\ plugged /\ bPollEnable /\ outbox' = Append(outbox, m)
        /\ UNCHANGED <<bPollEnable, readPtr, recvBuf, fresh, received, plugged>>
    BY <1>4 DEF Send, driver
  <2>2. (Unread \o outbox)' = Append(Unread \o outbox, m)
    BY <1>4, SendAppends
  <2>3. Held'
    BY <2>1 DEF Held
  <2> QED BY <2>1, <2>2, <2>3 DEF Abstract!Send
<1>5. CASE Unplug
  <2>1. /\ plugged' = FALSE /\ outbox' = <<>>
        /\ UNCHANGED <<bPollEnable, readPtr, recvBuf, fresh, received>>
    BY <1>5 DEF Unplug, driver
  <2>2. Unread' \o outbox' = Unread
    BY <1>5, UnplugCuts
  <2>3. Len(Unread) \in 0 .. Len(Unread \o outbox)
    BY <1>3, ConcatProperties, LenProperties
  <2>4. SubSeq(Unread \o outbox, 1, Len(Unread)) = Unread
    <3>1. /\ Unread \o outbox \in Seq(Messages)
          /\ Len(Unread \o outbox) = Len(Unread) + Len(outbox)
          /\ \A i \in 1 .. Len(Unread) + Len(outbox) :
               (Unread \o outbox)[i] = IF i <= Len(Unread) THEN Unread[i]
                                       ELSE outbox[i - Len(Unread)]
      BY <1>3, ConcatProperties
    <3>2. Len(Unread) \in Nat /\ Len(outbox) \in Nat
      BY <1>3, LenProperties
    <3>3. \A i \in 1 .. Len(Unread) : (Unread \o outbox)[i] = Unread[i]
      BY <3>1, <3>2
    <3>4. \A i \in 1 .. Len(Unread) : (Unread \o outbox)[i] \in Messages
      BY <1>3, <3>3, ElementOfSeq
    <3>5. /\ SubSeq(Unread \o outbox, 1, Len(Unread)) \in Seq(Messages)
          /\ Len(SubSeq(Unread \o outbox, 1, Len(Unread))) = Len(Unread)
          /\ \A i \in 1 .. Len(Unread) :
               SubSeq(Unread \o outbox, 1, Len(Unread))[i] = (Unread \o outbox)[i]
      BY <3>1, <3>2, <3>4
    <3> QED BY <1>3, <3>3, <3>5, SeqEqual
  <2>5. Abstract!Lose
    BY <2>1, <2>2, <2>3, <2>4 DEF Abstract!Lose
  <2>6. Held'
    BY <2>1 DEF Held, TypeOK
  <2> QED BY <2>5, <2>6 DEF Abstract!Next
<1>6. CASE Configure
  <2>1. /\ ~bPollEnable /\ bPollEnable' = TRUE /\ plugged' = TRUE
        /\ UNCHANGED <<readPtr, recvBuf, fresh, received, outbox>>
    BY <1>6 DEF Configure
  <2>2. Unread = <<>> /\ outbox = <<>>
    BY <2>1, QueueOf DEF Held
  <2>3. Unread \o outbox = <<>> /\ Unread' \o outbox' = Unread \o outbox
    BY <1>1, <1>2, <1>3, <2>1, <2>2, ConcatEmptySeq
  <2>4. Abstract!Plug
    BY <2>1, <2>3 DEF Abstract!Plug
  <2>5. Held'
    BY <2>1 DEF Held
  <2> QED BY <2>4, <2>5 DEF Abstract!Next
<1>7. CASE Release
  <2>1. /\ ~plugged /\ readPtr' = 0 /\ bPollEnable' = FALSE
        /\ UNCHANGED <<recvBuf, fresh, received, plugged, outbox>>
    BY <1>7 DEF Release, keyboard
  <2>2. outbox = <<>> /\ Unread' = <<>>
    BY <1>1, <2>1, NothingUnread DEF Held
  <2>3. Unread' \o outbox' = <<>>
    BY <2>1, <2>2, <1>3, ConcatEmptySeq
  <2>4. SubSeq(Unread \o outbox, 1, 0) = <<>>
    BY SubSeqEmpty
  <2>5. 0 \in 0 .. Len(Unread \o outbox)
    BY <1>3, ConcatProperties, LenProperties
  <2>6. plugged' = FALSE
    BY <2>1 DEF TypeOK
  <2>7. Abstract!Lose
    BY <2>1, <2>3, <2>4, <2>5, <2>6 DEF Abstract!Lose
  <2>8. Held'
    BY <2>1, <2>2 DEF Held
  <2> QED BY <2>7, <2>8 DEF Abstract!Next
<1>8. CASE RecvData
  <2>1. /\ Held'
        /\ \/ /\ Unread \o outbox # <<>>
              /\ received' = Head(Unread \o outbox)
              /\ (Unread \o outbox)' = Tail(Unread \o outbox)
           \/ /\ received' = Nothing
              /\ (Unread \o outbox)' = Unread \o outbox
    BY <1>8, CallTakesHead
  <2>2. plugged' = plugged
    BY <1>8 DEF RecvData
  <2>3. Abstract!Deliver \/ Abstract!ComeBackEmpty
    BY <2>1, <2>2 DEF Abstract!Deliver, Abstract!ComeBackEmpty
  <2> QED BY <2>1, <2>3 DEF Abstract!Next
<1>9. CASE UNCHANGED vars
  BY <1>1, <1>2, <1>9 DEF vars, Held, Abstract!vars
<1> QED BY <1>4, <1>5, <1>6, <1>7, <1>8, <1>9 DEF Next, Abstract!Next

(***************************************************************************)
(* USBH_MIDI::RecvData (usbh_midi.cpp:331) is a queue for every buffer     *)
(* size, as long as no packet is empty or ends 4 bytes before the end of   *)
(* the buffer: nothing is lost, doubled, reordered or made up.             *)
(***************************************************************************)
THEOREM Refinement ==
  ASSUME MaxOutbox \in Nat, 0 \notin PacketSizes, Slots - 1 \notin PacketSizes, Slots > 1
  PROVE  Spec => ImplementsQueue
<1>1. Sizes
  BY DEF Sizes
<1>2. Init => Terminated /\ Held /\ Abstract!Init
  <2> SUFFICES ASSUME Init PROVE Terminated /\ Held /\ Abstract!Init
    OBVIOUS
  <2>1. Terminated
    BY SlotsAssumption DEF Init, Terminated, Empty, Slot
  <2>2. Unread = <<>>
    BY UnreadIsOf, NothingUnread DEF Init
  <2>3. Unread \o outbox = <<>>
    BY <2>2 DEF Init
  <2> QED BY <2>1, <2>3 DEF Init, Held, Abstract!Init
<1>3. TypeOK /\ Terminated /\ Held /\ [Next]_vars
        => Terminated' /\ Held' /\ [Abstract!Next]_Abstract!vars
  BY <1>1, TerminatedStep, StepSimulation
<1> QED BY <1>2, <1>3, TypeCorrect, PTL DEF Spec, ImplementsQueue, Abstract!Spec
=============================================================================
