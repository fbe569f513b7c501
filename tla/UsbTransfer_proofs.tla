------------------------- MODULE UsbTransfer_proofs -------------------------
(***************************************************************************)
(* Proofs about UsbTransfer for every packet size, every set of lengths,   *)
(* every limit and any number of calls.                                    *)
(***************************************************************************)
EXTENDS UsbTransfer, SequenceTheorems, TLAPS

Pkt    == [of : Nat, pos : Nat, len : Nat]
Device == [inTog : [Ep -> Bit], outTog : [Ep -> Bit],
           next : Nat, req : Nat, at : Nat, rest : Nat]

(* Where a transfer may still be tried again.                              *)
Counting == {"launch", "wait", "analyze", "outwait", "outread", "check"}

(* TypeOK in parts: the flags, the chip, the thread.                       *)
Flags ==
  /\ hxfrdn \in BOOLEAN /\ expired \in BOOLEAN
  /\ clean \in BOOLEAN /\ late \in BOOLEAN /\ failed \in BOOLEAN
Transfer == [tok : {"none", "SETUP", "IN", "OUT", "HS"}, ep : Ep, of : Nat, pos : Int, size : Nat]
ChipType ==
  /\ xfr \in Transfer /\ hrsl \in Code \ {"NODATA", "INVALID"}
  /\ rcvtog \in Bit /\ sndtog \in Bit
  /\ rcvToggle \in [Ep -> Bit] /\ sndToggle \in [Ep -> Bit]
  /\ fifo \in Seq(Pkt) /\ Len(fifo) <= 2 /\ dev \in Device
ThreadType ==
  /\ call \in Calls \cup {NoCall} /\ token \in {"SETUP", "IN", "HS"}
  /\ left \in 0 .. Word - 1 /\ nread \in Nat /\ rcode \in Code
  /\ calls \in Nat /\ lost \in Nat
LoopType ==
  /\ naks \in Nat /\ retries \in 0 .. RetryLimit
  /\ pc \in Counting => retries < RetryLimit
Typed == Flags /\ ChipType /\ ThreadType /\ LoopType

LEMMA TypedParts == Typed => TypeOK
  BY DEF Typed, Flags, ChipType, ThreadType, LoopType, Transfer, TypeOK

-----------------------------------------------------------------------------
(***************************************************************************)
(* As long as no transfer ends behind its deadline (Machine), and no       *)
(* handshake is lost (the rest).                                           *)
(***************************************************************************)
Undisturbed == lost = 0 /\ ~late

(* The chip works for the thread that waits for it, and for nobody else.   *)
ChipInStep ==
  /\ hxfrdn => xfr = NoXfr /\ pc \in {"wait", "outwait"}
  /\ xfr # NoXfr => /\ pc \in {"wait", "outwait"}
                    /\ xfr.ep = call.ep
                    /\ xfr.tok = (IF pc = "wait" THEN token ELSE "OUT")

(* Where dispatchPkt of an IN transfer is under way.                       *)
Polling == pc \in {"launch", "wait", "analyze", "returned"}

Stages ==
  /\ Polling /\ token = "IN" => call.op \in {"get", "in"}
  /\ pc = "read" => call.op \in {"get", "in"}
  /\ call.op = "in" => \/ pc \in {"idle", "begin", "read"}
                       \/ Polling /\ token = "IN"
  /\ pc = "launch" /\ expired => rcode \in {"NAK", "TIMEOUT"}

(* The FIFO holds a packet only from the end of a transfer to InPacket.    *)
FifoInStep ==
  fifo # <<>> => /\ Len(fifo) = 1 /\ xfr = NoXfr
                 /\ token = "IN" /\ pc \in {"wait", "analyze", "returned"}
                 /\ hrsl = "SUCCESS" /\ (pc = "returned" => rcode = "SUCCESS")

NoToggleError ==
  call.op = "in" => /\ pc \in {"wait", "analyze"} => hrsl # "TOGERR"
                    /\ pc = "returned" => rcode # "TOGERR"

(* The packets between the device and the program, and the toggle, in the  *)
(* EpInfo or, during a poll, in the chip.                                  *)
BulkPacket(i) == [of |-> 0, pos |-> i, len |-> MaxPkt]
Next1         == Len(taken) + 1
OnTheWay      == fifo = <<BulkPacket(Next1)>> /\ dev.next = Next1 + 1

TogglesInStep ==
  IF call.op = "in" /\ Polling
  THEN /\ got = <<>> /\ nread = 0 /\ dev.inTog["in"] = rcvtog
       /\ \/ fifo = <<>> /\ dev.next = Next1 /\ rcvToggle["in"] = rcvtog
          \/ OnTheWay
  ELSE /\ rcvToggle["in"] = dev.inTog["in"]
       /\ IF call.op = "in" /\ pc = "read"
            THEN got = <<BulkPacket(Next1)>> /\ dev.next = Next1 + 1
            ELSE dev.next = Next1

TakenInOrder == taken \in Seq(Pkt) /\ \A i \in DOMAIN taken : taken[i] = BulkPacket(i)

Machine == ChipInStep /\ Stages /\ FifoInStep
InStep  == Machine /\ NoToggleError /\ TogglesInStep /\ TakenInOrder
IInv    == (~late => Machine) /\ (Undisturbed => InStep)

-----------------------------------------------------------------------------
(* What the calls are.                                                     *)
LEMMA CallType ==
  ASSUME call \in Calls \cup {NoCall}
  PROVE  /\ call.op \in {"none", "set", "bad", "get", "put", "in", "out"}
         /\ call.ep \in Ep /\ call.size \in Nat /\ call.nbytes \in Nat
         /\ call.op \in {"none", "set", "get", "put", "out"} => call.size < Word
         /\ call.op \in {"none", "set", "bad", "get", "put"} => call.ep = "ctrl"
         /\ call.op = "in" => call.ep = "in" /\ call.nbytes = MaxPkt
         /\ call.op = "out" => call.ep = "out"
  BY PacketAssumption, SizeAssumption, WordAssumption DEF Calls, NoCall, Request, Ep

LEMMA DeviceType ==
  ASSUME dev \in Device, NEW ep \in Ep
  PROVE  Packet(ep) \in Pkt /\ Acknowledged(ep) \in Device
<1>1. Packet(ep) \in Pkt /\ Packet(ep).len \in Nat
  BY PacketAssumption DEF Device, Packet, Pkt, AtMost
<1>2. ep = "ctrl" => dev.rest - Packet(ep).len \in Nat
  BY PacketAssumption DEF Device, Packet, AtMost
<1>3. dev.inTog[ep] \in Bit /\ 1 - dev.inTog[ep] \in Bit
  BY DEF Device, Bit
<1> DEFINE d == [dev EXCEPT !.inTog[ep] = 1 - @]
<1>4. d \in Device /\ d.at = dev.at /\ d.rest = dev.rest /\ d.next = dev.next
  BY <1>3 DEF Device
<1> HIDE DEF d
<1>5. CASE ep = "ctrl"
  <2>1. dev.at + Packet(ep).len \in Nat
    BY <1>1 DEF Device
  <2>2. [d EXCEPT !.at = d.at + Packet(ep).len, !.rest = d.rest - Packet(ep).len] \in Device
    BY <1>2, <1>4, <1>5, <2>1 DEF Device
  <2>3. QED
    BY <1>1, <1>5, <2>2 DEF Acknowledged, d
<1>6. CASE ep # "ctrl"
  <2>1. [d EXCEPT !.next = d.next + 1] \in Device
    BY <1>4 DEF Device
  <2>2. QED
    BY <1>1, <1>6, <2>1 DEF Acknowledged, d
<1>7. QED
  BY <1>5, <1>6

LEMMA TypeInit == Init => Typed
<1> SUFFICES ASSUME Init PROVE Typed
  OBVIOUS
<1>1. NewDevice \in Device
  BY DEF NewDevice, Device, Bit
<1>2. NoXfr \in Transfer
  BY DEF NoXfr, Ep, Transfer
<1>3. <<>> \in Seq(Pkt) /\ Len(<<>>) = 0
  OBVIOUS
<1>4. Flags
  BY Zenon DEF Init, Flags
<1>5. ChipType
  BY <1>1, <1>2, <1>3 DEF Init, ChipType, Code, Bit
<1>6. ThreadType
  BY WordAssumption DEF Init, ThreadType, Code
<1>7. LoopType
  BY LimitAssumption DEF Init, LoopType, Counting
<1>8. QED
  BY <1>4, <1>5, <1>6, <1>7 DEF Typed

(* The flags.                                                              *)
LEMMA FlagsStep == Flags /\ [Next]_vars => Flags'
<1> SUFFICES ASSUME Flags, [Next]_vars PROVE Flags'
  OBVIOUS
<1> USE DEF Flags, chip, toggles, buffer, loop, bounds, data, marks, ghost
<1>1. CASE Launch
  BY <1>1 DEF Launch, WriteHxfr
<1>2. CASE Wait
  BY <1>2 DEF Wait
<1>3. CASE Analyze
  BY <1>3 DEF Analyze, CountRetry, Again
<1>4. CASE InToggleError
  BY <1>4 DEF InToggleError, Dispatch, InReturned
<1>5. CASE InError
  BY <1>5 DEF InError, Return, InReturned
<1>6. CASE InPacket
  BY <1>6 DEF InPacket, Dispatch, InReturned, FreeFifo
<1>7. CASE InDone
  BY <1>7 DEF InDone, Return
<1>8. CASE DataRead
  BY <1>8 DEF DataRead, BeginIn, Dispatch
<1>9. CASE OutPacket
  BY <1>9 DEF OutPacket, WriteHxfr, Breakout, Dispatch, Return
<1>10. CASE OutWait
  BY <1>10 DEF OutWait
<1>11. CASE OutRead
  BY <1>11 DEF OutRead
<1>12. CASE OutAdvance
  BY <1>12 DEF OutAdvance
<1>13. CASE OutRetry
  BY <1>13 DEF OutRetry, CountRetry, WriteHxfr
<1>14. CASE OutBreak
  BY <1>14 DEF OutBreak, Breakout, Dispatch, Return
<1>15. CASE BeginBulk
  BY <1>15 DEF BeginBulk, BeginIn, BeginOut, Dispatch
<1>16. CASE SetupFailed
  BY <1>16 DEF SetupFailed, Return
<1>17. CASE DataStageIn
  BY <1>17 DEF DataStageIn, BeginIn, Dispatch, SetupReturned
<1>18. CASE DataStageOut
  BY <1>18 DEF DataStageOut, BeginOut, SetupReturned
<1>19. CASE StatusStage
  BY <1>19 DEF StatusStage, Dispatch, SetupReturned
<1>20. CASE StatusReturned
  BY <1>20 DEF StatusReturned, Return
<1>21. CASE NoAnswer
  BY <1>21 DEF NoAnswer, Finish
<1>22. CASE InWrongToggle
  BY <1>22 DEF InWrongToggle, Finish
<1>23. CASE StatusTaken
  BY <1>23 DEF StatusTaken, Finish
<1>24. CASE Expire
  BY <1>24 DEF Expire
<1>25. ASSUME NEW c \in Calls, CallBad(c) PROVE Flags'
  BY <1>25 DEF CallBad, Enter
<1>26. ASSUME NEW c \in Calls, CallCtrl(c) PROVE Flags'
  BY <1>26 DEF CallCtrl, Enter, Dispatch
<1>27. ASSUME NEW c \in Calls, CallBulk(c) PROVE Flags'
  BY <1>27 DEF CallBulk, Enter
<1>28. ASSUME NEW h \in BOOLEAN, SetupTaken(h) PROVE Flags'
  BY <1>28 DEF SetupTaken, Finish, Handshake
<1>29. ASSUME NEW h \in BOOLEAN, InTaken(h) PROVE Flags'
  BY <1>29 DEF InTaken, Finish, Handshake
<1>30. ASSUME NEW h \in BOOLEAN, OutTaken(h) PROVE Flags'
  BY <1>30 DEF OutTaken, Finish, Handshake
<1>31. CASE UNCHANGED vars
  BY <1>31 DEF vars
<1>32. QED
  BY <1>1, <1>2, <1>3, <1>4, <1>5, <1>6, <1>7, <1>8, <1>9, <1>10, <1>11, <1>12, <1>13, <1>14,
     <1>15, <1>16, <1>17, <1>18, <1>19, <1>20, <1>21, <1>22, <1>23, <1>24, <1>25, <1>26, <1>27,
     <1>28, <1>29, <1>30, <1>31 DEF Next, Thread, Bus

(* Writing HXFR starts a transfer of the endpoint of the call.             *)
LEMMA WriteType ==
  ASSUME ThreadType, NEW t \in {"SETUP", "IN", "OUT", "HS"}, WriteHxfr(t)
  PROVE  /\ xfr' \in Transfer /\ hrsl' \in Code \ {"NODATA", "INVALID"}
         /\ UNCHANGED <<rcvtog, fifo>>
<1>1. call.ep \in Ep /\ call.size - left \in Int /\ call.size \in Nat
  BY CallType DEF ThreadType
<1>2. QED
  BY <1>1 DEF WriteHxfr, Transfer, ThreadType, Code

(* The toggles of an EpInfo keep their type when one of them is set.       *)
LEMMA ToggleType ==
  ASSUME NEW tog \in [Ep -> Bit], NEW e \in Ep, NEW b \in Bit
  PROVE  [tog EXCEPT ![e] = b] \in [Ep -> Bit] /\ [tog EXCEPT ![e] = 1 - b] \in [Ep -> Bit]
<1>1. 1 - b \in Bit
  BY DEF Bit
<1>2. QED
  BY <1>1

LEMMA ChipStep == Typed /\ [Next]_vars => ChipType'
<1> SUFFICES ASSUME Typed, [Next]_vars PROVE ChipType'
  OBVIOUS
<1> USE DEF Typed, ChipType
<1>0. call.ep \in Ep /\ call.nbytes \in Nat /\ NoXfr \in Transfer /\ "ctrl" \in Ep
  BY CallType DEF ThreadType, NoXfr, Transfer, Ep
<1>1. CASE UNCHANGED <<xfr, hrsl, rcvtog, sndtog, rcvToggle, sndToggle, fifo, dev>>
  BY <1>1
<1>2. CASE Launch
  <2>1. token \in {"SETUP", "IN", "OUT", "HS"}
    BY DEF ThreadType
  <2>2. CASE expired
    BY <1>1, <1>2, <2>2 DEF Launch, chip, toggles
  <2>3. CASE ~expired
    BY <1>2, <2>1, <2>3, WriteType DEF Launch, toggles
  <2>4. QED
    BY <2>2, <2>3
<1>3. CASE OutPacket
  <2>1. CASE left # 0
    BY <1>3, <2>1, WriteType DEF OutPacket
  <2>2. CASE left = 0
    BY <1>3, <2>2, <1>0, ToggleType DEF OutPacket, Breakout, chip
  <2>3. QED
    BY <2>1, <2>2
<1>4. CASE OutRetry
  <2>1. CASE ~(Again(rcode) \/ rcode = "TOGERR")
    BY <1>1, <1>4, <2>1 DEF OutRetry, chip
  <2>2. CASE Again(rcode) \/ rcode = "TOGERR"
    <3>1. sndToggle' \in [Ep -> Bit]
      BY <1>0, <1>4, <2>2, ToggleType DEF OutRetry, FlipToggle
    <3>2. sndtog' \in Bit
      BY <1>0, <1>4, <2>2, <3>1 DEF OutRetry
    <3>3. WriteHxfr("OUT") /\ UNCHANGED <<rcvToggle, dev>>
      BY <1>4, <2>2 DEF OutRetry
    <3>4. QED
      BY <3>1, <3>2, <3>3, WriteType
  <2>3. QED
    BY <2>1, <2>2
<1>5. CASE OutBreak
  BY <1>0, <1>5, ToggleType DEF OutBreak, Breakout, chip
<1>6. CASE InToggleError
  <2>1. rcvToggle' \in [Ep -> Bit]
    BY <1>0, <1>6, ToggleType DEF InToggleError, FlipToggle
  <2>2. QED
    BY <1>0, <1>6, <2>1 DEF InToggleError
<1>7. CASE InPacket
  <2>1. rcvToggle' \in [Ep -> Bit]
    BY <1>0, <1>7, ToggleType DEF InPacket
  <2>2. Tail(fifo) \in Seq(Pkt) /\ Len(Tail(fifo)) <= 2
    BY <1>7 DEF InPacket
  <2>3. QED
    BY <1>7, <2>1, <2>2 DEF InPacket, FreeFifo
<1>8. CASE DataRead
  BY <1>0, <1>8 DEF DataRead, BeginIn, chip, toggles
<1>9. CASE BeginBulk
  BY <1>0, <1>9 DEF BeginBulk, BeginIn, BeginOut, toggles
<1>10. CASE DataStageIn
  <2>1. rcvToggle' \in [Ep -> Bit]
    BY <1>0, <1>10, ToggleType DEF DataStageIn, Bit
  <2>2. QED
    BY <1>0, <1>10, <2>1 DEF DataStageIn, BeginIn
<1>11. CASE DataStageOut
  <2>1. sndToggle' \in [Ep -> Bit]
    BY <1>0, <1>11, ToggleType DEF DataStageOut, Bit
  <2>2. QED
    BY <1>0, <1>11, <2>1 DEF DataStageOut, BeginOut
<1>12. CASE NoAnswer \/ InWrongToggle \/ StatusTaken
  BY <1>0, <1>12 DEF NoAnswer, InWrongToggle, StatusTaken, Finish, Code, toggles
<1>13. ASSUME NEW h \in BOOLEAN, SetupTaken(h) PROVE ChipType'
  <2>1. dev' \in Device
    BY <1>13, <1>0 DEF SetupTaken, Device, Bit, Transfer
  <2>2. QED
    BY <1>0, <1>13, <2>1 DEF SetupTaken, Finish, Code, toggles
<1>14. ASSUME NEW h \in BOOLEAN, InTaken(h) PROVE ChipType'
  <2>1. Packet(xfr.ep) \in Pkt /\ dev' \in Device
    BY <1>14, DeviceType DEF InTaken, Transfer
  <2>2. fifo' \in Seq(Pkt) /\ Len(fifo') <= 2
    BY <1>14, <2>1 DEF InTaken
  <2>3. rcvtog' \in Bit
    BY <1>14 DEF InTaken, Bit
  <2>4. QED
    BY <1>0, <1>14, <2>1, <2>2, <2>3 DEF InTaken, Finish, Code, toggles
<1>15. ASSUME NEW h \in BOOLEAN, OutTaken(h) PROVE ChipType'
  <2>1. dev' \in Device
    <3>1. xfr.ep \in Ep /\ 1 - dev.outTog[xfr.ep] \in Bit
      BY DEF Transfer, Device, Bit
    <3>2. [dev EXCEPT !.outTog[xfr.ep] = 1 - @] \in Device
      BY <3>1 DEF Device
    <3>3. QED
      BY <1>15, <3>2 DEF OutTaken
  <2>2. sndtog' \in Bit
    BY <1>15 DEF OutTaken, Bit
  <2>3. QED
    BY <1>0, <1>15, <2>1, <2>2 DEF OutTaken, Finish, Code, toggles
<1>16. CASE Wait \/ Analyze \/ InError \/ InDone \/ OutWait \/ OutRead \/ OutAdvance \/ SetupFailed
            \/ StatusStage \/ StatusReturned \/ Expire
  BY <1>1, <1>16 DEF Wait, Analyze, InError, InDone, OutWait, OutRead, OutAdvance, SetupFailed,
     StatusStage, StatusReturned, Expire, chip, toggles
<1>17. ASSUME NEW c \in Calls, CallBad(c) \/ CallCtrl(c) \/ CallBulk(c) PROVE ChipType'
  BY <1>1, <1>17 DEF CallBad, CallCtrl, CallBulk, Enter, chip, toggles
<1>18. CASE UNCHANGED vars
  BY <1>1, <1>18 DEF vars
<1>19. QED
  BY <1>2, <1>3, <1>4, <1>5, <1>6, <1>7, <1>8, <1>9, <1>10, <1>11, <1>12, <1>13, <1>14, <1>15,
     <1>16, <1>17, <1>18 DEF Next, Thread, Bus

LEMMA ThreadStep == Typed /\ [Next]_vars => ThreadType'
<1> SUFFICES ASSUME Typed, [Next]_vars PROVE ThreadType'
  OBVIOUS
<1> USE DEF Typed, ThreadType
<1>0. /\ call.op \in {"get", "put", "out"} => call.size \in 0 .. Word - 1
      /\ call.nbytes \in Nat /\ 0 \in 0 .. Word - 1
      /\ {hrsl, "SUCCESS", "NODATA", "INVALID"} \subseteq Code
  BY CallType, WordAssumption DEF ChipType, Code
<1> USE <1>0 DEF bounds
<1>1. CASE UNCHANGED <<call, token, left, nread, rcode, calls, lost>>
  BY <1>1
<1>2. CASE Launch \/ Wait \/ OutWait \/ OutRetry \/ Expire
  BY <1>1, <1>2 DEF Launch, Wait, OutWait, OutRetry, Expire, buffer
<1>3. CASE Analyze \/ OutRead
  BY <1>3 DEF Analyze, OutRead, buffer
<1>4. CASE InToggleError \/ StatusStage
  BY <1>4 DEF InToggleError, StatusStage, Dispatch, buffer
<1>5. CASE InError \/ InDone \/ SetupFailed \/ StatusReturned
  BY <1>5 DEF InError, InDone, SetupFailed, StatusReturned, Return
<1>6. CASE InPacket
  <2>1. Head(fifo) \in Pkt
    BY <1>6 DEF InPacket, ChipType
  <2>2. nread + PktSize \in Nat
    BY <2>1 DEF PktSize, AtMost, Pkt
  <2>3. QED
    BY <1>6, <2>2 DEF InPacket, Dispatch
<1>7. CASE DataRead
  <2>1. (left - nread) % Word \in 0 .. Word - 1
    BY WordAssumption
  <2>2. QED
    BY <1>7, <2>1 DEF DataRead, LeftAfter, BeginIn, Dispatch
<1>8. CASE OutPacket \/ OutBreak
  BY <1>8 DEF OutPacket, OutBreak, Breakout, Dispatch, Return, buffer
<1>9. CASE OutAdvance
  <2>1. left - AtMost(left, MaxPkt) \in 0 .. Word - 1
    BY PacketAssumption, WordAssumption DEF AtMost
  <2>2. QED
    BY <1>9, <2>1 DEF OutAdvance
<1>10. CASE BeginBulk \/ DataStageIn \/ DataStageOut
  BY <1>10 DEF BeginBulk, DataStageIn, DataStageOut, BeginIn, BeginOut, Dispatch
<1>11. ASSUME NEW c \in Calls, CallBad(c) \/ CallCtrl(c) \/ CallBulk(c) PROVE ThreadType'
  BY <1>11 DEF CallBad, CallCtrl, CallBulk, Enter, Dispatch, buffer
<1>12. CASE NoAnswer \/ InWrongToggle \/ StatusTaken
  BY <1>1, <1>12 DEF NoAnswer, InWrongToggle, StatusTaken, Finish, buffer
<1>13. ASSUME NEW h \in BOOLEAN, SetupTaken(h) \/ InTaken(h) \/ OutTaken(h) PROVE ThreadType'
  BY <1>13 DEF SetupTaken, InTaken, OutTaken, Finish, Handshake, buffer
<1>14. CASE UNCHANGED vars
  BY <1>1, <1>14 DEF vars
<1>15. QED
  BY <1>2, <1>3, <1>4, <1>5, <1>6, <1>7, <1>8, <1>9, <1>10, <1>11, <1>12, <1>13, <1>14
  DEF Next, Thread, Bus

(* A retry is counted only below the limit.                                *)
LEMMA CountType ==
  ASSUME LoopType, retries < RetryLimit, NEW r, CountRetry(r)
  PROVE  naks' \in Nat /\ retries' \in 0 .. RetryLimit /\ (Again(r) => retries' < RetryLimit)
  BY LimitAssumption DEF LoopType, CountRetry, Again, RetryLimitReached

LEMMA LoopStep == Typed /\ [Next]_vars => LoopType'
<1> SUFFICES ASSUME Typed, [Next]_vars PROVE LoopType'
  OBVIOUS
<1>0. LoopType /\ RetryLimit \in Nat \ {0} /\ 0 < RetryLimit
  BY LimitAssumption DEF Typed
<1>1. CASE UNCHANGED <<naks, retries>> /\ (pc' \in Counting => pc \in Counting)
  BY <1>0, <1>1 DEF LoopType
<1>2. CASE naks' = 0 /\ retries' = 0
  BY <1>0, <1>2 DEF LoopType
<1>3. CASE Analyze
  BY <1>0, <1>3, CountType DEF Analyze, LoopType, Counting
<1>4. CASE OutRetry
  <2>1. rcode = "TOGERR" /\ CountRetry(rcode) => retries' = retries
    BY DEF CountRetry
  <2>2. QED
    BY <1>0, <1>4, <2>1, CountType DEF OutRetry, LoopType, Counting
<1>5. CASE Launch \/ Wait \/ OutWait \/ OutRead \/ OutAdvance \/ Expire \/ DataStageOut
  BY <1>1, <1>5 DEF Launch, Wait, OutWait, OutRead, OutAdvance, Expire, DataStageOut, BeginOut,
     loop, Counting
<1>6. CASE InToggleError \/ InError \/ InDone \/ DataRead \/ SetupFailed \/ DataStageIn
           \/ StatusStage \/ StatusReturned
  BY <1>2, <1>6 DEF InToggleError, InError, InDone, DataRead, SetupFailed, DataStageIn,
     StatusStage, StatusReturned, BeginIn, Dispatch, Return
<1>7. CASE InPacket
  BY <1>1, <1>2, <1>7 DEF InPacket, Dispatch, loop, Counting
<1>8. CASE OutPacket \/ OutBreak
  BY <1>2, <1>8 DEF OutPacket, OutBreak, Breakout, Dispatch, Return
<1>9. CASE BeginBulk
  BY <1>1, <1>2, <1>9 DEF BeginBulk, BeginIn, BeginOut, Dispatch, Counting
<1>10. ASSUME NEW c \in Calls, CallBad(c) \/ CallCtrl(c) \/ CallBulk(c) PROVE LoopType'
  BY <1>1, <1>2, <1>10 DEF CallBad, CallCtrl, CallBulk, Dispatch, loop, Counting
<1>11. CASE NoAnswer \/ InWrongToggle \/ StatusTaken
  BY <1>1, <1>11 DEF NoAnswer, InWrongToggle, StatusTaken, Finish, loop
<1>12. ASSUME NEW h \in BOOLEAN, SetupTaken(h) \/ InTaken(h) \/ OutTaken(h) PROVE LoopType'
  BY <1>1, <1>12 DEF SetupTaken, InTaken, OutTaken, Finish, loop
<1>13. CASE UNCHANGED vars
  BY <1>1, <1>13 DEF vars
<1>14. QED
  BY <1>3, <1>4, <1>5, <1>6, <1>7, <1>8, <1>9, <1>10, <1>11, <1>12, <1>13 DEF Next, Thread, Bus

LEMMA TypeStep == Typed /\ [Next]_vars => Typed'
  BY FlagsStep, ChipStep, ThreadStep, LoopStep DEF Typed

LEMMA AlwaysTyped == Spec => []Typed
<1>1. QED
  BY TypeInit, TypeStep, PTL DEF Spec

(* Every variable keeps its type: no more than two packets are in the FIFO, *)
(* no count of retries exceeds USB_RETRY_LIMIT and left stays a uint16_t   *)
(* (Usb.cpp 161-167, 216-244, 403-452).                                    *)
THEOREM TypeCorrect == Spec => []TypeOK
  BY AlwaysTyped, TypedParts, PTL

-----------------------------------------------------------------------------
LEMMA InitInStep == Init => InStep
<1> SUFFICES ASSUME Init PROVE InStep
  OBVIOUS
<1>1. dev.inTog["in"] = 0 /\ dev.next = 1 /\ rcvToggle["in"] = 0
  BY DEF Init, NewDevice, Ep
<1>2. taken \in Seq(Pkt) /\ DOMAIN taken = {} /\ Len(taken) = 0
  BY DEF Init
<1>3. QED
  BY <1>1, <1>2 DEF Init, InStep, Machine, ChipInStep, Stages, FifoInStep, NoToggleError,
     TogglesInStep,
     TakenInOrder, Polling, NoCall, Next1

(* late stays, once it is set.                                             *)
LEMMA LateStays == Typed /\ [Next]_vars /\ ~late' => ~late
<1> SUFFICES ASSUME Typed, [Next]_vars, ~late' PROVE ~late
  OBVIOUS
<1>1. late' = late \/ late' = (late \/ expired)
  BY DEF Next, vars, Thread, Bus, Launch, Wait, Analyze, InToggleError, InError, InPacket,
     InDone,
     DataRead, OutPacket, OutWait, OutRead, OutAdvance, OutRetry, OutBreak, BeginBulk,
     SetupFailed, DataStageIn, DataStageOut, StatusStage, StatusReturned, NoAnswer,
     InWrongToggle, StatusTaken, SetupTaken, InTaken, OutTaken, Finish, Expire, CallBad,
     CallCtrl, CallBulk, Enter, marks, ghost
<1>2. QED
  BY <1>1

(* No step brings back a handshake or the time.                            *)
LEMMA UndisturbedBefore ==
  ASSUME Typed, [Next]_vars, Undisturbed'
  PROVE  Undisturbed
<1> USE DEF Undisturbed, Typed, ThreadType
<1>1. UNCHANGED <<lost, late>> => Undisturbed
  OBVIOUS
<1>2. ASSUME NEW h \in BOOLEAN, SetupTaken(h) \/ InTaken(h) \/ OutTaken(h) PROVE Undisturbed
  BY <1>2 DEF SetupTaken, InTaken, OutTaken, Handshake, Finish
<1>3. CASE Wait
  BY <1>3 DEF Wait, bounds
<1>4. CASE Thread /\ ~Wait
  BY <1>1, <1>4 DEF Thread, Launch, Analyze, InToggleError, InError, InPacket, InDone, DataRead,
     OutPacket, OutWait, OutRead, OutAdvance, OutRetry, OutBreak, BeginBulk, SetupFailed,
     DataStageIn, DataStageOut, StatusStage, StatusReturned, bounds, marks, ghost
<1>5. CASE NoAnswer \/ InWrongToggle \/ StatusTaken \/ Expire
  BY <1>1, <1>5 DEF NoAnswer, InWrongToggle, StatusTaken, Expire, Finish, bounds
<1>6. ASSUME NEW c \in Calls, CallBad(c) \/ CallCtrl(c) \/ CallBulk(c) PROVE Undisturbed
  BY <1>1, <1>6 DEF CallBad, CallCtrl, CallBulk, Enter
<1>7. CASE UNCHANGED vars
  BY <1>1, <1>7 DEF vars
<1>8. QED
  BY <1>2, <1>3, <1>4, <1>5, <1>6, <1>7 DEF Next, Bus

(* What the steps below know of a call.                                    *)
CallFacts ==
  /\ call.op = "in" <=> call.ep = "in"
  /\ call.op \in {"set", "get", "put"} => call.ep = "ctrl"
  /\ call.op = "in" => call.nbytes = MaxPkt

LEMMA CallsHaveFacts == Typed => CallFacts
  BY CallType DEF Typed, ThreadType, CallFacts

LEMMA Heard ==
  ASSUME Typed, Undisturbed, Undisturbed', NEW h \in BOOLEAN, Handshake(h)
  PROVE  h
  BY DEF Typed, ThreadType, Undisturbed, Handshake

(* Toggles belong to one endpoint.                                         *)
LEMMA EpInfo ==
  ASSUME Typed
  PROVE  /\ "in" \in Ep /\ "ctrl" \in Ep
         /\ rcvToggle \in [Ep -> Bit] /\ dev \in Device /\ dev.inTog \in [Ep -> Bit]
  BY DEF Typed, ChipType, Device, Ep

LEMMA InTime ==
  ASSUME ~late', Wait
  PROVE  ~expired /\ hxfrdn /\ ~hxfrdn'
  BY DEF Wait

(* HXFR is written with HXFRDNIRQ clear, and the thread waits for its end. *)
LEMMA ChipStaysInStep ==
  ASSUME Typed, Machine, ~late, ~late', [Next]_vars
  PROVE  ChipInStep'
<1>0. CallFacts /\ (xfr.tok # "none" => xfr # NoXfr)
  BY CallsHaveFacts DEF NoXfr
<1> USE <1>0 DEF CallFacts, Machine, ChipInStep, Stages, FifoInStep, chip, toggles, buffer,
        loop, bounds, data, marks, ghost
<1>1. CASE Launch
  BY <1>1 DEF Launch, WriteHxfr
<1>2. CASE Wait
  BY <1>2, InTime DEF Wait
<1>3. CASE Analyze
  BY <1>3 DEF Analyze, CountRetry, Again
<1>4. CASE InToggleError
  BY <1>4 DEF InToggleError, Dispatch, InReturned
<1>5. CASE InError
  BY <1>5 DEF InError, Return, InReturned
<1>6. CASE InPacket
  BY <1>6 DEF InPacket, Dispatch, InReturned, FreeFifo
<1>7. CASE InDone
  BY <1>7 DEF InDone, Return
<1>8. CASE DataRead
  BY <1>8 DEF DataRead, BeginIn, Dispatch
<1>9. CASE OutPacket \/ OutBreak
  BY <1>9 DEF OutPacket, WriteHxfr, Breakout, Dispatch, Return, OutBreak
<1>10. CASE OutWait \/ OutRead \/ OutAdvance \/ OutRetry \/ Expire
  BY <1>10 DEF OutWait, OutRead, OutAdvance, OutRetry, CountRetry, WriteHxfr, Expire
<1>11. CASE BeginBulk
  BY <1>11 DEF BeginBulk, BeginIn, BeginOut, Dispatch
<1>12. CASE DataStageIn
  BY <1>12 DEF DataStageIn, BeginIn, Dispatch, SetupReturned
<1>13. CASE DataStageOut
  BY <1>13 DEF DataStageOut, BeginOut, SetupReturned
<1>14. CASE SetupFailed \/ StatusStage \/ StatusReturned
  BY <1>14 DEF SetupFailed, Return, StatusStage, Dispatch, SetupReturned, StatusReturned
<1>15. CASE NoAnswer \/ InWrongToggle \/ StatusTaken
  BY <1>15 DEF NoAnswer, Finish, InWrongToggle, StatusTaken
<1>16. ASSUME NEW h \in BOOLEAN, SetupTaken(h) PROVE ChipInStep'
  BY <1>16 DEF SetupTaken, Finish, Handshake
<1>17. ASSUME NEW h \in BOOLEAN, InTaken(h) PROVE ChipInStep'
  BY <1>17 DEF InTaken, Finish, Handshake
<1>18. ASSUME NEW h \in BOOLEAN, OutTaken(h) PROVE ChipInStep'
  BY <1>18 DEF OutTaken, Finish, Handshake
<1>19. ASSUME NEW c \in Calls, CallBad(c) \/ CallCtrl(c) \/ CallBulk(c) PROVE ChipInStep'
  BY <1>19 DEF CallBad, Enter, CallCtrl, Dispatch, CallBulk
<1>20. CASE UNCHANGED vars
  BY <1>20 DEF vars
<1>21. QED
  BY <1>1, <1>2, <1>3, <1>4, <1>5, <1>6, <1>7, <1>8, <1>9, <1>10, <1>11, <1>12, <1>13, <1>14,
     <1>15, <1>16, <1>17, <1>18, <1>19, <1>20 DEF Next, Thread, Bus

(* The stages of a call.                                                   *)
LEMMA StagesAreKept ==
  ASSUME Typed, Machine, ~late, ~late', [Next]_vars
  PROVE  Stages'
<1>0. CallFacts /\ (xfr.tok # "none" => xfr # NoXfr)
  BY CallsHaveFacts DEF NoXfr
<1> USE <1>0 DEF CallFacts, Machine, Stages, Polling, chip, toggles, buffer, loop, bounds,
        data, marks, ghost
<1>1. CASE Launch
  BY <1>1 DEF Launch, WriteHxfr
<1>2. CASE Wait
  BY <1>2, InTime DEF Wait
<1>3. CASE Analyze
  BY <1>3 DEF Analyze, CountRetry, Again
<1>4. CASE InToggleError
  BY <1>4 DEF InToggleError, Dispatch, InReturned
<1>5. CASE InError
  BY <1>5 DEF InError, Return, InReturned
<1>6. CASE InPacket
  BY <1>6 DEF InPacket, Dispatch, InReturned, FreeFifo
<1>7. CASE InDone
  BY <1>7 DEF InDone, Return
<1>8. CASE DataRead
  BY <1>8 DEF DataRead, BeginIn, Dispatch
<1>9. CASE OutPacket \/ OutBreak
  BY <1>9 DEF OutPacket, WriteHxfr, Breakout, Dispatch, Return, OutBreak
<1>10. CASE OutWait \/ OutRead \/ OutAdvance \/ OutRetry \/ Expire
  BY <1>10 DEF OutWait, OutRead, OutAdvance, OutRetry, CountRetry, WriteHxfr, Expire
<1>11. CASE BeginBulk
  BY <1>11 DEF BeginBulk, BeginIn, BeginOut, Dispatch
<1>12. CASE DataStageIn
  BY <1>12 DEF DataStageIn, BeginIn, Dispatch, SetupReturned
<1>13. CASE DataStageOut
  BY <1>13 DEF DataStageOut, BeginOut, SetupReturned
<1>14. CASE SetupFailed \/ StatusStage \/ StatusReturned
  BY <1>14 DEF SetupFailed, Return, StatusStage, Dispatch, SetupReturned, StatusReturned
<1>15. CASE NoAnswer \/ InWrongToggle \/ StatusTaken
  BY <1>15 DEF NoAnswer, Finish, InWrongToggle, StatusTaken
<1>16. ASSUME NEW h \in BOOLEAN, SetupTaken(h) PROVE Stages'
  BY <1>16 DEF SetupTaken, Finish, Handshake
<1>17. ASSUME NEW h \in BOOLEAN, InTaken(h) PROVE Stages'
  BY <1>17 DEF InTaken, Finish, Handshake
<1>18. ASSUME NEW h \in BOOLEAN, OutTaken(h) PROVE Stages'
  BY <1>18 DEF OutTaken, Finish, Handshake
<1>19. ASSUME NEW c \in Calls, CallBad(c) \/ CallCtrl(c) \/ CallBulk(c) PROVE Stages'
  BY <1>19 DEF CallBad, Enter, CallCtrl, Dispatch, CallBulk
<1>20. CASE UNCHANGED vars
  BY <1>20 DEF vars
<1>21. QED
  BY <1>1, <1>2, <1>3, <1>4, <1>5, <1>6, <1>7, <1>8, <1>9, <1>10, <1>11, <1>12, <1>13, <1>14,
     <1>15, <1>16, <1>17, <1>18, <1>19, <1>20 DEF Next, Thread, Bus

(* The FIFO is empty before an IN transfer and is read behind it.          *)
LEMMA FifoStaysInStep ==
  ASSUME Typed, Machine, ~late, ~late', [Next]_vars
  PROVE  FifoInStep'
<1>0. CallFacts /\ (xfr.tok # "none" => xfr # NoXfr)
  BY CallsHaveFacts DEF NoXfr
<1> USE <1>0 DEF CallFacts, Machine, FifoInStep, ChipInStep, Stages, Polling, chip, toggles,
        buffer, loop, bounds, data, marks, ghost
<1>1. CASE Launch
  BY <1>1 DEF Launch, WriteHxfr
<1>2. CASE Wait
  BY <1>2, InTime DEF Wait
<1>3. CASE Analyze
  BY <1>3 DEF Analyze, CountRetry, Again
<1>4. CASE InToggleError
  BY <1>4 DEF InToggleError, Dispatch, InReturned
<1>5. CASE InError
  BY <1>5 DEF InError, Return, InReturned
<1>6. CASE InPacket
  <2>1. Tail(fifo) \in Seq(Pkt) /\ Len(Tail(fifo)) = 0
    BY <1>6 DEF InPacket, Typed, ChipType
  <2>2. QED
    BY <1>6, <2>1, EmptySeq DEF InPacket, FreeFifo
<1>7. CASE InDone
  BY <1>7 DEF InDone, Return
<1>8. CASE DataRead
  BY <1>8 DEF DataRead, BeginIn, Dispatch
<1>9. CASE OutPacket \/ OutBreak
  BY <1>9 DEF OutPacket, WriteHxfr, Breakout, Dispatch, Return, OutBreak
<1>10. CASE OutWait \/ OutRead \/ OutAdvance \/ OutRetry \/ Expire
  BY <1>10 DEF OutWait, OutRead, OutAdvance, OutRetry, CountRetry, WriteHxfr, Expire
<1>11. CASE BeginBulk
  BY <1>11 DEF BeginBulk, BeginIn, BeginOut, Dispatch
<1>12. CASE DataStageIn
  BY <1>12 DEF DataStageIn, BeginIn, Dispatch, SetupReturned
<1>13. CASE DataStageOut
  BY <1>13 DEF DataStageOut, BeginOut, SetupReturned
<1>14. CASE SetupFailed \/ StatusStage \/ StatusReturned
  BY <1>14 DEF SetupFailed, Return, StatusStage, Dispatch, SetupReturned, StatusReturned
<1>15. CASE NoAnswer \/ InWrongToggle \/ StatusTaken
  BY <1>15 DEF NoAnswer, Finish, InWrongToggle, StatusTaken
<1>16. ASSUME NEW h \in BOOLEAN, SetupTaken(h) PROVE FifoInStep'
  BY <1>16 DEF SetupTaken, Finish, Handshake
<1>17. ASSUME NEW h \in BOOLEAN, InTaken(h) PROVE FifoInStep'
  BY <1>17 DEF InTaken, Finish, Handshake
<1>18. ASSUME NEW h \in BOOLEAN, OutTaken(h) PROVE FifoInStep'
  BY <1>18 DEF OutTaken, Finish, Handshake
<1>19. ASSUME NEW c \in Calls, CallBad(c) \/ CallCtrl(c) \/ CallBulk(c) PROVE FifoInStep'
  BY <1>19 DEF CallBad, Enter, CallCtrl, Dispatch, CallBulk
<1>20. CASE UNCHANGED vars
  BY <1>20 DEF vars
<1>21. QED
  BY <1>1, <1>2, <1>3, <1>4, <1>5, <1>6, <1>7, <1>8, <1>9, <1>10, <1>11, <1>12, <1>13, <1>14,
     <1>15, <1>16, <1>17, <1>18, <1>19, <1>20 DEF Next, Thread, Bus

(* A poll meets no toggle error.                                           *)
LEMMA NoToggleErrorComes ==
  ASSUME Typed, InStep, Undisturbed, Undisturbed', [Next]_vars
  PROVE  NoToggleError'
<1>0. CallFacts /\ (xfr.tok # "none" => xfr # NoXfr)
  BY CallsHaveFacts DEF NoXfr
<1> USE <1>0 DEF CallFacts, InStep, Machine, NoToggleError, Stages, ChipInStep, TogglesInStep,
        Polling, FifoInStep, chip, toggles, buffer, loop, bounds, data, marks, ghost
<1>1. CASE Launch
  BY <1>1 DEF Launch, WriteHxfr
<1>2. CASE Wait
  BY <1>2, InTime DEF Wait, Undisturbed
<1>3. CASE Analyze
  BY <1>3 DEF Analyze, CountRetry, Again
<1>4. CASE InToggleError
  BY <1>4 DEF InToggleError, Dispatch, InReturned
<1>5. CASE InError
  BY <1>5 DEF InError, Return, InReturned
<1>6. CASE InPacket
  BY <1>6 DEF InPacket, Dispatch, InReturned, FreeFifo
<1>7. CASE InDone
  BY <1>7 DEF InDone, Return
<1>8. CASE DataRead
  BY <1>8 DEF DataRead, BeginIn, Dispatch
<1>9. CASE OutPacket \/ OutBreak
  BY <1>9 DEF OutPacket, WriteHxfr, Breakout, Dispatch, Return, OutBreak
<1>10. CASE OutWait \/ OutRead \/ OutAdvance \/ OutRetry \/ Expire
  BY <1>10 DEF OutWait, OutRead, OutAdvance, OutRetry, CountRetry, WriteHxfr, Expire
<1>11. CASE BeginBulk
  BY <1>11 DEF BeginBulk, BeginIn, BeginOut, Dispatch
<1>12. CASE DataStageIn
  BY <1>12 DEF DataStageIn, BeginIn, Dispatch, SetupReturned
<1>13. CASE DataStageOut
  BY <1>13 DEF DataStageOut, BeginOut, SetupReturned
<1>14. CASE SetupFailed \/ StatusStage \/ StatusReturned
  BY <1>14 DEF SetupFailed, Return, StatusStage, Dispatch, SetupReturned, StatusReturned
<1>15. CASE NoAnswer \/ InWrongToggle \/ StatusTaken
  BY <1>15 DEF NoAnswer, Finish, InWrongToggle, StatusTaken
<1>16. ASSUME NEW h \in BOOLEAN, SetupTaken(h) PROVE NoToggleError'
  BY <1>16, Heard DEF SetupTaken, Finish, Handshake
<1>17. ASSUME NEW h \in BOOLEAN, InTaken(h) PROVE NoToggleError'
  BY <1>17, Heard DEF InTaken, Finish, Handshake
<1>18. ASSUME NEW h \in BOOLEAN, OutTaken(h) PROVE NoToggleError'
  BY <1>18, Heard DEF OutTaken, Finish, Handshake
<1>19. ASSUME NEW c \in Calls, CallBad(c) \/ CallCtrl(c) \/ CallBulk(c) PROVE NoToggleError'
  BY <1>19 DEF CallBad, Enter, CallCtrl, Dispatch, CallBulk
<1>20. CASE UNCHANGED vars
  BY <1>20 DEF vars
<1>21. QED
  BY <1>1, <1>2, <1>3, <1>4, <1>5, <1>6, <1>7, <1>8, <1>9, <1>10, <1>11, <1>12, <1>13, <1>14,
     <1>15, <1>16, <1>17, <1>18, <1>19, <1>20 DEF Next, Thread, Bus

(* The two toggles change together.                                        *)
LEMMA TogglesStayInStep ==
  ASSUME Typed, InStep, Undisturbed, Undisturbed', [Next]_vars
  PROVE  TogglesInStep'
<1>0. CallFacts /\ (xfr.tok # "none" => xfr # NoXfr)
  BY CallsHaveFacts DEF NoXfr
<1> USE <1>0 DEF CallFacts, InStep, Machine, TogglesInStep, Stages, NoToggleError, Polling,
        FifoInStep, OnTheWay, Next1, ChipInStep, chip, toggles, buffer, loop, bounds, data,
        marks, ghost
<1>1. CASE Launch
  BY <1>1 DEF Launch, WriteHxfr
<1>2. CASE Wait
  BY <1>2, InTime DEF Wait, Undisturbed
<1>3. CASE Analyze
  BY <1>3 DEF Analyze, CountRetry, Again
<1>4. CASE InToggleError
  <2>1. call.op = "get" /\ rcvToggle'["in"] = rcvToggle["in"]
    BY <1>4, EpInfo DEF InToggleError, InReturned, FlipToggle
  <2>2. QED
    BY <1>4, <2>1 DEF InToggleError, Dispatch, InReturned
<1>5. CASE InError
  <2>1. fifo = <<>> /\ pc' = "idle"
    BY <1>5 DEF InError, InReturned, Return
  <2>2. ~OnTheWay
    BY <2>1
  <2>3. QED
    BY <1>5, <2>1, <2>2 DEF InError, InReturned
<1>6. CASE InPacket
  <2>1. CASE call.op = "in"
    <3>1. OnTheWay /\ Head(fifo) = BulkPacket(Next1) /\ Head(fifo).len = MaxPkt
      BY <1>6, <2>1 DEF InPacket, InReturned, BulkPacket
    <3>2. PktSize = MaxPkt /\ Complete
      BY <2>1, <1>6, <3>1, PacketAssumption DEF PktSize, AtMost, Complete, InPacket, InReturned
    <3>3. got' = <<BulkPacket(Next1)>>
      BY <1>6, <2>1, <3>1 DEF InPacket, InReturned
    <3>4. rcvToggle'["in"] = rcvtog
      BY <1>6, <2>1, <3>2, EpInfo DEF InPacket
    <3>5. QED
      BY <1>6, <2>1, <3>1, <3>2, <3>3, <3>4 DEF InPacket, InReturned
  <2>2. CASE call.op = "get"
    <3>1. rcvToggle'["in"] = rcvToggle["in"]
      BY <1>6, <2>2, EpInfo DEF InPacket
    <3>2. QED
      BY <1>6, <2>2, <3>1 DEF InPacket
  <2>3. QED
    BY <1>6, <2>1, <2>2 DEF InPacket, InReturned
<1>7. CASE InDone
  <2>1. got = <<BulkPacket(Next1)>> /\ dev.next = Next1 + 1
    BY <1>7 DEF InDone
  <2>2. Len(taken') = Len(taken) + 1
    BY <1>7, <2>1 DEF InDone, TakenInOrder, BulkPacket
  <2>3. QED
    BY <1>7, <2>1, <2>2 DEF InDone, Return
<1>8. CASE DataRead
  BY <1>8 DEF DataRead, BeginIn, Dispatch
<1>9. CASE OutPacket \/ OutBreak
  BY <1>9 DEF OutPacket, WriteHxfr, Breakout, Dispatch, Return, OutBreak
<1>10. CASE OutWait \/ OutRead \/ OutAdvance \/ OutRetry \/ Expire
  BY <1>10 DEF OutWait, OutRead, OutAdvance, OutRetry, CountRetry, WriteHxfr, Expire
<1>11. CASE BeginBulk
  BY <1>11 DEF BeginBulk, BeginIn, BeginOut, Dispatch
<1>12. CASE DataStageIn
  BY <1>12 DEF DataStageIn, BeginIn, Dispatch, SetupReturned
<1>13. CASE DataStageOut
  BY <1>13 DEF DataStageOut, BeginOut, SetupReturned
<1>14. CASE SetupFailed \/ StatusStage \/ StatusReturned
  BY <1>14 DEF SetupFailed, Return, StatusStage, Dispatch, SetupReturned, StatusReturned
<1>15. CASE NoAnswer \/ InWrongToggle \/ StatusTaken
  BY <1>15 DEF NoAnswer, Finish, InWrongToggle, StatusTaken
<1>16. ASSUME NEW h \in BOOLEAN, SetupTaken(h) PROVE TogglesInStep'
  BY <1>16, Heard DEF SetupTaken, Finish, Handshake
<1>17. ASSUME NEW h \in BOOLEAN, InTaken(h) PROVE TogglesInStep'
  <2>1. h /\ xfr # NoXfr /\ fifo = <<>> /\ ~OnTheWay /\ pc = "wait" /\ xfr.ep = call.ep
    BY <1>17, Heard DEF InTaken
  <2>2. UNCHANGED <<rcvToggle, pc, call, taken, got, nread>>
    BY <1>17 DEF InTaken, Finish
  <2>3. CASE call.op = "in"
    <3>1. fifo' = <<BulkPacket(Next1)>>
      BY <1>17, <2>1, <2>3 DEF InTaken, Packet, BulkPacket
    <3>2. dev'.inTog["in"] = 1 - dev.inTog["in"] /\ dev'.next = dev.next + 1
      BY <1>17, <2>1, <2>3, EpInfo DEF InTaken, Acknowledged
    <3>3. QED
      BY <1>17, <2>1, <2>2, <2>3, <3>1, <3>2 DEF InTaken
  <2>4. CASE call.op # "in"
    <3>1. dev'.inTog["in"] = dev.inTog["in"] /\ dev'.next = dev.next
      BY <1>17, <2>1, <2>4, EpInfo DEF InTaken, Acknowledged
    <3>2. QED
      BY <2>1, <2>2, <2>4, <3>1
  <2>5. QED
    BY <2>3, <2>4
<1>18. ASSUME NEW h \in BOOLEAN, OutTaken(h) PROVE TogglesInStep'
  <2>1. call.op # "in"
    BY <1>18 DEF OutTaken
  <2>2. dev'.inTog = dev.inTog /\ dev'.next = dev.next
    BY <1>18, EpInfo DEF OutTaken, Device
  <2>3. QED
    BY <1>18, <2>1, <2>2 DEF OutTaken, Finish
<1>19. ASSUME NEW c \in Calls, CallBad(c) \/ CallCtrl(c) \/ CallBulk(c) PROVE TogglesInStep'
  BY <1>19 DEF CallBad, Enter, CallCtrl, Dispatch, CallBulk
<1>20. CASE UNCHANGED vars
  BY <1>20 DEF vars
<1>21. QED
  BY <1>1, <1>2, <1>3, <1>4, <1>5, <1>6, <1>7, <1>8, <1>9, <1>10, <1>11, <1>12, <1>13, <1>14,
     <1>15, <1>16, <1>17, <1>18, <1>19, <1>20 DEF Next, Thread, Bus

(* InDone appends the packet that is next.                                 *)
LEMMA TakenStaysInOrder ==
  ASSUME Typed, InStep, [Next]_vars
  PROVE  TakenInOrder'
<1> USE DEF InStep, TakenInOrder
<1>1. CASE UNCHANGED taken
  BY <1>1
<1>2. CASE InDone
  <2>1. got = <<BulkPacket(Next1)>>
    BY <1>2 DEF InDone, TogglesInStep, Polling
  <2>2. BulkPacket(Next1) \in Pkt
    BY PacketAssumption DEF BulkPacket, Next1, Pkt
  <2>3. taken' = Append(taken, BulkPacket(Next1))
    BY <1>2, <2>1, <2>2 DEF InDone
  <2>4. QED
    BY <2>2, <2>3 DEF Next1
<1>3. CASE Thread /\ ~InDone
  BY <1>1, <1>3 DEF Thread, Launch, Wait, Analyze, InToggleError, InError, InPacket, DataRead,
     OutPacket, OutWait, OutRead, OutAdvance, OutRetry, OutBreak, BeginBulk, SetupFailed,
     DataStageIn, DataStageOut, StatusStage, StatusReturned, data, ghost
<1>4. CASE Bus \/ Expire
  BY <1>1, <1>4 DEF Bus, NoAnswer, InWrongToggle, StatusTaken, SetupTaken, InTaken, OutTaken,
     Finish, Expire, data
<1>5. ASSUME NEW c \in Calls, CallBad(c) \/ CallCtrl(c) \/ CallBulk(c) PROVE TakenInOrder'
  BY <1>1, <1>5 DEF CallBad, CallCtrl, CallBulk, Enter
<1>6. CASE UNCHANGED vars
  BY <1>1, <1>6 DEF vars
<1>7. QED
  BY <1>2, <1>3, <1>4, <1>5, <1>6 DEF Next

-----------------------------------------------------------------------------
LEMMA StaysInStep == Typed /\ IInv /\ [Next]_vars => IInv'
<1> SUFFICES ASSUME Typed, IInv, [Next]_vars PROVE IInv'
  OBVIOUS
<1>1. ASSUME ~late' PROVE Machine'
  BY <1>1, LateStays, ChipStaysInStep, StagesAreKept, FifoStaysInStep DEF IInv, Machine
<1>2. ASSUME Undisturbed' PROVE InStep'
  <2>1. Undisturbed /\ InStep
    BY <1>2, UndisturbedBefore DEF IInv
  <2>2. Machine'
    BY <1>1, <1>2 DEF Undisturbed
  <2>3. QED
    BY <1>2, <2>1, <2>2, NoToggleErrorComes, TogglesStayInStep, TakenStaysInOrder DEF InStep
<1>3. QED
  BY <1>1, <1>2 DEF IInv

(* inTransfer returns every bulk packet of the device once and in order, for any NAK limits,
   retries, deadlines and other transfers in between, as long as no handshake is lost and no
   transfer ends behind its deadline: the toggle that InTransfer writes to RCVTOGx, flips on
   a toggle error and saves in the EpInfo stays that of the device (Usb.cpp 190-263). *)
THEOREM BulkInOrder == Spec => []BulkOnceInOrder
<1>1. Init => IInv
  BY InitInStep DEF IInv, InStep
<1>2. IInv => BulkOnceInOrder
  BY DEF IInv, InStep, TakenInOrder, Undisturbed, BulkOnceInOrder, BulkPacket
<1>3. QED
  BY <1>1, <1>2, AlwaysTyped, StaysInStep, PTL DEF Spec

-----------------------------------------------------------------------------
(***************************************************************************)
(* The data of a control request, in the parser's hands, in the buffer and *)
(* in the FIFO.                                                            *)
(***************************************************************************)
Packets   == given \o got \o fifo
Ordered(s) == \A i \in DOMAIN s : s[i].of = calls /\ s[i].pos = (i - 1) * MaxPkt
Full(s)   == s # <<>> /\ s[Len(s)].pos + s[Len(s)].len = call.size
InFifo    == IF fifo = <<>> THEN 0 ELSE fifo[1].len

(* While the data are read: what the device still has, what has come, and  *)
(* what the program still waits for.                                       *)
Reading ==
  /\ dev.req = calls /\ dev.at + dev.rest = call.size
  /\ dev.rest > 0 => dev.at = Len(Packets) * MaxPkt
  /\ dev.rest = 0 => Full(Packets)
  /\ Ordered(Packets)
  /\ left - nread >= dev.rest + InFifo
  /\ fifo # <<>> /\ fifo[1].len < MaxPkt => dev.rest = 0
  /\ pc = "read" /\ nread < call.nbytes => dev.rest = 0

(* The stages of a request for data.                                       *)
SetUp == \/ pc \in {"wait", "analyze"} /\ hrsl = "SUCCESS"
         \/ pc = "returned" /\ rcode = "SUCCESS"
GetRequest ==
  /\ Polling \/ pc \in {"idle", "read"}
  /\ xfr # NoXfr => xfr.of = calls /\ xfr.size = call.size
  /\ Polling /\ token = "SETUP" =>
       given = <<>> /\ (SetUp => dev.req = calls /\ dev.at = 0 /\ dev.rest = call.size)
  /\ (Polling /\ token = "IN") \/ pc = "read" => Reading
  /\ Polling /\ token = "HS" => Ordered(given) /\ Full(given)
  /\ pc = "idle" => Ordered(given) /\ (rcode = "SUCCESS" => Full(given))

(* The sequences and the beginning of a call.                              *)
Buffers == /\ given \in Seq(Pkt) /\ got \in Seq(Pkt)
           /\ pc = "idle" => token = "SETUP"
           /\ token = "SETUP" => got = <<>>

ReadInOrder ==
  /\ Buffers
  /\ call.op = "get" => GetRequest

(* Packets put together and taken apart.                                   *)
LEMMA PacketsParts ==
  ASSUME given \in Seq(Pkt), got \in Seq(Pkt), fifo \in Seq(Pkt)
  PROVE  /\ Packets \in Seq(Pkt) /\ given \o got \in Seq(Pkt)
         /\ Len(Packets) = Len(given) + Len(got) + Len(fifo)
         /\ \A i \in DOMAIN given : i \in DOMAIN Packets /\ given[i] = Packets[i]
         /\ fifo = <<>> => Packets = given \o got
<1>1. given \o got \in Seq(Pkt) /\ Len(given \o got) = Len(given) + Len(got)
  BY ConcatProperties
<1>2. Packets \in Seq(Pkt) /\ Len(Packets) = Len(given \o got) + Len(fifo)
  BY <1>1, ConcatProperties DEF Packets
<1>3. ASSUME NEW i \in DOMAIN given PROVE i \in DOMAIN Packets /\ given[i] = Packets[i]
  <2>1. i \in 1 .. Len(given) /\ i \in 1 .. Len(given \o got) /\ i \in 1 .. Len(Packets)
    BY <1>1, <1>2, LenProperties
  <2>2. (given \o got)[i] = given[i]
    BY <2>1, ConcatProperties
  <2>3. Packets[i] = (given \o got)[i]
    BY <1>1, <2>1, ConcatProperties DEF Packets
  <2>4. QED
    BY <1>2, <2>1, <2>2, <2>3, LenProperties
<1>4. fifo = <<>> => Packets = given \o got
  BY <1>1, ConcatEmptySeq DEF Packets
<1>5. QED
  BY <1>1, <1>2, <1>3, <1>4

(* What the program has of the data is in order.                           *)
LEMMA GivenIsOrdered ==
  ASSUME given \in Seq(Pkt), got \in Seq(Pkt), fifo \in Seq(Pkt), Ordered(Packets)
  PROVE  Ordered(given)
  BY PacketsParts DEF Ordered

LEMMA BuffersStay ==
  ASSUME Typed, InStep, Buffers, [Next]_vars
  PROVE  Buffers'
<1> USE DEF Buffers
<1>0. <<>> \in Seq(Pkt) /\ fifo \in Seq(Pkt)
  BY DEF Typed, ChipType
<1>1. CASE UNCHANGED <<given, got, token>> /\ (pc' = "idle" => pc = "idle")
  BY <1>1
<1>2. CASE /\ UNCHANGED given /\ pc' # "idle" /\ token' # "SETUP"
           /\ got' = <<>> \/ UNCHANGED got
  BY <1>0, <1>2
<1>3. CASE UNCHANGED given /\ token' = "SETUP" /\ got' = <<>>
  BY <1>0, <1>3
<1>4. CASE Launch \/ Wait \/ Analyze \/ OutWait \/ OutRead \/ OutAdvance \/ OutRetry
           \/ DataStageOut \/ Expire
  BY <1>1, <1>4 DEF Launch, Wait, Analyze, OutWait, OutRead, OutAdvance, OutRetry, DataStageOut,
     BeginOut, Expire, buffer, data, ghost
<1>5. CASE InToggleError \/ DataStageIn \/ StatusStage
  BY <1>2, <1>5 DEF InToggleError, DataStageIn, StatusStage, BeginIn, Dispatch, buffer, data,
     ghost
<1>6. CASE InError \/ InDone \/ SetupFailed \/ StatusReturned
  BY <1>3, <1>6 DEF InError, InDone, SetupFailed, StatusReturned, Return, data
<1>7. CASE InPacket
  <2>1. Append(got, Head(fifo)) \in Seq(Pkt)
    BY <1>0, <1>7 DEF InPacket
  <2>2. QED
    BY <1>7, <2>1 DEF InPacket, InReturned, Dispatch, data, ghost
<1>8. CASE DataRead
  <2>1. given \o got \in Seq(Pkt)
    BY ConcatProperties
  <2>2. token' \in {"IN", "HS"} /\ pc' # "idle"
    BY <1>8 DEF DataRead, BeginIn, Dispatch
  <2>3. QED
    BY <1>0, <1>8, <2>1, <2>2 DEF DataRead, BeginIn, Dispatch
<1>9. CASE OutPacket \/ OutBreak
  BY <1>1, <1>2, <1>3, <1>9 DEF OutPacket, OutBreak, Breakout, Dispatch, Return, buffer, data
<1>10. CASE BeginBulk
  BY <1>1, <1>2, <1>10 DEF BeginBulk, BeginIn, BeginOut, Dispatch, data, ghost
<1>11. ASSUME NEW c \in Calls, CallBad(c) \/ CallCtrl(c) \/ CallBulk(c) PROVE Buffers'
  BY <1>0, <1>11 DEF CallBad, CallCtrl, CallBulk, Enter, Dispatch, buffer
<1>12. CASE Bus
  BY <1>1, <1>12 DEF Bus, NoAnswer, InWrongToggle, StatusTaken, SetupTaken, InTaken, OutTaken,
     Finish, buffer
<1>13. CASE UNCHANGED vars
  BY <1>1, <1>13 DEF vars
<1>14. QED
  BY <1>4, <1>5, <1>6, <1>7, <1>8, <1>9, <1>10, <1>11, <1>12, <1>13 DEF Next, Thread

(* Nothing about the data changes.                                         *)
LEMMA ReadingKept ==
  ASSUME Reading, UNCHANGED <<given, got, fifo, dev, left, nread, call, calls>>,
         pc' = "read" => pc = "read"
  PROVE  Reading'
  BY DEF Reading, Packets, Ordered, Full, InFifo

(* A packet arrives in the FIFO.                                           *)
LEMMA PacketArrives ==
  ASSUME Typed, Buffers, Reading, fifo = <<>>, pc = "wait",
         NEW p, p = Packet("ctrl"), HasData("ctrl"),
         fifo' = <<p>>, dev' = Acknowledged("ctrl"),
         UNCHANGED <<given, got, left, nread, call, calls, pc>>
  PROVE  Reading'
<1>1. /\ given \in Seq(Pkt) /\ got \in Seq(Pkt) /\ fifo \in Seq(Pkt) /\ dev \in Device
      /\ "ctrl" \in Ep /\ left \in Int /\ nread \in Int /\ MaxPkt \in Nat \ {0}
  BY PacketAssumption DEF Typed, ChipType, ThreadType, Buffers, Ep
<1> DEFINE all == given \o got
           N   == Len(all)
<1>2. all \in Seq(Pkt) /\ Packets = all /\ N \in Nat
  BY <1>1, PacketsParts
<1>3. p \in Pkt /\ p.len \in Nat
  BY <1>1, DeviceType DEF Pkt
<1>4. Packets' = Append(all, p)
  BY <1>1, <1>2, <1>3 DEF Packets
<1> HIDE DEF all, N
<1>5. Packets' \in Seq(Pkt) /\ Len(Packets') = N + 1 /\ Packets'[N + 1] = p
      /\ \A i \in 1 .. N : Packets'[i] = Packets[i]
  BY <1>2, <1>3, <1>4 DEF N
<1>6. /\ p.of = calls /\ p.pos = dev.at /\ p.len = AtMost(dev.rest, MaxPkt)
      /\ dev.rest > 0 /\ dev.at = N * MaxPkt /\ dev.at + dev.rest = call.size
      /\ dev.rest \in Nat /\ dev.at \in Nat /\ left - nread >= dev.rest
  BY <1>1, <1>2 DEF Packet, HasData, Reading, InFifo, Device, N
<1>7. dev'.req = dev.req /\ dev'.at = dev.at + p.len /\ dev'.rest = dev.rest - p.len
  BY <1>1 DEF Acknowledged, Device
<1>8. p.len <= dev.rest /\ p.len <= MaxPkt /\ (p.len < MaxPkt => p.len = dev.rest)
  BY <1>1, <1>6 DEF AtMost
<1>9. dev'.rest > 0 => dev'.at = Len(Packets') * MaxPkt
  <2>1. (N + 1) * MaxPkt = N * MaxPkt + MaxPkt
    BY <1>1, <1>2
  <2>2. QED
    BY <1>1, <1>3, <1>5, <1>6, <1>7, <1>8, <2>1
<1>10. dev'.rest = 0 => Full(Packets)'
  <2>1. Packets' # <<>>
    BY <1>4, <1>2, <1>3
  <2>2. QED
    BY <1>3, <1>5, <1>6, <1>7, <2>1 DEF Full
<1>11. Ordered(Packets)'
  <2>1. ASSUME NEW i \in DOMAIN Packets'
        PROVE  Packets'[i].of = calls /\ Packets'[i].pos = (i - 1) * MaxPkt
    <3>1. i \in 1 .. N \/ i = N + 1
      BY <1>2, <1>5, <2>1
    <3>2. CASE i \in 1 .. N
      BY <1>2, <1>5, <3>2 DEF Reading, Ordered, N
    <3>3. CASE i = N + 1
      BY <1>2, <1>5, <1>6, <3>3
    <3>4. QED
      BY <3>1, <3>2, <3>3
  <2>2. QED
    BY <2>1 DEF Ordered
<1>12. InFifo' = p.len /\ fifo'[1] = p
  BY DEF InFifo
<1>13. QED
  BY <1>1, <1>3, <1>6, <1>7, <1>8, <1>9, <1>10, <1>11, <1>12 DEF Reading

(* InPacket moves the packet from the FIFO to the buffer.                  *)
LEMMA PacketRead ==
  ASSUME Typed, Buffers, Reading, fifo # <<>>, Len(fifo) = 1, pc # "read",
         fifo' = Tail(fifo), got' = Append(got, Head(fifo)), nread' = nread + PktSize,
         pc' = "read" => Complete,
         UNCHANGED <<given, dev, left, call, calls>>
  PROVE  Reading'
<1>1. /\ given \in Seq(Pkt) /\ got \in Seq(Pkt) /\ fifo \in Seq(Pkt) /\ dev \in Device
      /\ left \in Int /\ nread \in Nat /\ MaxPkt \in Nat \ {0} /\ call.nbytes \in Nat
  BY PacketAssumption, CallType DEF Typed, ChipType, ThreadType, Buffers
<1>2. /\ fifo[1] \in Pkt /\ Head(fifo) = fifo[1] /\ fifo = <<fifo[1]>>
      /\ Tail(fifo) \in Seq(Pkt) /\ Len(Tail(fifo)) = 0
  BY <1>1
<1>3. fifo' = <<>>
  BY <1>2, EmptySeq
<1>4. Packets' = Packets
  <2>1. got' \in Seq(Pkt) /\ got' = got \o fifo
    BY <1>1, <1>2
  <2>2. Packets' = (given \o got') \o <<>>
    BY <1>3 DEF Packets
  <2>3. given \o got' \in Seq(Pkt)
    BY <1>1, <2>1, ConcatProperties
  <2>4. Packets' = given \o got'
    BY <2>2, <2>3, ConcatEmptySeq
  <2>5. (given \o got) \o fifo = given \o (got \o fifo)
    <3>1. given \in Seq(Pkt) /\ got \in Seq(Pkt) /\ fifo \in Seq(Pkt)
      BY <1>1
    <3>2. QED
      BY <3>1
  <2>6. QED
    BY <2>1, <2>4, <2>5 DEF Packets
<1>5. PktSize \in Nat /\ PktSize <= fifo[1].len /\ PktSize <= call.nbytes /\ fifo[1].len \in Nat
      /\ (PktSize < call.nbytes => PktSize = fifo[1].len)
  BY <1>1, <1>2 DEF PktSize, AtMost, Pkt
<1>6. left - nread' >= dev.rest /\ InFifo' = 0
  <2>1. left - nread >= dev.rest + fifo[1].len /\ dev.rest \in Nat
    BY <1>1 DEF Reading, InFifo, Device
  <2>2. InFifo' = 0
    BY <1>3 DEF InFifo
  <2>3. QED
    BY <1>1, <1>5, <2>1, <2>2
<1>7. pc' = "read" /\ nread' < call.nbytes => dev.rest = 0
  BY <1>1, <1>5 DEF Complete, Reading
<1>8. Full(Packets)' <=> Full(Packets)
  BY <1>4 DEF Full
<1>9. Ordered(Packets)' <=> Ordered(Packets)
  BY <1>4 DEF Ordered
<1>10. left' - nread' >= dev'.rest + InFifo'
  BY <1>1, <1>6 DEF Device
<1>11. QED
  BY <1>3, <1>4, <1>7, <1>8, <1>9, <1>10 DEF Reading

(* DataRead hands the buffer to the parser: what is left is at least what  *)
(* the device still has, and nothing is left only when the device has      *)
(* nothing.                                                                *)
LEMMA BufferGiven ==
  ASSUME Typed, Buffers, Reading, fifo = <<>>, pc = "read", DataRead
  PROVE  /\ pc' = "launch" /\ token' = "IN" => Reading'
         /\ token' = "HS" => Ordered(given)' /\ Full(given)'
<1>1. /\ given \in Seq(Pkt) /\ got \in Seq(Pkt) /\ fifo \in Seq(Pkt) /\ dev \in Device
      /\ left \in 0 .. Word - 1 /\ nread \in Nat /\ dev.rest \in Nat /\ Word \in Nat \ {0}
      /\ call.nbytes \in Nat
  BY WordAssumption, CallType DEF Typed, ChipType, ThreadType, Buffers, Device
<1>2. given' = Packets /\ given' \in Seq(Pkt)
  BY <1>1, PacketsParts DEF DataRead
<1>3. left - nread >= dev.rest /\ left - nread \in 0 .. Word - 1
  BY <1>1 DEF Reading, InFifo
<1>4. LeftAfter = left - nread
  BY <1>1, <1>3 DEF LeftAfter
<1>5. UNCHANGED <<dev, call, calls>>
  BY DEF DataRead, bounds
<1>6. ASSUME token' = "IN" PROVE Reading'
  <2>1. /\ nread' = 0 /\ got' = <<>> /\ fifo' = <<>> /\ left' = left - nread /\ pc' = "launch"
    BY <1>4, <1>6 DEF DataRead, BeginIn, Dispatch
  <2>2. Packets' = Packets
    BY <1>2, <2>1, ConcatEmptySeq DEF Packets
  <2>3. Full(Packets)' <=> Full(Packets)
    BY <1>5, <2>2 DEF Full
  <2>4. Ordered(Packets)' <=> Ordered(Packets)
    BY <1>5, <2>2 DEF Ordered
  <2>5. QED
    BY <1>1, <1>3, <1>5, <2>1, <2>2, <2>3, <2>4 DEF Reading, InFifo
<1>7. ASSUME token' = "HS" PROVE Ordered(given)' /\ Full(given)'
  <2>1. dev.rest = 0
    BY <1>1, <1>3, <1>4, <1>7 DEF DataRead, BeginIn, Dispatch, Reading
  <2>2. QED
    BY <1>2, <1>5, <2>1 DEF Reading, Full, Ordered
<1>8. QED
  BY <1>6, <1>7

(* A request begins with nothing given.                                    *)
LEMMA CallBegins ==
  ASSUME Typed, InStep, Buffers,
         NEW c \in Calls, CallBad(c) \/ CallCtrl(c) \/ CallBulk(c), call'.op = "get"
  PROVE  GetRequest'
<1>1. pc = "idle" /\ call' = c /\ given' = <<>> /\ CallCtrl(c)
  BY DEF CallBad, CallCtrl, CallBulk, Enter
<1>2. xfr = NoXfr
  BY <1>1 DEF InStep, Machine, ChipInStep
<1>3. xfr' = NoXfr /\ pc' = "launch" /\ token' = "SETUP"
  BY <1>1, <1>2 DEF CallCtrl, Dispatch, chip
<1>4. QED
  BY <1>1, <1>3 DEF GetRequest, Polling, SetUp

(* The stages of a request for data follow one another.                    *)
LEMMA RequestStays ==
  ASSUME Typed, InStep, Buffers, call.op = "get", GetRequest, Undisturbed, Undisturbed',
         [Next]_vars, UNCHANGED call
  PROVE  GetRequest'
<1>0. /\ call.ep = "ctrl" /\ call.size \in Nat \ {0} /\ token \in {"SETUP", "IN", "HS"}
      /\ given \in Seq(Pkt) /\ got \in Seq(Pkt) /\ fifo \in Seq(Pkt)
      /\ xfr.tok # "none" => xfr # NoXfr
  <2>1. call \in Calls \cup {NoCall}
    BY DEF Typed, ThreadType
  <2>2. call.ep = "ctrl" /\ call.size \in Nat \ {0}
    BY <2>1, SizeAssumption DEF Calls, NoCall, Request
  <2>3. QED
    BY <2>2 DEF Typed, ThreadType, ChipType, Buffers, NoXfr
<1> USE <1>0 DEF GetRequest, Polling, SetUp
<1>1. ASSUME UNCHANGED <<given, dev, left, nread, got, fifo, calls>>,
             pc' = "read" => pc = "read",
             Polling' /\ token' = "IN" => Polling /\ token = "IN"
      PROVE  /\ (Polling' /\ token' = "IN") \/ pc' = "read" => Reading'
             /\ Ordered(given)' <=> Ordered(given)
             /\ Full(given)' <=> Full(given)
  BY <1>1, ReadingKept DEF Ordered, Full
<1> USE DEF bounds, data, marks, ghost, buffer, loop
<1>2. CASE Launch
  BY <1>1, <1>2 DEF Launch, WriteHxfr, chip, Stages, InStep, Machine
<1>3. CASE Wait
  BY <1>1, <1>3, InTime DEF Wait, Undisturbed
<1>4. CASE Analyze
  <2>1. /\ pc = "analyze" /\ pc' \in {"launch", "returned"} /\ rcode' = hrsl
        /\ UNCHANGED <<xfr, hrsl, fifo, dev, call, token, left, nread, got, calls, given>>
    BY <1>4 DEF Analyze, chip
  <2>2. QED
    BY <1>1, <2>1
<1>5. CASE InToggleError
  BY <1>1, <1>5 DEF InToggleError, Dispatch, InReturned
<1>6. CASE InError
  <2>1. Ordered(given)
    BY <1>6, GivenIsOrdered DEF InError, InReturned, Reading
  <2>2. /\ pc' = "idle" /\ rcode' # "SUCCESS"
        /\ UNCHANGED <<xfr, given, calls>>
    BY <1>6 DEF InError, InReturned, Return, chip
  <2>3. QED
    BY <2>1, <2>2 DEF Ordered
<1>7. CASE InPacket
  <2>1. Reading /\ Len(fifo) = 1 /\ fifo # <<>> /\ pc = "returned" /\ token = "IN"
    BY <1>7 DEF InPacket, InReturned, InStep, Machine, FifoInStep
  <2>2. Reading'
    <3>1. /\ fifo' = Tail(fifo) /\ got' = Append(got, Head(fifo)) /\ nread' = nread + PktSize
          /\ UNCHANGED <<given, dev, left, call, calls>>
      BY <1>7 DEF InPacket, FreeFifo
    <3>2. pc' = "read" => Complete
      BY <1>7 DEF InPacket, Dispatch
    <3>3. QED
      BY <2>1, <3>1, <3>2, PacketRead
  <2>3. pc' = "read" \/ (pc' = "launch" /\ token' = "IN")
    <3>1. CASE Complete
      BY <1>7, <3>1 DEF InPacket
    <3>2. CASE ~Complete
      BY <1>7, <3>2 DEF InPacket, Dispatch
    <3>3. QED
      BY <3>1, <3>2
  <2>4. UNCHANGED <<xfr, given, calls>>
    BY <1>7 DEF InPacket
  <2>5. QED
    BY <2>1, <2>2, <2>3, <2>4
<1>8. CASE DataRead
  <2>1. Reading /\ fifo = <<>> /\ pc = "read"
    BY <1>8 DEF DataRead, InStep, Machine, FifoInStep
  <2>2. pc' = "launch" /\ token' \in {"IN", "HS"} /\ UNCHANGED <<xfr, calls>>
    BY <1>8 DEF DataRead, BeginIn, Dispatch, chip
  <2>3. xfr = NoXfr
    BY <2>1 DEF InStep, Machine, ChipInStep
  <2>4. QED
    BY <1>8, <2>1, <2>2, <2>3, BufferGiven
<1>9. CASE SetupFailed
  BY <1>9 DEF SetupFailed, Return, chip, Ordered
<1>10. CASE DataStageIn
  <2>1. /\ given = <<>> /\ dev.req = calls /\ dev.at = 0 /\ dev.rest = call.size /\ fifo = <<>>
    BY <1>10 DEF DataStageIn, SetupReturned, InStep, Machine, FifoInStep
  <2>2. /\ got' = <<>> /\ nread' = 0 /\ left' = call.size /\ pc' = "launch" /\ token' = "IN"
        /\ UNCHANGED <<xfr, given, fifo, dev, calls>>
    BY <1>10 DEF DataStageIn, BeginIn, Dispatch
  <2>3. Packets' = <<>>
    BY <2>1, <2>2 DEF Packets
  <2>4. Ordered(Packets)'
    BY <2>3 DEF Ordered
  <2>5. Len(Packets') * MaxPkt = 0
    BY <2>3, PacketAssumption
  <2>6. Reading'
    BY <2>1, <2>2, <2>4, <2>5 DEF Reading, InFifo
  <2>7. QED
    BY <2>2, <2>6
<1>11. CASE StatusStage
  BY <1>11 DEF StatusStage, SetupReturned
<1>12. CASE StatusReturned
  BY <1>12 DEF StatusReturned, Return, chip, Ordered, Full
<1>13. CASE InDone \/ OutPacket \/ OutWait \/ OutRead \/ OutAdvance \/ OutRetry \/ OutBreak
            \/ BeginBulk \/ DataStageOut
  BY <1>13 DEF InDone, OutPacket, OutWait, OutRead, OutAdvance, OutRetry, OutBreak, BeginBulk,
     DataStageOut
<1>14. CASE NoAnswer
  <2>1. xfr' = NoXfr /\ hrsl' # "SUCCESS" /\ pc = "wait"
        /\ UNCHANGED <<pc, token, given, dev, left, nread, got, fifo, calls>>
    BY <1>14 DEF NoAnswer, Finish, InStep, Machine, ChipInStep
  <2>2. QED
    BY <1>1, <2>1
<1>15. CASE InWrongToggle \/ StatusTaken
  <2>1. /\ xfr' = NoXfr /\ pc = "wait" /\ token # "SETUP"
        /\ UNCHANGED <<pc, token, given, dev, left, nread, got, fifo, calls>>
    BY <1>15 DEF InWrongToggle, StatusTaken, Finish, InStep, Machine, ChipInStep
  <2>2. QED
    BY <1>1, <2>1
<1>16. ASSUME NEW h \in BOOLEAN, SetupTaken(h) PROVE GetRequest'
  <2>1. /\ pc = "wait" /\ token = "SETUP" /\ xfr.of = calls /\ xfr.size = call.size
    BY <1>16 DEF SetupTaken, InStep, Machine, ChipInStep
  <2>2. /\ xfr' = NoXfr /\ UNCHANGED <<pc, token, given, calls>>
    BY <1>16 DEF SetupTaken, Finish
  <2>3. dev'.req = calls /\ dev'.at = 0 /\ dev'.rest = call.size
    BY <1>16, <2>1 DEF SetupTaken, Typed, ChipType, Device
  <2>4. QED
    BY <2>1, <2>2, <2>3
<1>17. ASSUME NEW h \in BOOLEAN, InTaken(h) PROVE GetRequest'
  <2>1. /\ h /\ pc = "wait" /\ token = "IN" /\ xfr.ep = "ctrl" /\ fifo = <<>> /\ Reading
    BY <1>17, Heard DEF InTaken, InStep, Machine, ChipInStep, FifoInStep
  <2>2. /\ xfr' = NoXfr /\ UNCHANGED <<pc, token, given, got, left, nread, calls>>
    BY <1>17 DEF InTaken, Finish
  <2>3. /\ HasData("ctrl") /\ fifo' = <<Packet("ctrl")>> /\ dev' = Acknowledged("ctrl")
    BY <1>17, <2>1 DEF InTaken
  <2>4. Reading'
    BY <2>1, <2>2, <2>3, PacketArrives
  <2>5. QED
    BY <2>1, <2>2, <2>4
<1>18. ASSUME NEW h \in BOOLEAN, OutTaken(h) PROVE GetRequest'
  BY <1>18 DEF OutTaken, InStep, Machine, ChipInStep
<1>19. CASE Expire
  BY <1>1, <1>19 DEF Expire, chip
<1>20. ASSUME NEW c \in Calls, CallBad(c) \/ CallCtrl(c) \/ CallBulk(c) PROVE GetRequest'
  BY <1>20, CallBegins
<1>21. CASE UNCHANGED vars
  BY <1>1, <1>21 DEF vars
<1>22. QED
  BY <1>2, <1>3, <1>4, <1>5, <1>6, <1>7, <1>8, <1>9, <1>10, <1>11, <1>12, <1>13, <1>14, <1>15,
     <1>16, <1>17, <1>18, <1>19, <1>20, <1>21 DEF Next, Thread, Bus

(* Nothing was asked for, and nothing has come.                            *)
LEMMA InitReadInOrder == Init => ReadInOrder
  BY EmptySeq DEF Init, ReadInOrder, Buffers, NoCall

LEMMA ReadStaysInOrder == Typed /\ IInv /\ (Undisturbed => ReadInOrder) /\ [Next]_vars
                            => (Undisturbed => ReadInOrder)'
<1> SUFFICES ASSUME Typed, IInv, Undisturbed => ReadInOrder, [Next]_vars, Undisturbed'
             PROVE  ReadInOrder'
  OBVIOUS
<1>1. Undisturbed /\ InStep /\ ReadInOrder
  BY UndisturbedBefore DEF IInv
<1>2. Buffers'
  BY <1>1, BuffersStay DEF ReadInOrder
<1>3. CASE UNCHANGED call
  BY <1>1, <1>2, <1>3, RequestStays DEF ReadInOrder
<1>4. ASSUME NEW c \in Calls, CallBad(c) \/ CallCtrl(c) \/ CallBulk(c)
      PROVE  call'.op = "get" => GetRequest'
  <2> SUFFICES ASSUME call'.op = "get" PROVE GetRequest'
    OBVIOUS
  <2>1. CallBad(c) \/ CallCtrl(c) \/ CallBulk(c)
    BY <1>4
  <2>2. QED
    BY <1>1, <2>1, CallBegins DEF ReadInOrder
<1>5. CASE Thread \/ Bus \/ Expire \/ UNCHANGED vars
  <2>1. UNCHANGED call
    BY <1>5 DEF Thread, Launch, Wait, Analyze, InToggleError, InError, InPacket, InDone,
       DataRead,
       OutPacket, OutWait, OutRead, OutAdvance, OutRetry, OutBreak, BeginBulk, SetupFailed,
       DataStageIn, DataStageOut, StatusStage, StatusReturned, Bus, NoAnswer, InWrongToggle,
       StatusTaken, SetupTaken, InTaken, OutTaken, Finish, Expire, vars
  <2>2. QED
    BY <1>3, <2>1
<1>6. QED
  BY <1>2, <1>4, <1>5 DEF Next, ReadInOrder

(* What ctrlReq hands to the parser is the descriptor that this call asked for, from its start
   and without a gap, and a call that succeeds has read all of it, for any lengths of packet,
   buffer and descriptor, as long as no handshake is lost and no transfer ends behind its
   deadline (Usb.cpp 78-167, 190-263). *)
THEOREM DescriptorsAreRead == Spec => []ReadsOwnDescriptor
<1>1. Init => IInv /\ (Undisturbed => ReadInOrder)
  BY InitInStep, InitReadInOrder DEF IInv, InStep
<1>2. Typed /\ (Undisturbed => ReadInOrder) => ReadsOwnDescriptor
  <2> SUFFICES ASSUME Typed, Undisturbed, ReadInOrder, call.op = "get" PROVE ReadsOwnDescriptor
    BY DEF ReadsOwnDescriptor, Undisturbed
  <2>1. given \in Seq(Pkt) /\ got \in Seq(Pkt) /\ fifo \in Seq(Pkt)
    BY DEF Typed, ChipType, ReadInOrder, Buffers
  <2>2. token \in {"SETUP", "IN", "HS"} /\ GetRequest
    BY DEF Typed, ThreadType, ReadInOrder
  <2>3. Ordered(given)
    <3>1. CASE Polling /\ token = "SETUP"
      BY <2>2, <3>1 DEF GetRequest, Ordered
    <3>2. CASE (Polling /\ token = "IN") \/ pc = "read"
      BY <2>1, <2>2, <3>2, GivenIsOrdered DEF GetRequest, Reading
    <3>3. QED
      BY <2>2, <3>1, <3>2 DEF GetRequest
  <2>4. pc = "idle" /\ rcode = "SUCCESS" => Full(given)
    BY <2>2 DEF GetRequest
  <2>5. QED
    BY <2>3, <2>4 DEF ReadsOwnDescriptor, Ordered, Full
<1>3. QED
  BY <1>1, <1>2, AlwaysTyped, StaysInStep, ReadStaysInOrder, PTL DEF Spec

-----------------------------------------------------------------------------
(***************************************************************************)
(* What is sent, with handshakes lost.  The device has the packet that the *)
(* thread is sending when its toggle is behind that of the device.         *)
(***************************************************************************)
OutStage == pc \in {"fill", "outwait", "outread", "check", "breakout"}
Good     == call.op = "put" \/ ~failed
Level    == dev.outTog[call.ep] = sndtog

OutStages ==
  /\ OutStage => call.op \in {"put", "out"}
  /\ pc = "begin" => call.op \in {"in", "out"}
  /\ call.op = "out" => OutStage \/ pc \in {"idle", "begin"}
  /\ call.op = "put" => OutStage \/ pc = "idle" \/ (Polling /\ token \in {"SETUP", "HS"})
  /\ pc = "breakout" => rcode # "SUCCESS"
  /\ pc = "idle" => ~expired
  /\ expired => overtime

(* What the last result says, for the packet that is being sent.           *)
Done == \/ pc \in {"outwait", "outread"} /\ hrsl = "SUCCESS"
        \/ pc = "check" /\ rcode = "SUCCESS"
NoOutToggleError ==
  /\ pc \in {"outwait", "outread"} => hrsl # "TOGERR"
  /\ pc = "check" => rcode # "TOGERR"
  /\ pc = "outwait" /\ xfr # NoXfr => hrsl = "BUSY" /\ xfr.of = calls /\ xfr.pos = call.size - left

OutTogglesInStep ==
  /\ Polling /\ token = "SETUP" /\ call.op = "put" /\ SetUp => dev.outTog["ctrl"] = 1
  /\ ~failed /\ ~(call.op = "out" /\ OutStage) => dev.outTog["out"] = sndToggle["out"]
  /\ Good /\ (Done \/ (pc = "fill" /\ rcode = "SUCCESS")) => Level

(* The packets the device took, and how many of them there are.            *)
Positions(n) == [i \in 1 .. n |-> (i - 1) * MaxPkt]
AllTaken(n)  == (n - 1) * MaxPkt < call.size /\ call.size <= n * MaxPkt
At(n)        == call.size - left = n * MaxPkt
Count        == Len(accepted)

SentInOrder ==
  /\ accepted = Positions(Count) /\ Count \in Nat
  /\ pc = "begin" \/ (Polling /\ token = "SETUP") => Count = 0
  /\ pc = "fill" => rcode = "SUCCESS" /\ (IF left = 0 THEN AllTaken(Count) ELSE At(Count))
  /\ pc \in {"outwait", "outread", "check"} =>
       /\ left > 0
       /\ IF Done \/ ~Level THEN At(Count - 1) ELSE At(Count)
  /\ (pc = "idle" /\ rcode = "SUCCESS") \/ (Polling /\ token = "HS") => AllTaken(Count)

OutInStep == /\ OutStages /\ NoOutToggleError /\ OutTogglesInStep
             /\ call.op \in {"put", "out"} /\ Good /\ ~overtime => SentInOrder

(* What the steps below know of a call that sends.                         *)
OutFacts ==
  /\ call.op \in {"set", "get", "put"} => call.ep = "ctrl"
  /\ call.op = "out" <=> call.ep = "out"
  /\ xfr.tok # "none" => xfr # NoXfr
  /\ token \in {"SETUP", "IN", "HS"} /\ dev \in Device /\ dev.outTog \in [Ep -> Bit]
  /\ sndToggle \in [Ep -> Bit] /\ sndtog \in Bit /\ {"ctrl", "in", "out"} = Ep

LEMMA CallsHaveOutFacts == Typed => OutFacts
  BY CallType DEF Typed, ThreadType, ChipType, Device, OutFacts, NoXfr, Ep

(* The stages of a call that sends.                                        *)
LEMMA OutStagesAreKept ==
  ASSUME Typed, Machine, OutInStep, ~late', [Next]_vars
  PROVE  OutStages'
<1>0. OutFacts
  BY CallsHaveOutFacts
<1> USE <1>0 DEF OutFacts, Machine, OutInStep, OutStages, OutStage, Polling, Stages, chip,
        toggles, buffer, loop, bounds, data, marks, ghost
<1>1. CASE Launch
  BY <1>1 DEF Launch, WriteHxfr
<1>2. CASE Wait
  BY <1>2 DEF Wait
<1>3. CASE Analyze
  BY <1>3 DEF Analyze, CountRetry, Again
<1>4. CASE InToggleError
  BY <1>4 DEF InToggleError, Dispatch, InReturned
<1>5. CASE InError
  BY <1>5 DEF InError, Return, InReturned
<1>6. CASE InPacket
  BY <1>6 DEF InPacket, Dispatch, InReturned, FreeFifo
<1>7. CASE InDone
  BY <1>7 DEF InDone, Return
<1>8. CASE DataRead
  BY <1>8 DEF DataRead, BeginIn, Dispatch
<1>9. CASE OutPacket
  BY <1>9 DEF OutPacket, WriteHxfr, Breakout, Dispatch, Return
<1>10. CASE OutBreak
  BY <1>10 DEF OutBreak, Breakout, Dispatch, Return
<1>11. CASE OutWait
  BY <1>11 DEF OutWait
<1>12. CASE OutRead
  BY <1>12 DEF OutRead
<1>13. CASE OutAdvance
  BY <1>13 DEF OutAdvance
<1>14. CASE OutRetry
  BY <1>14 DEF OutRetry, CountRetry, WriteHxfr
<1>15. CASE Expire
  BY <1>15 DEF Expire
<1>16. CASE BeginBulk
  BY <1>16 DEF BeginBulk, BeginIn, BeginOut, Dispatch
<1>17. CASE DataStageIn
  BY <1>17 DEF DataStageIn, BeginIn, Dispatch, SetupReturned
<1>18. CASE DataStageOut
  BY <1>18 DEF DataStageOut, BeginOut, SetupReturned
<1>19. CASE SetupFailed \/ StatusStage \/ StatusReturned
  BY <1>19 DEF SetupFailed, Return, StatusStage, Dispatch, SetupReturned, StatusReturned
<1>20. CASE NoAnswer \/ InWrongToggle \/ StatusTaken
  BY <1>20 DEF NoAnswer, Finish, InWrongToggle, StatusTaken
<1>21. ASSUME NEW h \in BOOLEAN, SetupTaken(h) PROVE OutStages'
  BY <1>21 DEF SetupTaken, Finish, Handshake
<1>22. ASSUME NEW h \in BOOLEAN, InTaken(h) PROVE OutStages'
  BY <1>22 DEF InTaken, Finish, Handshake
<1>23. ASSUME NEW h \in BOOLEAN, OutTaken(h) PROVE OutStages'
  BY <1>23 DEF OutTaken, Finish, Handshake
<1>24. ASSUME NEW c \in Calls, CallBad(c) \/ CallCtrl(c) \/ CallBulk(c) PROVE OutStages'
  BY <1>24 DEF CallBad, Enter, CallCtrl, Dispatch, CallBulk
<1>25. CASE UNCHANGED vars
  BY <1>25 DEF vars
<1>26. QED
  BY <1>1, <1>2, <1>3, <1>4, <1>5, <1>6, <1>7, <1>8, <1>9, <1>10, <1>11, <1>12, <1>13, <1>14,
     <1>15, <1>16, <1>17, <1>18, <1>19, <1>20, <1>21, <1>22, <1>23, <1>24, <1>25 DEF Next,
     Thread, Bus

(* An OUT transfer meets no toggle error.                                  *)
LEMMA NoOutToggleErrorComes ==
  ASSUME Typed, Machine, OutInStep, ~late', [Next]_vars
  PROVE  NoOutToggleError'
<1>0. OutFacts
  BY CallsHaveOutFacts
<1> USE <1>0 DEF OutFacts, Machine, OutInStep, NoOutToggleError, OutStages, OutStage, Polling,
        ChipInStep, chip, toggles, buffer, loop, bounds, data, marks, ghost
<1>1. CASE Launch
  BY <1>1 DEF Launch, WriteHxfr
<1>2. CASE Wait
  BY <1>2 DEF Wait
<1>3. CASE Analyze
  BY <1>3 DEF Analyze, CountRetry, Again
<1>4. CASE InToggleError
  BY <1>4 DEF InToggleError, Dispatch, InReturned
<1>5. CASE InError
  BY <1>5 DEF InError, Return, InReturned
<1>6. CASE InPacket
  BY <1>6 DEF InPacket, Dispatch, InReturned, FreeFifo
<1>7. CASE InDone
  BY <1>7 DEF InDone, Return
<1>8. CASE DataRead
  BY <1>8 DEF DataRead, BeginIn, Dispatch
<1>9. CASE OutPacket
  BY <1>9 DEF OutPacket, WriteHxfr, Breakout, Dispatch, Return
<1>10. CASE OutBreak
  BY <1>10 DEF OutBreak, Breakout, Dispatch, Return
<1>11. CASE OutWait
  BY <1>11 DEF OutWait
<1>12. CASE OutRead
  BY <1>12 DEF OutRead
<1>13. CASE OutAdvance
  BY <1>13 DEF OutAdvance
<1>14. CASE OutRetry
  BY <1>14 DEF OutRetry, CountRetry, WriteHxfr
<1>15. CASE Expire
  BY <1>15 DEF Expire
<1>16. CASE BeginBulk
  BY <1>16 DEF BeginBulk, BeginIn, BeginOut, Dispatch
<1>17. CASE DataStageIn
  BY <1>17 DEF DataStageIn, BeginIn, Dispatch, SetupReturned
<1>18. CASE DataStageOut
  BY <1>18 DEF DataStageOut, BeginOut, SetupReturned
<1>19. CASE SetupFailed \/ StatusStage \/ StatusReturned
  BY <1>19 DEF SetupFailed, Return, StatusStage, Dispatch, SetupReturned, StatusReturned
<1>20. CASE NoAnswer \/ InWrongToggle \/ StatusTaken
  BY <1>20 DEF NoAnswer, Finish, InWrongToggle, StatusTaken
<1>21. ASSUME NEW h \in BOOLEAN, SetupTaken(h) PROVE NoOutToggleError'
  BY <1>21 DEF SetupTaken, Finish, Handshake
<1>22. ASSUME NEW h \in BOOLEAN, InTaken(h) PROVE NoOutToggleError'
  BY <1>22 DEF InTaken, Finish, Handshake
<1>23. ASSUME NEW h \in BOOLEAN, OutTaken(h) PROVE NoOutToggleError'
  BY <1>23 DEF OutTaken, Finish, Handshake
<1>24. ASSUME NEW c \in Calls, CallBad(c) \/ CallCtrl(c) \/ CallBulk(c) PROVE NoOutToggleError'
  BY <1>24 DEF CallBad, Enter, CallCtrl, Dispatch, CallBulk
<1>25. CASE UNCHANGED vars
  BY <1>25 DEF vars
<1>26. QED
  BY <1>1, <1>2, <1>3, <1>4, <1>5, <1>6, <1>7, <1>8, <1>9, <1>10, <1>11, <1>12, <1>13, <1>14,
     <1>15, <1>16, <1>17, <1>18, <1>19, <1>20, <1>21, <1>22, <1>23, <1>24, <1>25 DEF Next,
     Thread, Bus

(* After a packet that was acknowledged the toggles are level.             *)
LEMMA OutTogglesStayInStep ==
  ASSUME Typed, Machine, OutInStep, ~late', [Next]_vars
  PROVE  OutTogglesInStep'
<1>0. OutFacts
  BY CallsHaveOutFacts
<1> USE <1>0 DEF OutFacts, Machine, OutInStep, OutTogglesInStep, OutStages, OutStage,
        NoOutToggleError, Stages, Polling, ChipInStep, SetUp, Done, Level, Good, chip,
        toggles, buffer, loop, bounds, data, marks, ghost
<1>1. CASE Launch
  BY <1>1 DEF Launch, WriteHxfr
<1>2. CASE Wait
  BY <1>2 DEF Wait
<1>3. CASE Analyze
  BY <1>3 DEF Analyze, CountRetry, Again
<1>4. CASE InToggleError
  BY <1>4 DEF InToggleError, Dispatch, InReturned
<1>5. CASE InError
  BY <1>5 DEF InError, Return, InReturned
<1>6. CASE InPacket
  BY <1>6 DEF InPacket, Dispatch, InReturned, FreeFifo
<1>7. CASE InDone
  BY <1>7 DEF InDone, Return
<1>8. CASE DataRead
  BY <1>8 DEF DataRead, BeginIn, Dispatch
<1>9. CASE OutPacket
  BY <1>9 DEF OutPacket, WriteHxfr, Breakout, Dispatch, Return
<1>10. CASE OutBreak
  BY <1>10 DEF OutBreak, Breakout, Dispatch, Return
<1>11. CASE OutWait
  BY <1>11 DEF OutWait
<1>12. CASE OutRead
  BY <1>12 DEF OutRead
<1>13. CASE OutAdvance
  BY <1>13 DEF OutAdvance
<1>14. CASE OutRetry
  BY <1>14 DEF OutRetry, CountRetry, WriteHxfr
<1>15. CASE Expire
  BY <1>15 DEF Expire
<1>16. CASE BeginBulk
  BY <1>16 DEF BeginBulk, BeginIn, BeginOut, Dispatch
<1>17. CASE DataStageIn
  BY <1>17 DEF DataStageIn, BeginIn, Dispatch, SetupReturned
<1>18. CASE DataStageOut
  BY <1>18 DEF DataStageOut, BeginOut, SetupReturned
<1>19. CASE SetupFailed \/ StatusStage \/ StatusReturned
  BY <1>19 DEF SetupFailed, Return, StatusStage, Dispatch, SetupReturned, StatusReturned
<1>20. CASE NoAnswer \/ InWrongToggle \/ StatusTaken
  BY <1>20 DEF NoAnswer, Finish, InWrongToggle, StatusTaken
<1>21. ASSUME NEW h \in BOOLEAN, SetupTaken(h) PROVE OutTogglesInStep'
  BY <1>21 DEF SetupTaken, Finish, Handshake
<1>22. ASSUME NEW h \in BOOLEAN, InTaken(h) PROVE OutTogglesInStep'
  <2>1. dev'.outTog = dev.outTog
    BY <1>22 DEF InTaken, Acknowledged, Device
  <2>2. xfr.tok = "IN" /\ UNCHANGED <<toggles, pc, call, token, rcode, sndtog, failed>>
    BY <1>22 DEF InTaken, Finish
  <2>3. pc = "wait" /\ token = "IN"
    BY <2>2
  <2>4. QED
    BY <2>1, <2>2, <2>3
<1>23. ASSUME NEW h \in BOOLEAN, OutTaken(h) PROVE OutTogglesInStep'
  <2>1. /\ xfr.tok = "OUT" /\ UNCHANGED <<toggles, pc, call, token, rcode, failed>>
        /\ hrsl' = (IF h THEN "SUCCESS" ELSE "TIMEOUT")
        /\ sndtog' = (IF h THEN 1 - sndtog ELSE sndtog)
    BY <1>23 DEF OutTaken, Finish
  <2>2. pc = "outwait" /\ xfr.ep = call.ep /\ call.op \in {"put", "out"}
    BY <2>1
  <2>3. /\ dev'.outTog[call.ep] = IF dev.outTog[call.ep] = sndtog THEN 1 - sndtog
                                                                  ELSE dev.outTog[call.ep]
        /\ call.op = "put" => dev'.outTog["out"] = dev.outTog["out"]
    BY <1>23, <2>2 DEF OutTaken, Device
  <2>4. h => Level'
    BY <2>1, <2>3 DEF Bit
  <2>5. QED
    BY <2>1, <2>2, <2>3, <2>4
<1>24. ASSUME NEW c \in Calls, CallBad(c) \/ CallCtrl(c) \/ CallBulk(c) PROVE OutTogglesInStep'
  BY <1>24 DEF CallBad, Enter, CallCtrl, Dispatch, CallBulk
<1>25. CASE UNCHANGED vars
  BY <1>25 DEF vars
<1>26. QED
  BY <1>1, <1>2, <1>3, <1>4, <1>5, <1>6, <1>7, <1>8, <1>9, <1>10, <1>11, <1>12, <1>13, <1>14,
     <1>15, <1>16, <1>17, <1>18, <1>19, <1>20, <1>21, <1>22, <1>23, <1>24, <1>25 DEF Next,
     Thread, Bus

LEMMA PositionsGrow ==
  ASSUME NEW n \in Nat
  PROVE  /\ Positions(n) \in Seq(Int) /\ Len(Positions(n)) = n
         /\ Positions(0) = <<>>
         /\ Append(Positions(n), n * MaxPkt) = Positions(n + 1)
<1>1. MaxPkt \in Nat \ {0}
  BY PacketAssumption
<1>2. \A k \in Nat : Positions(k) \in Seq(Int) /\ Len(Positions(k)) = k
  BY <1>1 DEF Positions
<1>3. Positions(0) = <<>>
  BY <1>2, EmptySeq
<1>4. n * MaxPkt \in Int /\ ((n + 1) - 1) * MaxPkt = n * MaxPkt
  BY <1>1
<1>5. Append(Positions(n), n * MaxPkt) = Positions(n + 1)
  <2> DEFINE s == Append(Positions(n), n * MaxPkt)
             t == Positions(n + 1)
  <2>1. s \in Seq(Int) /\ t \in Seq(Int) /\ Len(s) = n + 1 /\ Len(t) = n + 1
    BY <1>2, <1>4
  <2>2. ASSUME NEW i \in 1 .. n + 1 PROVE s[i] = t[i]
    <3>1. CASE i = n + 1
      BY <1>2, <1>4, <3>1 DEF Positions
    <3>2. CASE i # n + 1
      <4>1. i \in 1 .. n /\ s[i] = Positions(n)[i]
        BY <1>2, <1>4, <3>2
      <4>2. QED
        BY <4>1 DEF Positions
    <3>3. QED
      BY <3>1, <3>2
  <2> HIDE DEF s, t
  <2>3. s = t
    BY <2>1, <2>2, SeqEqual
  <2>4. QED
    BY <2>3 DEF s, t
<1>6. QED
  BY <1>2, <1>3, <1>5

(* n packets of MaxPkt, the last one perhaps short.                        *)
LEMMA PacketsOf ==
  ASSUME NEW size \in Nat, NEW n \in Nat, (n - 1) * MaxPkt < size, size <= n * MaxPkt
  PROVE  (size + MaxPkt - 1) \div MaxPkt = n
<1> DEFINE q == (size + MaxPkt - 1) \div MaxPkt
<1>1. MaxPkt \in Nat \ {0}
  BY PacketAssumption
<1>2. q \in Int /\ q * MaxPkt <= size + MaxPkt - 1 /\ size + MaxPkt - 1 < q * MaxPkt + MaxPkt
  BY <1>1
<1> HIDE DEF q
<1>3. n * MaxPkt \in Int /\ (n - 1) * MaxPkt = n * MaxPkt - MaxPkt
  BY <1>1
<1>4. n * MaxPkt <= size + MaxPkt - 1 /\ size + MaxPkt - 1 < n * MaxPkt + MaxPkt
  BY <1>1, <1>3
<1>5. \A a, b \in Int : a + 1 <= b => a * MaxPkt + MaxPkt <= b * MaxPkt
  BY <1>1
<1>6. ~(q + 1 <= n) /\ ~(n + 1 <= q)
  BY <1>1, <1>2, <1>3, <1>4, <1>5
<1>7. QED
  BY <1>2, <1>6 DEF q

(* The packets are sent one after another, each until it is acknowledged.  *)
LEMMA SentStaysInOrder ==
  ASSUME Typed, Machine, OutInStep, ~late', [Next]_vars, SentInOrder,
         call.op \in {"put", "out"}, Good, ~overtime, ~overtime', UNCHANGED call
  PROVE  SentInOrder'
<1>0. /\ OutFacts /\ call.op # "in" /\ call.op # "get" /\ call.size \in Nat
      /\ left \in Nat /\ Count \in Nat /\ MaxPkt \in Nat \ {0} /\ ~expired
      /\ accepted = Positions(Count)
  BY CallsHaveOutFacts, CallType, PacketAssumption, WordAssumption
  DEF Typed, ThreadType, SentInOrder, OutInStep, OutStages
<1> USE <1>0 DEF bounds, data, marks, ghost, toggles, buffer
<1>1. ASSUME UNCHANGED accepted
      PROVE  /\ accepted' = Positions(Count') /\ Count' = Count /\ Count' \in Nat
             /\ AllTaken(Count)' <=> AllTaken(Count)
             /\ UNCHANGED left => (At(Count)' <=> At(Count)) /\ (At(Count - 1)' <=> At(Count - 1))
  BY <1>1 DEF AllTaken, At, Count
(* The stages around the data, and the end of the call.                    *)
<1>2. ASSUME UNCHANGED <<accepted, token>>, Polling, Polling' PROVE SentInOrder'
  BY <1>1, <1>2 DEF SentInOrder, Polling
<1>3. ASSUME UNCHANGED accepted, pc' = "idle",
             rcode' = "SUCCESS" => AllTaken(Count)
      PROVE  SentInOrder'
  BY <1>1, <1>3 DEF SentInOrder, Polling
<1>4. ASSUME UNCHANGED accepted, AllTaken(Count), pc' = "launch", token' = "HS"
      PROVE SentInOrder'
  BY <1>1, <1>4 DEF SentInOrder, Polling
<1>5. ASSUME UNCHANGED accepted, Count = 0, left' = call.size, pc' = "fill", rcode' = "SUCCESS"
      PROVE SentInOrder'
  <2>1. 0 * MaxPkt = 0 /\ (0 - 1) * MaxPkt < 0
    OBVIOUS
  <2>2. IF left' = 0 THEN AllTaken(Count)' ELSE At(Count)'
    BY <1>1, <1>5, <2>1 DEF AllTaken, At
  <2>3. QED
    BY <1>1, <1>5, <2>2 DEF SentInOrder, Polling
(* A packet goes on.                                                       *)
<1>6. ASSUME UNCHANGED <<accepted, left, dev, sndtog>>,
             pc \in {"outwait", "outread", "check"}, pc' \in {"outwait", "outread", "check"},
             Done' <=> Done
      PROVE  SentInOrder'
  BY <1>1, <1>6 DEF SentInOrder, Polling, Level
<1>7. CASE Launch \/ Wait \/ Analyze
  BY <1>2, <1>7 DEF Launch, Wait, Analyze, Polling
<1>8. CASE OutPacket
  <2>1. pc = "fill" /\ UNCHANGED accepted
    BY <1>8 DEF OutPacket
  <2>2. rcode = "SUCCESS" /\ Level
    BY <2>1 DEF SentInOrder, OutInStep, OutTogglesInStep
  <2>3. CASE left # 0
    <3>1. /\ pc' = "outwait" /\ hrsl' = "BUSY" /\ UNCHANGED <<left, dev, sndtog>>
      BY <1>8, <2>3 DEF OutPacket, WriteHxfr
    <3>2. ~Done' /\ Level' /\ At(Count)'
      BY <1>1, <2>1, <2>2, <2>3, <3>1 DEF Done, Level, SentInOrder
    <3>3. QED
      BY <1>1, <2>1, <2>3, <3>1, <3>2 DEF SentInOrder, Polling
  <2>4. CASE left = 0
    <3>1. AllTaken(Count)
      BY <2>1, <2>4 DEF SentInOrder
    <3>2. \/ pc' = "idle"
          \/ pc' = "launch" /\ token' = "HS"
      BY <1>8, <2>4 DEF OutPacket, Breakout, Return, Dispatch
    <3>3. QED
      BY <1>3, <1>4, <2>1, <3>1, <3>2
  <2>5. QED
    BY <2>3, <2>4
<1>9. CASE OutWait
  BY <1>6, <1>9 DEF OutWait, Done
<1>10. CASE OutRead
  BY <1>6, <1>10 DEF OutRead, Done, chip
<1>11. CASE OutAdvance
  <2>1. /\ pc = "check" /\ rcode = "SUCCESS" /\ pc' = "fill" /\ rcode' = "SUCCESS"
        /\ left' = left - AtMost(left, MaxPkt) /\ UNCHANGED accepted
    BY <1>11 DEF OutAdvance
  <2>2. left > 0 /\ call.size - left = (Count - 1) * MaxPkt
    BY <2>1 DEF SentInOrder, Done, At
  <2>3. (Count - 1) * MaxPkt = Count * MaxPkt - MaxPkt /\ Count * MaxPkt \in Int
    OBVIOUS
  <2>4. IF left' = 0 THEN AllTaken(Count) ELSE call.size - left' = Count * MaxPkt
    BY <2>1, <2>2, <2>3 DEF AtMost, AllTaken
  <2>5. IF left' = 0 THEN AllTaken(Count)' ELSE At(Count)'
    BY <1>1, <2>1, <2>4 DEF At
  <2>6. QED
    BY <1>1, <2>1, <2>5 DEF SentInOrder, Polling
<1>12. CASE OutRetry
  <2>1. pc = "check" /\ rcode # "SUCCESS" /\ rcode # "TOGERR" /\ UNCHANGED <<accepted, left, dev>>
    BY <1>12 DEF OutRetry, OutInStep, NoOutToggleError
  <2>2. \/ pc' = "outwait" /\ hrsl' = "BUSY" /\ UNCHANGED sndtog
        \/ pc' = "breakout"
    BY <1>12, <2>1 DEF OutRetry, WriteHxfr
  <2>3. CASE pc' = "outwait" /\ hrsl' = "BUSY" /\ UNCHANGED sndtog
    BY <1>6, <2>1, <2>3 DEF Done
  <2>4. CASE pc' = "breakout"
    BY <1>1, <2>1, <2>4 DEF SentInOrder, Polling
  <2>5. QED
    BY <2>2, <2>3, <2>4
<1>13. CASE OutBreak
  <2>1. rcode # "SUCCESS"
    BY <1>13 DEF OutBreak, OutInStep, OutStages
  <2>2. pc' = "idle" /\ rcode' # "SUCCESS" /\ UNCHANGED accepted
    BY <1>13, <2>1 DEF OutBreak, Breakout, Return
  <2>3. QED
    BY <1>3, <2>2
<1>14. CASE BeginBulk
  BY <1>5, <1>14 DEF BeginBulk, BeginOut, SentInOrder
<1>15. CASE DataStageOut
  BY <1>5, <1>15 DEF DataStageOut, SetupReturned, BeginOut, SentInOrder, Polling
<1>16. CASE SetupFailed
  BY <1>3, <1>16 DEF SetupFailed, Return
<1>17. CASE StatusReturned
  BY <1>3, <1>17 DEF StatusReturned, Return, SentInOrder, Polling
<1>18. CASE InToggleError \/ InError \/ InPacket \/ InDone \/ DataRead \/ DataStageIn \/ StatusStage
  BY <1>18 DEF InToggleError, InError, InPacket, InDone, DataRead, DataStageIn, StatusStage,
     InReturned, SetupReturned, OutInStep, OutStages, OutStage, Polling, Machine, Stages
<1>19. CASE \/ NoAnswer \/ InWrongToggle \/ StatusTaken
            \/ \E h \in BOOLEAN : SetupTaken(h) \/ InTaken(h)
  <2>1. xfr # NoXfr /\ UNCHANGED <<pc, token, rcode, accepted, left>>
    <3>1. CASE NoAnswer \/ InWrongToggle \/ StatusTaken
      BY <3>1 DEF NoAnswer, InWrongToggle, StatusTaken, Finish, OutFacts
    <3>2. ASSUME NEW h \in BOOLEAN, SetupTaken(h)
          PROVE  xfr # NoXfr /\ UNCHANGED <<pc, token, rcode, accepted, left>>
      BY <3>2 DEF SetupTaken, Finish, OutFacts
    <3>3. ASSUME NEW h \in BOOLEAN, InTaken(h)
          PROVE  xfr # NoXfr /\ UNCHANGED <<pc, token, rcode, accepted, left>>
      BY <3>3 DEF InTaken, Finish, OutFacts
    <3>4. QED
      BY <1>19, <3>1, <3>2, <3>3
  <2>2. CASE pc = "wait"
    BY <1>2, <2>1, <2>2 DEF Polling
  <2>3. CASE pc = "outwait"
    <3>1. xfr.tok = "OUT" /\ hrsl = "BUSY"
      BY <2>1, <2>3 DEF Machine, ChipInStep, OutInStep, NoOutToggleError
    <3>2. hrsl' # "SUCCESS" /\ UNCHANGED <<dev, sndtog>>
      BY <1>19, <3>1 DEF NoAnswer, InWrongToggle, StatusTaken, SetupTaken, InTaken, Finish
    <3>3. QED
      BY <1>6, <2>1, <2>3, <3>1, <3>2 DEF Done
  <2>4. QED
    BY <2>1, <2>2, <2>3 DEF Machine, ChipInStep
<1>20. ASSUME NEW h \in BOOLEAN, OutTaken(h) PROVE SentInOrder'
  <2>1. /\ xfr.tok = "OUT" /\ UNCHANGED <<pc, token, rcode, left>>
        /\ hrsl' = (IF h THEN "SUCCESS" ELSE "TIMEOUT")
        /\ sndtog' = (IF h THEN 1 - sndtog ELSE sndtog)
    BY <1>20 DEF OutTaken, Finish
  <2>2. /\ pc = "outwait" /\ xfr.ep = call.ep /\ xfr.of = calls /\ xfr.pos = call.size - left
        /\ hrsl = "BUSY"
    <3>1. xfr # NoXfr /\ pc = "outwait" /\ xfr.ep = call.ep
      BY <2>1 DEF Machine, ChipInStep, OutFacts
    <3>2. QED
      BY <3>1 DEF OutInStep, NoOutToggleError
  <2>3. left > 0 /\ ~Done /\ (Done' <=> h)
    BY <2>1, <2>2 DEF SentInOrder, Done
  <2>4. CASE Level
    <3>1. call.size - left = Count * MaxPkt /\ accepted' = Append(accepted, Count * MaxPkt)
      BY <1>20, <2>2, <2>3, <2>4 DEF OutTaken, Level, SentInOrder, At
    <3>2. accepted' = Positions(Count + 1) /\ Count' = Count + 1
      <4>0. \A n \in Nat : /\ Len(Positions(n)) = n
                          /\ Append(Positions(n), n * MaxPkt) = Positions(n + 1)
        BY PositionsGrow
      <4>1. /\ Append(Positions(Count), Count * MaxPkt) = Positions(Count + 1)
            /\ Len(Positions(Count + 1)) = Count + 1
        <5> HIDE DEF Count
        <5>1. Count \in Nat /\ Count + 1 \in Nat
          OBVIOUS
        <5>2. QED
          BY <4>0, <5>1
      <4>2. accepted' = Positions(Count + 1)
        BY <3>1, <4>1
      <4>3. QED
        BY <4>1, <4>2 DEF Count
    <3>3. At(Count - 1)'
      BY <2>1, <3>1, <3>2 DEF At
    <3>4. dev'.outTog[call.ep] = 1 - sndtog
      <4>1. dev' = [dev EXCEPT !.outTog[call.ep] = 1 - @] /\ dev \in Device /\ call.ep \in Ep
        BY <1>20, <2>2, <2>4, CallType DEF OutTaken, Level, OutFacts, Typed, ThreadType
      <4>2. QED
        BY <2>4, <4>1 DEF Level, Device
    <3>5. Done' \/ ~Level'
      <4>1. sndtog \in {0, 1} /\ UNCHANGED call
        BY DEF OutFacts, Bit
      <4>2. QED
        BY <2>1, <2>3, <3>4, <4>1 DEF Level
    <3>6. QED
      BY <2>1, <2>2, <2>3, <3>2, <3>3, <3>5 DEF SentInOrder, Polling
  <2>5. CASE ~Level
    <3>1. At(Count - 1) /\ UNCHANGED <<dev, accepted>>
      BY <1>20, <2>2, <2>3, <2>5 DEF OutTaken, Level, SentInOrder
    <3>2. At(Count - 1)' /\ (Done' \/ ~Level')
      BY <1>1, <2>1, <2>3, <2>5, <3>1 DEF Level
    <3>3. QED
      BY <1>1, <2>1, <2>2, <2>3, <3>1, <3>2 DEF SentInOrder, Polling
  <2>6. QED
    BY <2>4, <2>5
<1>21. CASE Expire
  BY <1>21 DEF Expire
<1>22. ASSUME NEW c \in Calls, CallBad(c) \/ CallCtrl(c) \/ CallBulk(c) PROVE SentInOrder'
  <2>1. CallCtrl(c) \/ CallBulk(c)
    BY <1>22 DEF CallBad, Enter
  <2>2. accepted' = <<>> /\ (pc' = "begin" \/ (pc' = "launch" /\ token' = "SETUP"))
    BY <2>1 DEF CallCtrl, CallBulk, Enter, Dispatch
  <2>3. QED
    BY <2>2, PositionsGrow DEF SentInOrder, Count, Polling
<1>23. CASE UNCHANGED vars
  <2>1. UNCHANGED <<accepted, left, dev, sndtog, pc, token, rcode, hrsl>>
    BY <1>23 DEF vars
  <2>2. QED
    BY <1>1, <2>1 DEF SentInOrder, Polling, Level, Done
<1>24. QED
  BY <1>7, <1>8, <1>9, <1>10, <1>11, <1>12, <1>13, <1>14, <1>15, <1>16, <1>17, <1>18, <1>19,
     <1>20, <1>21, <1>22, <1>23 DEF Next, Thread, Bus


LEMMA InitOutInStep == Init => OutInStep
  BY DEF Init, OutInStep, OutStages, NoOutToggleError, OutTogglesInStep, OutStage, Polling,
     Done, NoCall, NewDevice, NoXfr, Ep, Good

(* Between two beginnings of a call the call stays, and so do its faults.  *)
LEMMA CallGoesOn ==
  ASSUME Typed, Thread \/ Bus \/ Expire \/ UNCHANGED vars
  PROVE  UNCHANGED call /\ (~overtime' => ~overtime) /\ (~failed' => ~failed)
<1> USE DEF marks, ghost
<1>0. failed \in BOOLEAN /\ (overtime' = overtime \/ overtime' = TRUE)
  BY DEF Typed, Flags, Thread, Launch, Wait, Analyze, InToggleError, InError, InPacket, InDone,
     DataRead, OutPacket, OutWait, OutRead, OutAdvance, OutRetry, OutBreak, BeginBulk,
     SetupFailed, DataStageIn, DataStageOut, StatusStage, StatusReturned, Bus, NoAnswer,
     InWrongToggle, StatusTaken, SetupTaken, InTaken, OutTaken, Finish, Expire, vars
<1>1. \A r : Return(r) => (~failed' => ~failed)
  BY DEF Return
<1>2. Breakout => (~failed' => ~failed)
  BY <1>1 DEF Breakout
<1>3. CASE Launch \/ Wait \/ Analyze \/ InToggleError \/ InPacket
  BY <1>3 DEF Launch, Wait, Analyze, InToggleError, InPacket
<1>4. CASE InError \/ InDone \/ DataRead \/ SetupFailed \/ StatusReturned
  <2>1. CASE InError
    BY <1>0, <1>1, <1>2, <2>1 DEF InError
  <2>2. CASE InDone
    BY <1>0, <1>1, <1>2, <2>2 DEF InDone
  <2>3. CASE DataRead
    BY <1>0, <1>1, <1>2, <2>3 DEF DataRead
  <2>4. CASE SetupFailed
    BY <1>0, <1>1, <1>2, <2>4 DEF SetupFailed
  <2>5. CASE StatusReturned
    BY <1>0, <1>1, <1>2, <2>5 DEF StatusReturned
  <2>6. QED
    BY <1>4, <2>1, <2>2, <2>3, <2>4, <2>5
<1>5. CASE OutPacket \/ OutWait \/ OutRead \/ OutAdvance \/ OutRetry \/ OutBreak
  <2>1. CASE OutPacket
    BY <1>0, <1>1, <1>2, <2>1 DEF OutPacket
  <2>2. CASE OutWait
    BY <1>0, <1>1, <1>2, <2>2 DEF OutWait
  <2>3. CASE OutRead
    BY <1>0, <1>1, <1>2, <2>3 DEF OutRead
  <2>4. CASE OutAdvance
    BY <1>0, <1>1, <1>2, <2>4 DEF OutAdvance
  <2>5. CASE OutRetry
    BY <1>0, <1>1, <1>2, <2>5 DEF OutRetry
  <2>6. CASE OutBreak
    BY <1>0, <1>1, <1>2, <2>6 DEF OutBreak
  <2>7. QED
    BY <1>5, <2>1, <2>2, <2>3, <2>4, <2>5, <2>6
<1>6. CASE BeginBulk \/ DataStageIn \/ DataStageOut \/ StatusStage
  BY <1>6 DEF BeginBulk, DataStageIn, DataStageOut, StatusStage
<1>7. CASE Bus
  BY <1>7 DEF Bus, NoAnswer, InWrongToggle, StatusTaken, SetupTaken, InTaken, OutTaken, Finish
<1>8. CASE Expire \/ UNCHANGED vars
  BY <1>8 DEF Expire, vars
<1>9. QED
  BY <1>0, <1>3, <1>4, <1>5, <1>6, <1>7, <1>8 DEF Thread

LEMMA OutStaysInStep == Typed /\ IInv /\ (~late => OutInStep) /\ [Next]_vars
                          => (~late => OutInStep)'
<1> SUFFICES ASSUME Typed, IInv, ~late => OutInStep, [Next]_vars, ~late'
             PROVE  OutInStep'
  OBVIOUS
<1>1. Machine /\ OutInStep
  BY LateStays DEF IInv
<1>2. OutStages' /\ NoOutToggleError' /\ OutTogglesInStep'
  BY <1>1, OutStagesAreKept, NoOutToggleErrorComes, OutTogglesStayInStep
<1>3. CASE Thread \/ Bus \/ Expire \/ UNCHANGED vars
  <2>1. UNCHANGED call /\ (~overtime' => ~overtime) /\ (Good' => Good)
    BY <1>3, CallGoesOn DEF Good
  <2>2. call'.op \in {"put", "out"} /\ Good' /\ ~overtime' => SentInOrder'
    BY <1>1, <2>1, SentStaysInOrder DEF OutInStep
  <2>3. QED
    BY <1>2, <2>2 DEF OutInStep
<1>4. ASSUME NEW c \in Calls, CallBad(c) \/ CallCtrl(c) \/ CallBulk(c)
      PROVE  call'.op \in {"put", "out"} => SentInOrder'
  <2> SUFFICES ASSUME call'.op \in {"put", "out"} PROVE SentInOrder'
    OBVIOUS
  <2>1. accepted' = <<>> /\ (pc' = "begin" \/ (pc' = "launch" /\ token' = "SETUP"))
    BY <1>4 DEF CallBad, CallCtrl, CallBulk, Enter, Dispatch
  <2>2. Positions(0) = <<>>
    BY PositionsGrow
  <2>3. Count' = 0 /\ accepted' = Positions(Count')
    BY <2>1, <2>2 DEF Count
  <2>4. QED
    BY <2>1, <2>3 DEF SentInOrder, Polling
<1>5. QED
  BY <1>2, <1>3, <1>4 DEF Next, OutInStep

(* A call that reports success after sending data has delivered all of it, once and in order, for
   any lengths and any number of lost handshakes, unless the deadline passed during the call, a
   transfer ended behind its deadline, or an earlier bulk call failed (Usb.cpp 281-400). *)
THEOREM OutIsDelivered == Spec => []OutDelivered
<1>1. Init => IInv /\ (~late => OutInStep)
  BY InitInStep, InitOutInStep DEF IInv, InStep
<1>2. Typed /\ (~late => OutInStep) => OutDelivered
  <2> SUFFICES ASSUME Typed, ~late, ~overtime, OutInStep, pc = "idle", rcode = "SUCCESS",
                      call.op \in {"put", "out"}, Good
               PROVE  AllSent
    BY DEF OutDelivered, Sent, Good
  <2>1. accepted = Positions(Count) /\ Count \in Nat /\ AllTaken(Count) /\ call.size \in Nat
    BY CallType DEF OutInStep, SentInOrder, Typed, ThreadType
  <2>2. (call.size + MaxPkt - 1) \div MaxPkt = Count
    BY <2>1, PacketsOf DEF AllTaken
  <2>3. QED
    BY <2>1, <2>2 DEF AllSent, Positions
<1>3. QED
  BY <1>1, <1>2, AlwaysTyped, StaysInStep, OutStaysInStep, PTL DEF Spec

-----------------------------------------------------------------------------
(***************************************************************************)
(* A request that nothing disturbs.  As long as the request is Faultless   *)
(* every result of the chip is SUCCESS (ResultsGood), because the device   *)
(* is never asked for data that it does not have and the toggles agree     *)
(* (DataInStep).                                                           *)
(***************************************************************************)
Multiple(n, d) == \E k \in Nat : n = k * d

(* The data end in a short packet or fill the last buffer.                 *)
EndsWell  == call.size % MaxPkt # 0 \/ call.size % call.nbytes = 0
Faultless == /\ clean /\ ~late /\ call.op \in {"set", "get", "put"}
             /\ call.op = "get" => EndsWell

ResultsGood ==
  /\ ~expired
  /\ pc \in {"wait", "outwait"} => hrsl = (IF xfr = NoXfr THEN "SUCCESS" ELSE "BUSY")
  /\ pc \in {"analyze", "outread"} => hrsl = "SUCCESS"
  /\ pc \in {"returned", "read", "check", "fill", "idle"} => rcode = "SUCCESS"
  /\ pc \notin {"begin", "breakout"}

(* The device has answered.                                                *)
Answered == (pc = "wait" /\ xfr = NoXfr) \/ pc \in {"analyze", "returned"}

(* Toggles, and what is left, read, in the FIFO and still in the device;   *)
(* buffers are read whole but for the last one, and packets likewise.      *)
PollInStep ==
  /\ dev.inTog["ctrl"] = rcvtog
  /\ nread < call.nbytes /\ Multiple(nread, MaxPkt)
  /\ left > 0 /\ left = nread + InFifo + dev.rest
  /\ Multiple(call.size - left, call.nbytes)
  /\ Answered => InFifo \in 1 .. MaxPkt /\ (InFifo < MaxPkt => dev.rest = 0)
BufferInStep ==
  /\ rcvToggle["ctrl"] = dev.inTog["ctrl"]
  /\ left = nread + dev.rest /\ (dev.rest # 0 => nread = call.nbytes)
  /\ Multiple(call.size - left, call.nbytes)
DataInStep ==
  /\ pc = "wait" /\ xfr # NoXfr => xfr.size = call.size
  /\ token = "SETUP" /\ Answered => dev.rest = call.size /\ dev.inTog["ctrl"] = 1
  /\ token = "IN" /\ Polling => PollInStep
  /\ pc = "read" => BufferInStep

RequestInStep == ResultsGood /\ (call.op = "get" => DataInStep)

(* The buffer of getConfDescr holds a number of packets: bufSize is 64     *)
(* (Usb.cpp 808), and a control endpoint has packets of 8, 16, 32 or 64.   *)
WholePackets == BufSize % MaxPkt = 0

LEMMA Division ==
  ASSUME NEW n \in Nat, NEW d \in Nat \ {0}
  PROVE  /\ n % d = 0 => Multiple(n, d)
         /\ Multiple(n, d) => n % d = 0
         /\ \A r \in 0 .. d - 1 : Multiple(n - r, d) => n % d = r
<1> DEFINE q == n \div d
           m == n % d
<1>1. q \in Nat /\ m \in 0 .. d - 1 /\ n = q * d + m
  OBVIOUS
<1> HIDE DEF q, m
<1>2. \A a, b \in Int : a + 1 <= b => a * d + d <= b * d
  OBVIOUS
<1>3. \A a, b \in Int : a * d \in Int
  OBVIOUS
<1>4. ASSUME NEW r \in 0 .. d - 1, NEW k \in Nat, n - r = k * d PROVE m = r
  <2>1. q * d + m = k * d + r /\ q * d \in Int /\ k * d \in Int
    BY <1>1, <1>3, <1>4
  <2>2. ~(q + 1 <= k) /\ ~(k + 1 <= q)
    BY <1>1, <1>2, <2>1
  <2>3. q = k
    BY <1>1, <2>2
  <2>4. QED
    BY <1>1, <2>1, <2>3
<1>5. m = 0 => Multiple(n, d)
  BY <1>1, <1>3 DEF Multiple
<1>6. \A r \in 0 .. d - 1 : Multiple(n - r, d) => m = r
  BY <1>4 DEF Multiple
<1>7. Multiple(n, d) => m = 0
  <2>1. 0 \in 0 .. d - 1 /\ n - 0 = n
    OBVIOUS
  <2>2. QED
    BY <1>6, <2>1
<1>8. QED
  BY <1>5, <1>6, <1>7 DEF m

LEMMA Multiples ==
  ASSUME NEW d \in Nat \ {0}, NEW a \in Nat, NEW b \in Nat, Multiple(a, d), Multiple(b, d)
  PROVE  /\ Multiple(0, d) /\ Multiple(a + d, d) /\ Multiple(a + b, d)
         /\ a < b => a + d <= b
<1>1. PICK k \in Nat : a = k * d
  BY DEF Multiple
<1>2. PICK m \in Nat : b = m * d
  BY DEF Multiple
<1>3. 0 = 0 * d /\ (k + 1) * d = a + d /\ (k + m) * d = a + b /\ k + 1 \in Nat /\ k + m \in Nat
  BY <1>1, <1>2
<1>4. m <= k => m * d <= k * d
  <2>1. \A x, y \in Nat : x <= y => x * d <= y * d
    OBVIOUS
  <2>2. QED
    BY <2>1
<1>5. k + 1 <= m => (k + 1) * d <= m * d
  <2>1. \A x, y \in Nat : x <= y => x * d <= y * d
    OBVIOUS
  <2>2. QED
    BY <1>3, <2>1
<1>6. a < b => a + d <= b
  BY <1>1, <1>2, <1>3, <1>4, <1>5
<1>7. QED
  BY <1>3, <1>6 DEF Multiple

LEMMA GetCall ==
  ASSUME WholePackets, Typed, call.op = "get"
  PROVE  /\ call.size \in Nat \ {0} /\ call.nbytes \in Nat \ {0} /\ call.size < Word
         /\ call.ep = "ctrl"
         /\ \/ call.nbytes = call.size
            \/ Multiple(call.nbytes, MaxPkt) /\ MaxPkt <= call.nbytes
<1>1. call \in Calls \cup {NoCall} /\ MaxPkt \in Nat \ {0} /\ BufSize \in Nat \ {0}
  BY PacketAssumption DEF Typed, ThreadType
<1>2. PICK t \in Totals : call = Request("get", t, t) \/ call = Request("get", t, BufSize)
  BY <1>1 DEF Calls, NoCall, Request
<1>3. call.size = t /\ (call.nbytes = t \/ call.nbytes = BufSize) /\ call.ep = "ctrl"
  BY <1>2 DEF Request
<1>4. Multiple(BufSize, MaxPkt)
  BY <1>1, Division DEF WholePackets
<1>5. MaxPkt <= BufSize
  <2>1. Multiple(0, MaxPkt)
    BY <1>1, <1>4, Multiples
  <2>2. 0 < BufSize /\ 0 \in Nat
    BY <1>1
  <2>3. 0 + MaxPkt <= BufSize
    BY <1>1, <1>4, <2>1, <2>2, Multiples
  <2>4. QED
    BY <1>1, <2>3
<1>6. QED
  BY <1>3, <1>4, <1>5, <1>1, SizeAssumption, WordAssumption

(* As long as the program asks for data, the device has some.              *)
LEMMA NotAllRead ==
  ASSUME WholePackets, Typed, call.op = "get", EndsWell, PollInStep, InFifo = 0
  PROVE  dev.rest > 0
<1>0. /\ call.size \in Nat \ {0} /\ call.nbytes \in Nat \ {0} /\ MaxPkt \in Nat \ {0}
      /\ left \in Nat /\ nread \in Nat /\ dev.rest \in Nat
  BY GetCall, PacketAssumption, WordAssumption DEF Typed, ThreadType, ChipType, Device
<1> SUFFICES ASSUME dev.rest = 0 PROVE FALSE
  BY <1>0
<1>1. left = nread /\ nread > 0 /\ nread \in 0 .. call.nbytes - 1
  BY <1>0 DEF PollInStep
<1>2. Multiple(nread, MaxPkt) /\ Multiple(call.size - nread, call.nbytes)
  BY <1>1 DEF PollInStep
<1>3. call.size % call.nbytes = nread
  BY <1>0, <1>1, <1>2, Division
<1>4. CASE call.nbytes = call.size
  <2>1. call.size = 1 * call.size /\ 1 \in Nat
    BY <1>0
  <2>2. Multiple(call.size, call.nbytes)
    BY <1>4, <2>1 DEF Multiple
  <2>3. call.size % call.nbytes = 0
    BY <1>0, <2>2, Division
  <2>4. QED
    BY <1>1, <1>3, <2>3
<1>5. CASE Multiple(call.nbytes, MaxPkt)
  <2>1. PICK k \in Nat : call.size - nread = k * call.nbytes
    BY <1>2 DEF Multiple
  <2>2. PICK b \in Nat : call.nbytes = b * MaxPkt
    BY <1>5 DEF Multiple
  <2>3. \A x, y, z \in Nat : x * (y * z) = (x * y) * z /\ x * y \in Nat
    OBVIOUS
  <2>4. call.size - nread = (k * b) * MaxPkt /\ k * b \in Nat
    BY <1>0, <2>1, <2>2, <2>3
  <2>5. Multiple(call.size - nread, MaxPkt)
    BY <2>4 DEF Multiple
  <2>6. call.size - nread \in Nat
    BY <1>0, <2>1, <2>3
  <2>7. (call.size - nread) + nread = call.size
    BY <1>0
  <2>8. Multiple(call.size, MaxPkt)
    BY <1>0, <1>2, <2>5, <2>6, <2>7, Multiples
  <2>9. call.size % MaxPkt = 0
    BY <1>0, <2>8, Division
  <2>10. QED
    BY <1>1, <1>3, <2>9 DEF EndsWell
<1>6. QED
  BY <1>4, <1>5, GetCall

(* Between two beginnings of a call a fault is not forgotten.              *)
LEMMA FaultStays ==
  ASSUME Typed, Thread \/ Bus \/ Expire \/ UNCHANGED vars, Faultless'
  PROVE  Faultless /\ UNCHANGED call /\ ~Expire
<1>1. UNCHANGED call
  BY CallGoesOn
<1>2. ~late /\ ~late'
  <2>1. [Next]_vars
    BY DEF Next
  <2>2. QED
    BY <2>1, LateStays DEF Faultless
<1> USE DEF chip, toggles, buffer, loop, bounds, data, marks, ghost
<1>3. clean' => clean
  <2>0. clean \in BOOLEAN
    BY DEF Typed, Flags
  <2>1. CASE Thread
    BY <2>1 DEF Thread, Launch, Wait, Analyze, InToggleError, InError, InPacket, InDone,
       DataRead, OutPacket, OutWait, OutRead, OutAdvance, OutRetry, OutBreak, BeginBulk,
       SetupFailed, DataStageIn, DataStageOut, StatusStage, StatusReturned
  <2>2. CASE Bus
    <3>1. CASE NoAnswer
      BY <3>1 DEF NoAnswer
    <3>2. CASE InWrongToggle \/ StatusTaken
      BY <3>2 DEF InWrongToggle, StatusTaken
    <3>3. ASSUME NEW h \in BOOLEAN, SetupTaken(h) \/ InTaken(h) \/ OutTaken(h)
          PROVE  clean' => clean
      BY <2>0, <3>3 DEF SetupTaken, InTaken, OutTaken, Handshake
    <3>4. QED
      BY <2>2, <3>1, <3>2, <3>3 DEF Bus
  <2>3. CASE Expire \/ UNCHANGED vars
    BY <2>3 DEF Expire, vars
  <2>4. QED
    BY <2>1, <2>2, <2>3
<1>4. EndsWell' <=> EndsWell
  BY <1>1 DEF EndsWell
<1>5. clean' => ~Expire
  BY DEF Expire
<1>6. QED
  BY <1>1, <1>2, <1>3, <1>4, <1>5 DEF Faultless

(* What holds while a transfer of a request is under way.                  *)
LEMMA TransferFacts ==
  ASSUME WholePackets, Typed, Machine, Faultless, RequestInStep, xfr # NoXfr
  PROVE  /\ xfr.ep = "ctrl" /\ fifo = <<>> /\ InFifo = 0
         /\ \/ pc = "wait" /\ xfr.tok = token
            \/ pc = "outwait" /\ xfr.tok = "OUT"
         /\ xfr.tok = "IN" => /\ pc = "wait" /\ token = "IN" /\ call.op = "get"
                              /\ dev.inTog["ctrl"] = rcvtog /\ dev.rest > 0
<1>1. xfr.ep = "ctrl" /\ fifo = <<>> /\ InFifo = 0
  BY CallsHaveFacts DEF Machine, ChipInStep, FifoInStep, Faultless, CallFacts, InFifo
<1>2. \/ pc = "wait" /\ xfr.tok = token
      \/ pc = "outwait" /\ xfr.tok = "OUT"
  BY DEF Machine, ChipInStep
<1>3. ASSUME xfr.tok = "IN"
      PROVE  /\ pc = "wait" /\ token = "IN" /\ call.op = "get"
             /\ dev.inTog["ctrl"] = rcvtog /\ dev.rest > 0
  <2>1. pc = "wait" /\ token = "IN" /\ Polling
    BY <1>2, <1>3 DEF Polling
  <2>2. call.op = "get"
    BY <2>1 DEF Machine, Stages, Faultless
  <2>3. PollInStep /\ EndsWell
    BY <2>1, <2>2 DEF RequestInStep, DataInStep, Faultless
  <2>4. dev.rest > 0
    BY <1>1, <2>2, <2>3, NotAllRead
  <2>5. QED
    BY <2>1, <2>2, <2>3, <2>4 DEF PollInStep
<1>4. QED
  BY <1>1, <1>2, <1>3

(* The chip answers a request without faults with SUCCESS.                 *)
LEMMA GoodAnswer ==
  ASSUME WholePackets, Typed, Machine, Faultless, RequestInStep, Bus, Faultless'
  PROVE  /\ xfr # NoXfr /\ xfr' = NoXfr /\ hrsl' = "SUCCESS"
         /\ UNCHANGED <<toggles, pc, call, token, buffer, loop, rcode>>
         /\ \/ SetupTaken(TRUE) \/ InTaken(TRUE) \/ OutTaken(TRUE)
            \/ StatusTaken
<1>1. CASE NoAnswer
  <2>1. xfr # NoXfr /\ xfr.tok = "IN" /\ ~HasData(xfr.ep)
    BY <1>1 DEF NoAnswer, Faultless
  <2>2. QED
    BY <2>1, TransferFacts DEF HasData
<1>2. CASE InWrongToggle
  <2>1. xfr # NoXfr /\ xfr.tok = "IN" /\ dev.inTog[xfr.ep] # rcvtog
    BY <1>2 DEF InWrongToggle, NoXfr
  <2>2. QED
    BY <2>1, TransferFacts
<1>3. CASE StatusTaken
  BY <1>3 DEF StatusTaken, Finish, NoXfr
<1>4. ASSUME NEW h \in BOOLEAN, SetupTaken(h) \/ InTaken(h) \/ OutTaken(h) PROVE h = TRUE
  <2>1. clean'
    BY DEF Faultless
  <2>2. Handshake(h)
    BY <1>4 DEF SetupTaken, InTaken, OutTaken
  <2>3. QED
    BY <2>1, <2>2 DEF Handshake
<1>5. ASSUME SetupTaken(TRUE) \/ InTaken(TRUE) \/ OutTaken(TRUE)
      PROVE  /\ xfr # NoXfr /\ xfr' = NoXfr /\ hrsl' = "SUCCESS"
             /\ UNCHANGED <<toggles, pc, call, token, buffer, loop, rcode>>
  <2>1. xfr # NoXfr
    <3>1. xfr.tok # "none" => xfr # NoXfr
      BY DEF NoXfr
    <3>2. QED
      BY <1>5, <3>1 DEF SetupTaken, InTaken, OutTaken
  <2>2. xfr' = NoXfr /\ UNCHANGED <<toggles, pc, call, token, buffer, loop, rcode>>
    BY <1>5 DEF SetupTaken, InTaken, OutTaken, Finish
  <2>3. hrsl' = "SUCCESS"
    BY <1>5 DEF SetupTaken, InTaken, OutTaken, Finish
  <2>4. QED
    BY <2>1, <2>2, <2>3
<1>6. QED
  BY <1>1, <1>2, <1>3, <1>4, <1>5 DEF Bus

LEMMA ResultsStayGood ==
  ASSUME WholePackets, Typed, Machine, Faultless, RequestInStep, Faultless', UNCHANGED call,
         Thread \/ Bus \/ UNCHANGED vars
  PROVE  ResultsGood'
<1>0. /\ call.op \in {"set", "get", "put"} /\ ~expired /\ ResultsGood
      /\ (InReturned => call.op = "get" /\ fifo # <<>>)
  <2>1. ASSUME InReturned PROVE call.op = "get" /\ fifo # <<>>
    <3>1. Polling /\ token = "IN" /\ Answered
      BY <2>1 DEF InReturned, Polling, Answered
    <3>2. call.op = "get"
      BY <3>1 DEF Machine, Stages, Faultless
    <3>3. InFifo \in 1 .. MaxPkt
      BY <3>1, <3>2 DEF RequestInStep, DataInStep, PollInStep
    <3>4. QED
      BY <3>2, <3>3, PacketAssumption DEF InFifo
  <2>2. QED
    BY <2>1 DEF Faultless, RequestInStep, ResultsGood
<1> USE <1>0 DEF ResultsGood, chip, toggles, buffer, loop, bounds, data, marks, ghost
<1>1. CASE Launch
  <2>1. token # "none"
    BY DEF Typed, ThreadType
  <2>2. QED
    BY <1>1, <2>1 DEF Launch, WriteHxfr, NoXfr
<1>2. CASE Wait
  <2>1. hxfrdn /\ pc = "wait"
    BY <1>2 DEF Wait
  <2>2. xfr = NoXfr
    BY <2>1 DEF Machine, ChipInStep
  <2>3. QED
    BY <1>2, <2>1, <2>2 DEF Wait
<1>3. CASE Analyze
  BY <1>3 DEF Analyze, CountRetry, Again
<1>4. CASE InToggleError \/ InError
  <2>1. InReturned /\ rcode = "SUCCESS" /\ fifo # <<>>
    BY <1>4 DEF InToggleError, InError, InReturned
  <2>2. QED
    BY <1>4, <2>1 DEF InToggleError, InError
<1>5. CASE InPacket
  BY <1>5 DEF InPacket, Dispatch, InReturned
<1>6. CASE InDone \/ BeginBulk
  BY <1>6 DEF InDone, BeginBulk
<1>7. CASE DataRead
  BY <1>7 DEF DataRead, BeginIn, Dispatch
<1>8. CASE OutPacket
  <2>1. CASE left # 0
    BY <1>8, <2>1 DEF OutPacket, WriteHxfr, NoXfr
  <2>2. CASE left = 0
    BY <1>8, <2>2 DEF OutPacket, Breakout, Dispatch, Return
  <2>3. QED
    BY <2>1, <2>2
<1>9. CASE OutWait
  <2>1. hxfrdn /\ pc = "outwait"
    BY <1>9 DEF OutWait
  <2>2. xfr = NoXfr
    BY <2>1 DEF Machine, ChipInStep
  <2>3. QED
    BY <1>9, <2>1, <2>2 DEF OutWait
<1>10. CASE OutRead \/ OutAdvance \/ OutRetry \/ OutBreak
  BY <1>10 DEF OutRead, OutAdvance, OutRetry, OutBreak
<1>11. CASE SetupFailed \/ StatusReturned
  BY <1>11 DEF SetupFailed, StatusReturned, Return
<1>12. CASE DataStageIn \/ StatusStage
  BY <1>12 DEF DataStageIn, BeginIn, Dispatch, StatusStage
<1>13. CASE DataStageOut
  BY <1>13 DEF DataStageOut, BeginOut
<1>14. CASE Bus
  <2>1. /\ xfr # NoXfr /\ xfr' = NoXfr /\ hrsl' = "SUCCESS"
        /\ UNCHANGED <<pc, expired, rcode>>
    BY <1>14, GoodAnswer
  <2>2. pc \in {"wait", "outwait"}
    BY <2>1 DEF Machine, ChipInStep
  <2>3. QED
    BY <2>1, <2>2
<1>15. CASE UNCHANGED vars
  BY <1>15 DEF vars
<1>16. QED
  BY <1>1, <1>2, <1>3, <1>4, <1>5, <1>6, <1>7, <1>8, <1>9, <1>10, <1>11, <1>12, <1>13, <1>14,
     <1>15 DEF Thread

(* A packet comes from the device into the FIFO.                           *)
LEMMA PacketComes ==
  ASSUME WholePackets, Typed, Machine, Faultless, RequestInStep, call.op = "get",
         UNCHANGED <<call, pc, token, left, nread>>, xfr # NoXfr, InTaken(TRUE)
  PROVE  pc' = "wait" /\ PollInStep'
<1>1. /\ pc = "wait" /\ token = "IN" /\ fifo = <<>> /\ InFifo = 0 /\ dev.rest > 0
      /\ xfr.ep = "ctrl" /\ Polling
  BY TransferFacts DEF InTaken, Polling
<1>2. PollInStep
  BY <1>1 DEF RequestInStep, DataInStep
<1>3. /\ dev \in Device /\ dev.rest \in Nat /\ MaxPkt \in Nat \ {0} /\ "ctrl" \in Ep
      /\ left \in Nat /\ nread \in Nat /\ rcvtog \in Bit
  BY PacketAssumption, WordAssumption DEF Typed, ChipType, ThreadType, Device, Ep
<1> DEFINE p == Packet("ctrl")
<1>4. p.len = AtMost(dev.rest, MaxPkt)
  BY DEF Packet
<1>5. p.len \in 1 .. MaxPkt /\ (p.len < MaxPkt => p.len = dev.rest)
  BY <1>1, <1>3, <1>4 DEF AtMost
<1>6. fifo' = <<p>> /\ rcvtog' = 1 - rcvtog /\ dev' = Acknowledged("ctrl")
  BY <1>1 DEF InTaken
<1> HIDE DEF p
<1>7. InFifo' = p.len
  BY <1>6 DEF InFifo
<1>8. dev'.rest = dev.rest - p.len /\ dev'.inTog["ctrl"] = 1 - dev.inTog["ctrl"]
  BY <1>3, <1>6 DEF Acknowledged, Device, p
<1>9. dev'.inTog["ctrl"] = rcvtog'
  BY <1>2, <1>6, <1>8 DEF PollInStep
<1>10. left' = nread' + InFifo' + dev'.rest
  BY <1>1, <1>2, <1>3, <1>5, <1>7, <1>8 DEF PollInStep
<1>11. InFifo' \in 1 .. MaxPkt /\ (InFifo' < MaxPkt => dev'.rest = 0)
  BY <1>3, <1>5, <1>7, <1>8
<1>12. QED
  BY <1>1, <1>2, <1>9, <1>10, <1>11 DEF PollInStep

(* InPacket takes it from the FIFO, untrimmed.                             *)
LEMMA PacketFits ==
  ASSUME WholePackets, Typed, Machine, Faultless, RequestInStep, call.op = "get",
         UNCHANGED call, InPacket
  PROVE  IF pc' = "read" THEN BufferInStep' ELSE PollInStep' /\ ~Answered'
<1>1. /\ InReturned /\ fifo # <<>> /\ Polling /\ Answered /\ token = "IN" /\ xfr = NoXfr
      /\ Len(fifo) = 1
  BY DEF InPacket, InReturned, Polling, Answered, Machine, FifoInStep
<1>2. PollInStep /\ InFifo \in 1 .. MaxPkt /\ (InFifo < MaxPkt => dev.rest = 0)
  BY <1>1 DEF RequestInStep, DataInStep, PollInStep
<1>3. /\ call.size \in Nat \ {0} /\ call.nbytes \in Nat \ {0} /\ MaxPkt \in Nat \ {0}
      /\ left \in Nat /\ nread \in Nat /\ dev.rest \in Nat /\ fifo \in Seq(Pkt)
      /\ rcvToggle \in [Ep -> Bit] /\ "ctrl" \in Ep /\ call.ep = "ctrl"
  BY GetCall, PacketAssumption, WordAssumption
  DEF Typed, ChipType, ThreadType, Device, Ep
<1>4. /\ nread < call.nbytes /\ Multiple(nread, MaxPkt) /\ left > 0
      /\ left = nread + InFifo + dev.rest /\ Multiple(call.size - left, call.nbytes)
      /\ dev.inTog["ctrl"] = rcvtog
  BY <1>2 DEF PollInStep
<1>5. left <= call.size
  <2>1. PICK k \in Nat : call.size - left = k * call.nbytes
    BY <1>4 DEF Multiple
  <2>2. k * call.nbytes \in Nat
    BY <1>3
  <2>3. QED
    BY <1>3, <2>1, <2>2
(* The room in the buffer.                                                 *)
<1>6. IF call.nbytes = call.size THEN InFifo <= call.nbytes
                                 ELSE nread + MaxPkt <= call.nbytes
  <2>1. CASE call.nbytes = call.size
    BY <1>2, <1>3, <1>4, <1>5, <2>1
  <2>2. CASE call.nbytes # call.size
    <3>1. Multiple(call.nbytes, MaxPkt)
      BY <2>2, GetCall
    <3>2. nread + MaxPkt <= call.nbytes
      BY <1>3, <1>4, <3>1, Multiples
    <3>3. QED
      BY <2>2, <3>2
  <2>3. QED
    BY <2>1, <2>2
<1>7. Head(fifo).len = InFifo
  BY <1>1, <1>3 DEF InFifo
<1>8. PktSize = InFifo
  BY <1>2, <1>3, <1>6, <1>7 DEF PktSize, AtMost
<1>9. fifo' = <<>>
  <2>1. Tail(fifo) \in Seq(Pkt) /\ Len(Tail(fifo)) = 0
    BY <1>1, <1>3
  <2>2. QED
    BY <2>1, EmptySeq DEF InPacket, FreeFifo
<1>10. InFifo' = 0 /\ nread' = nread + InFifo /\ UNCHANGED <<left, dev, rcvtog, xfr>>
  BY <1>8, <1>9 DEF InPacket, InFifo
<1>11. left' = nread' + InFifo' + dev'.rest
  BY <1>2, <1>3, <1>4, <1>10
<1>12. CASE Complete
  <2>1. pc' = "read" /\ rcvToggle' = [rcvToggle EXCEPT !["ctrl"] = rcvtog]
    BY <1>3, <1>12 DEF InPacket
  <2>2. rcvToggle'["ctrl"] = rcvtog
    BY <1>3, <2>1
  <2>3. InFifo < MaxPkt \/ nread + InFifo >= call.nbytes
    BY <1>8, <1>12 DEF Complete
  <2>4. dev.rest # 0 => nread' = call.nbytes
    BY <1>2, <1>3, <1>4, <1>5, <1>6, <1>10, <2>3
  <2>5. left' = nread' + dev'.rest
    BY <1>2, <1>3, <1>10, <1>11
  <2>6. QED
    BY <1>4, <1>10, <2>1, <2>2, <2>4, <2>5 DEF BufferInStep
<1>13. CASE ~Complete
  <2>1. pc' = "launch"
    BY <1>13 DEF InPacket, Dispatch
  <2>2. InFifo = MaxPkt /\ nread' < call.nbytes
    BY <1>2, <1>3, <1>8, <1>10, <1>13 DEF Complete
  <2>3. Multiple(nread', MaxPkt)
    BY <1>3, <1>4, <1>10, <2>2, Multiples
  <2>4. ~Answered'
    BY <2>1 DEF Answered
  <2>5. QED
    BY <1>4, <1>10, <1>11, <2>1, <2>2, <2>3, <2>4 DEF PollInStep
<1>14. QED
  BY <1>12, <1>13

(* DataRead begins the next buffer only when the last one was filled.      *)
LEMMA BufferFollows ==
  ASSUME WholePackets, Typed, Machine, Faultless, RequestInStep, call.op = "get",
         UNCHANGED call, DataRead
  PROVE  pc' = "launch" /\ (token' = "IN" => PollInStep')
<1>1. pc = "read" /\ fifo = <<>> /\ BufferInStep
  BY DEF DataRead, RequestInStep, DataInStep, Machine, FifoInStep
<1>2. /\ call.size \in Nat \ {0} /\ call.nbytes \in Nat \ {0} /\ MaxPkt \in Nat \ {0}
      /\ left \in 0 .. Word - 1 /\ nread \in Nat /\ dev.rest \in Nat /\ Word \in Nat \ {0}
      /\ call.ep = "ctrl"
  BY GetCall, PacketAssumption, WordAssumption DEF Typed, ChipType, ThreadType, Device
<1>3. left - nread \in 0 .. Word - 1 /\ left - nread = dev.rest
  BY <1>1, <1>2 DEF BufferInStep
<1>4. LeftAfter = dev.rest
  <2>1. \A x \in 0 .. Word - 1 : x % Word = x
    BY <1>2
  <2>2. QED
    BY <1>3, <2>1 DEF LeftAfter
<1>5. pc' = "launch" /\ left' = dev.rest /\ UNCHANGED <<dev, rcvToggle>>
  BY <1>4 DEF DataRead, BeginIn, Dispatch, toggles
<1>6. ASSUME token' = "IN" PROVE PollInStep'
  <2>1. dev.rest # 0 /\ BeginIn(rcvToggle)
    BY <1>4, <1>6 DEF DataRead, Dispatch
  <2>2. nread' = 0 /\ rcvtog' = rcvToggle["ctrl"] /\ UNCHANGED fifo
    BY <1>2, <2>1 DEF BeginIn
  <2>3. InFifo' = 0 /\ ~Answered'
    BY <1>1, <1>5, <2>2 DEF InFifo, Answered
  <2>4. nread = call.nbytes /\ Multiple(call.size - left, call.nbytes) /\ call.size - left \in Int
    BY <1>1, <1>2, <2>1 DEF BufferInStep
  <2>5. Multiple(call.size - left', call.nbytes)
    <3>1. PICK k \in Nat : call.size - left = k * call.nbytes
      BY <2>4 DEF Multiple
    <3>2. (k + 1) * call.nbytes = k * call.nbytes + call.nbytes /\ k + 1 \in Nat
      BY <1>2
    <3>3. call.size - left' = (k + 1) * call.nbytes
      BY <1>2, <1>3, <1>5, <2>4, <3>1, <3>2
    <3>4. QED
      BY <3>2, <3>3 DEF Multiple
  <2>6. Multiple(0, MaxPkt)
    <3>1. 0 = 0 * MaxPkt
      BY <1>2
    <3>2. QED
      BY <3>1 DEF Multiple
  <2>7. left' > 0 /\ left' = nread' + InFifo' + dev'.rest /\ nread' < call.nbytes
    BY <1>2, <1>5, <2>1, <2>2, <2>3
  <2>8. dev'.inTog["ctrl"] = rcvtog'
    BY <1>1, <1>5, <2>2 DEF BufferInStep
  <2>9. QED
    BY <2>2, <2>3, <2>5, <2>6, <2>7, <2>8 DEF PollInStep
<1>7. QED
  BY <1>5, <1>6

LEMMA DataStaysInStep ==
  ASSUME WholePackets, Typed, Machine, Faultless, RequestInStep, Faultless', UNCHANGED call,
         call.op = "get", Thread \/ Bus \/ UNCHANGED vars
  PROVE  DataInStep'
<1> USE DEF chip, toggles, buffer, loop, bounds, data, marks, ghost
<1>0. DataInStep /\ ResultsGood
  BY DEF RequestInStep
(* The stages without data, and the bus at rest.                           *)
<1>1. ASSUME pc' \notin {"launch", "wait", "analyze", "returned", "read"} PROVE DataInStep'
  BY <1>1 DEF DataInStep, Polling, Answered
<1>2. ASSUME pc' # "read", token' = "HS", pc' = "wait" => xfr' = NoXfr PROVE DataInStep'
  BY <1>2 DEF DataInStep
<1>3. ASSUME pc' = "launch", token' = "SETUP" PROVE DataInStep'
  BY <1>3 DEF DataInStep, Answered
<1>4. ASSUME UNCHANGED <<token, left, nread, fifo, dev, rcvtog>>, Polling, Polling',
             Answered' => Answered, pc' = "wait" /\ xfr' # NoXfr => xfr'.size = call.size
      PROVE  DataInStep'
  <2>1. token = "IN" => PollInStep'
    BY <1>0, <1>4 DEF DataInStep, PollInStep, InFifo
  <2>2. pc' # "read"
    BY <1>4 DEF Polling
  <2>3. QED
    BY <1>0, <1>4, <2>1, <2>2 DEF DataInStep
<1>5. ASSUME PollInStep', Polling', token' = "IN", pc' = "wait" => xfr' = NoXfr
      PROVE  DataInStep'
  BY <1>5 DEF DataInStep, Polling
<1>6. CASE Launch
  <2>1. Polling /\ Polling' /\ UNCHANGED <<token, left, nread, fifo, dev, rcvtog>>
    BY <1>6 DEF Launch, WriteHxfr, Polling
  <2>2. pc' = "wait" /\ xfr'.size = call.size
    BY <1>0, <1>6 DEF Launch, WriteHxfr, ResultsGood
  <2>3. xfr'.tok = token /\ token # "none"
    BY <1>0, <1>6 DEF Launch, WriteHxfr, ResultsGood, Typed, ThreadType
  <2>4. ~Answered'
    BY <2>2, <2>3 DEF Answered, NoXfr
  <2>5. QED
    BY <1>4, <2>1, <2>2, <2>4
<1>7. CASE Wait
  <2>1. pc = "wait" /\ hxfrdn /\ pc' = "analyze"
    BY <1>0, <1>7 DEF Wait, ResultsGood
  <2>2. xfr = NoXfr
    BY <2>1 DEF Machine, ChipInStep
  <2>3. QED
    BY <1>4, <1>7, <2>1, <2>2 DEF Wait, Polling, Answered
<1>8. CASE Analyze
  <2>1. pc' = "returned"
    BY <1>0, <1>8 DEF Analyze, Again, ResultsGood
  <2>2. QED
    BY <1>4, <1>8, <2>1 DEF Analyze, Polling, Answered
<1>9. CASE InToggleError
  <2>1. rcode = "SUCCESS"
    BY <1>0, <1>9 DEF InToggleError, InReturned, ResultsGood
  <2>2. QED
    BY <1>9, <2>1 DEF InToggleError
<1>10. CASE InError \/ SetupFailed \/ StatusReturned
  BY <1>1, <1>10 DEF InError, SetupFailed, StatusReturned, Return
<1>11. CASE InPacket
  <2>1. IF pc' = "read" THEN BufferInStep' ELSE PollInStep' /\ ~Answered'
    BY <1>11, PacketFits
  <2>2. pc' = "read" \/ (pc' = "launch" /\ token' = "IN")
    BY <1>11 DEF InPacket, Dispatch
  <2>3. CASE pc' = "read"
    BY <2>1, <2>3 DEF DataInStep, Polling, Answered
  <2>4. CASE pc' = "launch" /\ token' = "IN"
    BY <1>5, <2>1, <2>4 DEF Polling
  <2>5. QED
    BY <2>2, <2>3, <2>4
<1>12. CASE InDone
  BY <1>12 DEF InDone
<1>13. CASE DataRead
  <2>1. pc' = "launch" /\ (token' = "IN" => PollInStep')
    BY <1>13, BufferFollows
  <2>2. token' = "IN" \/ token' = "HS"
    BY <1>13 DEF DataRead, BeginIn, Dispatch
  <2>3. QED
    BY <1>2, <1>5, <2>1, <2>2 DEF Polling
<1>14. CASE OutPacket \/ OutWait \/ OutRead \/ OutAdvance \/ OutRetry \/ OutBreak
  <2>1. CASE OutPacket
    BY <1>1, <2>1 DEF OutPacket, Breakout, Return
  <2>2. CASE OutWait \/ OutRead \/ OutAdvance
    BY <1>1, <2>2 DEF OutWait, OutRead, OutAdvance
  <2>3. CASE OutRetry
    BY <1>1, <2>3 DEF OutRetry
  <2>4. CASE OutBreak
    BY <1>1, <2>4 DEF OutBreak, Breakout, Return
  <2>5. QED
    BY <1>14, <2>1, <2>2, <2>3, <2>4
<1>15. CASE BeginBulk
  BY <1>0, <1>15 DEF BeginBulk, ResultsGood
<1>16. CASE DataStageIn
  <2>1. /\ pc = "returned" /\ token = "SETUP" /\ Answered /\ fifo = <<>>
    BY <1>16 DEF DataStageIn, SetupReturned, Answered, Machine, FifoInStep
  <2>2. dev.rest = call.size /\ dev.inTog["ctrl"] = 1
    BY <1>0, <2>1 DEF DataInStep
  <2>3. /\ call.size \in Nat \ {0} /\ call.nbytes \in Nat \ {0} /\ MaxPkt \in Nat \ {0}
        /\ rcvToggle \in [Ep -> Bit] /\ "ctrl" \in Ep /\ call.ep = "ctrl"
    BY GetCall, PacketAssumption DEF Typed, ChipType, Ep
  <2>4. /\ left' = call.size /\ nread' = 0 /\ pc' = "launch" /\ token' = "IN"
        /\ UNCHANGED <<dev, fifo>> /\ rcvtog' = 1
    BY <1>16, <2>3 DEF DataStageIn, BeginIn, Dispatch
  <2>5. InFifo' = 0 /\ ~Answered'
    BY <2>1, <2>4 DEF InFifo, Answered
  <2>6. Multiple(0, MaxPkt) /\ Multiple(0, call.nbytes)
    <3>1. 0 = 0 * MaxPkt /\ 0 = 0 * call.nbytes
      BY <2>3
    <3>2. QED
      BY <3>1 DEF Multiple
  <2>7. left' > 0 /\ left' = nread' + InFifo' + dev'.rest /\ nread' < call.nbytes
        /\ call.size - left' = 0
    BY <2>2, <2>3, <2>4, <2>5
  <2>8. PollInStep'
    BY <2>2, <2>4, <2>5, <2>6, <2>7 DEF PollInStep
  <2>9. QED
    BY <1>5, <2>4, <2>8 DEF Polling
<1>17. CASE DataStageOut
  BY <1>1, <1>17 DEF DataStageOut, BeginOut
<1>18. CASE StatusStage
  BY <1>2, <1>18 DEF StatusStage, Dispatch
<1>19. CASE Bus
  <2>1. /\ xfr # NoXfr /\ xfr' = NoXfr /\ UNCHANGED <<pc, call, token, left, nread>>
        /\ SetupTaken(TRUE) \/ InTaken(TRUE) \/ OutTaken(TRUE) \/ StatusTaken
    BY <1>19, GoodAnswer
  <2>2. /\ xfr.ep = "ctrl"
        /\ \/ pc = "wait" /\ xfr.tok = token
           \/ pc = "outwait" /\ xfr.tok = "OUT"
    BY <2>1, TransferFacts
  <2>3. CASE SetupTaken(TRUE)
    <3>1. pc = "wait" /\ token = "SETUP" /\ xfr.size = call.size
      BY <1>0, <2>1, <2>2, <2>3 DEF SetupTaken, DataInStep
    <3>2. dev'.rest = xfr.size /\ dev'.inTog["ctrl"] = 1
      <4>1. dev \in Device /\ "ctrl" \in Ep
        BY DEF Typed, ChipType, Ep
      <4>2. QED
        BY <2>3, <4>1 DEF SetupTaken, Device
    <3>3. QED
      BY <2>1, <3>1, <3>2 DEF DataInStep
  <2>4. CASE InTaken(TRUE)
    <3>1. pc' = "wait" /\ PollInStep'
      BY <2>1, <2>4, PacketComes
    <3>2. token = "IN"
      BY <2>2, <2>4 DEF InTaken
    <3>3. QED
      BY <1>5, <2>1, <3>1, <3>2 DEF Polling
  <2>5. CASE OutTaken(TRUE)
    <3>1. pc = "outwait"
      BY <2>2, <2>5 DEF OutTaken, Typed, ThreadType
    <3>2. QED
      BY <1>1, <2>1, <3>1
  <2>6. CASE StatusTaken
    <3>1. pc = "wait" /\ token = "HS"
      BY <2>2, <2>6 DEF StatusTaken
    <3>2. QED
      BY <1>2, <2>1, <3>1
  <2>7. QED
    BY <2>1, <2>3, <2>4, <2>5, <2>6
<1>20. CASE UNCHANGED vars
  <2>1. UNCHANGED <<pc, xfr, token, dev, rcvtog, nread, left, fifo, rcvToggle>>
    BY <1>20 DEF vars
  <2>2. QED
    BY <1>0, <2>1 DEF DataInStep, PollInStep, BufferInStep, Answered, Polling, InFifo
<1>21. QED
  BY <1>6, <1>7, <1>8, <1>9, <1>10, <1>11, <1>12, <1>13, <1>14, <1>15, <1>16, <1>17, <1>18,
     <1>19, <1>20 DEF Thread

LEMMA RequestStaysInStep ==
  ASSUME WholePackets
  PROVE  Typed /\ IInv /\ (Faultless => RequestInStep) /\ [Next]_vars
           => (Faultless => RequestInStep)'
<1> SUFFICES ASSUME Typed, IInv, Faultless => RequestInStep, [Next]_vars, Faultless'
             PROVE  RequestInStep'
  OBVIOUS
<1>1. CASE Thread \/ Bus \/ Expire \/ UNCHANGED vars
  <2>1. Faultless /\ UNCHANGED call /\ (Thread \/ Bus \/ UNCHANGED vars)
    BY <1>1, FaultStays
  <2>2. Machine /\ RequestInStep
    BY <2>1 DEF IInv, Faultless
  <2>3. ResultsGood'
    BY <2>1, <2>2, ResultsStayGood
  <2>4. call.op = "get" => DataInStep'
    BY <2>1, <2>2, DataStaysInStep
  <2>5. QED
    BY <2>1, <2>3, <2>4 DEF RequestInStep
<1>2. ASSUME NEW c \in Calls, CallBad(c) \/ CallCtrl(c) \/ CallBulk(c) PROVE RequestInStep'
  <2>1. call' = c /\ c.op \in {"set", "get", "put"}
    BY <1>2 DEF CallBad, CallCtrl, CallBulk, Enter, Faultless
  <2>2. pc' = "launch" /\ token' = "SETUP" /\ expired' = FALSE
    BY <1>2, <2>1 DEF CallBad, CallCtrl, CallBulk, Dispatch
  <2>3. QED
    BY <2>2 DEF RequestInStep, ResultsGood, DataInStep, Answered
<1>3. QED
  BY <1>1, <1>2 DEF Next

(* A request without any fault on the bus succeeds, whatever happened to the calls before it, if
   its data end in a short packet or fill the last buffer (Usb.cpp 78-167, 190-263, 281-400).
   WholePackets cannot be left out: data of three packets fill two buffers of a packet and a half
   each, but InTransfer takes two packets into the first and asks for a fourth. *)
THEOREM CleanSucceeds ==
  ASSUME WholePackets
  PROVE  Spec => []CleanRequestSucceeds
<1>1. Init => IInv /\ (Faultless => RequestInStep)
  BY InitInStep DEF IInv, InStep, Init, Faultless, NoCall
<1>2. Typed /\ (Faultless => RequestInStep) => CleanRequestSucceeds
  <2> SUFFICES ASSUME Typed, Faultless => RequestInStep, pc = "idle", clean, ~late,
                      call.op \in {"set", "get", "put"}, rcode # "SUCCESS"
               PROVE  call.size % MaxPkt = 0 /\ call.size % call.nbytes # 0
    BY DEF CleanRequestSucceeds
  <2>1. ~Faultless
    BY DEF RequestInStep, ResultsGood
  <2>2. QED
    BY <2>1 DEF Faultless, EndsWell
<1>3. Typed /\ IInv /\ (Faultless => RequestInStep) /\ [Next]_vars
        => (Faultless => RequestInStep)'
  BY RequestStaysInStep
<1>4. QED
  BY <1>1, <1>2, <1>3, AlwaysTyped, StaysInStep, PTL DEF Spec
=============================================================================
