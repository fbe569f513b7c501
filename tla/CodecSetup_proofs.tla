-------------------------- MODULE CodecSetup_proofs --------------------------
(* Proofs about CodecSetup, for any accesses, any number of tries and of       *)
(* faults, and any depth of the FIFOs.                                         *)
(*                                                                             *)
(* The argument counts the commands of a transaction: the driver has written   *)
(* Written of them, the core has Eaten of these, and until an error empties    *)
(* the FIFOs the state of the core says how many that are and what the codec   *)
(* has seen of them.                                                           *)
EXTENDS CodecSetup, SequenceTheorems, TLAPS

Reg     == Calls[call].reg
Data    == Calls[call].data
Size    == IF Read THEN 2 ELSE 4
Total   == IF Read THEN 6 ELSE 5
Written == IF phase = "rx" THEN 3 + sent ELSE sent
Eaten   == Written - Len(txf)
Got     == nread + Len(rxf)

(* TypeOK in parts.                                                            *)
DriverType ==
  /\ call \in 1..Len(Calls) /\ pc \in Steps /\ phase \in {"tx", "rx"}
  /\ sent \in 0..Size + 1 /\ nread \in 0..Size
  /\ status \in Status /\ tries \in 1..Retries
  /\ buffer \in Seq(Byte) /\ Len(buffer) = Size /\ spoilt \in BOOLEAN
CoreType ==
  /\ en \in BOOLEAN /\ fsm \in States /\ cmd \in Cmd /\ dir \in {ToCodec, FromCodec}
  /\ txf \in Seq(Cmd) /\ Len(txf) <= Depth /\ rxf \in Seq(Byte) /\ Len(rxf) <= Depth
  /\ nack \in BOOLEAN /\ arb \in BOOLEAN
CodecType ==
  /\ bus \in {"free", "ours", "others"}
  /\ taken \in Seq(Byte) /\ Len(taken) <= 4 /\ given \in 0..2 /\ ptr \in [1..2 -> Byte]
  /\ regs \in [Names -> Values] /\ faults \in 0..MaxFaults
Typed == DriverType /\ CoreType /\ CodecType

(* Where the driver stands.                                                    *)
Fresh   == pc \in {"enable", "clear"}
Success == status = "SUCCESS"
Away    == fsm \in {"GEN_STOP", "PRE_IDLE", "IDLE"}

DriverInStep ==
  /\ Fresh => phase = "tx" /\ sent = 0
  /\ phase = "rx" => Read
  /\ phase = "tx" => nread = 0 /\ (~spoilt /\ pc # "done" => buffer = Asked)
  /\ ~Read => buffer = Asked /\ ~spoilt
  /\ pc = "write" => sent < Size + 1
  /\ pc \in {"check nack", "check arb"} => sent > 0
  /\ pc = "available" => phase = "rx" /\ sent > 1 /\ sent < 3
  /\ pc = "read" => phase = "rx" /\ sent = 3
  /\ en <=> pc \in {"clear", "write", "check nack", "check arb", "available", "read", "idle",
                     "finish"}

StatusInStep ==
  /\ pc \in {"clear", "write", "check nack", "available", "read", "return"} => Success
  /\ pc = "check arb" => status \in {"SUCCESS", "NACK"}
  /\ status # "BUSY"
  /\ status = "NACK" => nack
  /\ status = "ARB_LOST" => arb
  /\ pc = "enable" /\ status = "TIMEOUT" => FALSE
  /\ pc \in {"idle", "finish", "retry", "return"} /\ Success =>
       Written = Total /\ (Read => nread = 2)
  /\ pc \in {"finish", "retry", "return"} /\ Success => Idle
  /\ pc \in {"retry", "return"} /\ Success => ~nack

(* The core behind an error and before the first command.                      *)
CoreInStep ==
  /\ Flush \/ Fresh => txf = <<>> /\ rxf = <<>> /\ (Away \/ (pc = "clear" /\ fsm = "PRE_START"))
  /\ pc = "enable" => fsm # "PRE_START"
  /\ Idle => txf = <<>>
  /\ fsm = "IDLE" => ~en
  /\ ~Read => rxf = <<>>

(* The ith command of the transaction.                                         *)
Is(i, c) ==
  /\ (c.restart <=> Read /\ i = 4)
  /\ (c.stop <=> i = Total)
  /\ c.byte \in (IF i = 1 THEN {ToCodec} ELSE IF Read /\ i = 4 THEN {FromCodec}
                 ELSE IF Read /\ i > 4 THEN {Fetch} ELSE Byte)
  /\ ~spoilt /\ i \in 2..Size + 1 => c.byte = Asked[i - 1]

Running == ~Flush /\ ~Fresh

(* What the core has of the transaction.                                       *)
CommandsInStep ==
  Running =>
    /\ Eaten \in 0..Total
    /\ \A k \in 1..Len(txf) : Is(Eaten + k, txf[k])
    /\ fsm \in {"ADDR", "TX_BYTE", "RX_BYTE", "RX_ACK"} => Is(Eaten, cmd)

StatesInStep ==
  Running =>
    /\ Away => Eaten \in {0, Total}
    /\ fsm = "PRE_START" => Eaten = 0
    /\ fsm = "ADDR" => Eaten = 1 \/ (Read /\ Eaten = 4)
    /\ fsm = "HOLD" => /\ Eaten \in 1..4
                       /\ dir = IF Read /\ Eaten = 4 THEN FromCodec ELSE ToCodec
    /\ fsm = "TX_BYTE" => Eaten \in 2..Size + 1 /\ dir = ToCodec
    /\ fsm \in {"RX_BYTE", "RX_ACK"} => Read /\ Eaten \in 5..6 /\ dir = FromCodec

(* What the codec has of it.                                                   *)
CodecInStep ==
  Running =>
    /\ fsm = "HOLD" /\ dir = ToCodec => Len(taken) = Eaten - 1
    /\ fsm = "TX_BYTE" => Len(taken) = Eaten - 2
    /\ ~spoilt /\ fsm \in {"HOLD", "TX_BYTE"} => \A k \in 1..Len(taken) : taken[k] = Asked[k]
    /\ ~spoilt /\ (Eaten > 3 \/ (Eaten = 3 /\ fsm = "HOLD")) => ptr = Bytes(Reg)
    /\ fsm = "HOLD" /\ dir = FromCodec => given = 0
    /\ fsm = "RX_BYTE" => given = Eaten - 5
    /\ fsm = "RX_ACK" => given = Eaten - 4
    /\ ~Read /\ Eaten = 5 /\ Away => regs[Reg] = Data

(* What the driver has of what the codec gave.                                 *)
FetchedInStep ==
  Running /\ Success =>
    /\ Got <= 2
    /\ Eaten <= 4 => Got = 0
    /\ fsm = "RX_BYTE" \/ (fsm = "RX_ACK" /\ Eaten = 5) => Got = given
BytesInStep ==
  phase = "rx" /\ Success /\ ~spoilt =>
    /\ \A k \in 1..nread : buffer[k] = <<k, regs[Reg]>>
    /\ \A k \in 1..Len(rxf) : rxf[k] = <<nread + k, regs[Reg]>>

IInv == /\ DriverInStep /\ StatusInStep /\ CoreInStep /\ CommandsInStep
        /\ StatesInStep /\ CodecInStep /\ FetchedInStep /\ BytesInStep

-----------------------------------------------------------------------------
(* Data.                                                                       *)
LEMMA Positive == \A n \in Nat : n + 1 \in Nat /\ n + 1 > 0
  OBVIOUS

LEMMA Joined ==
  ASSUME NEW S, NEW s \in Seq(S), NEW t \in Seq(S)
  PROVE  /\ s \o t \in Seq(S) /\ Len(s \o t) = Len(s) + Len(t)
         /\ \A i \in 1..Len(s) : (s \o t)[i] = s[i]
         /\ \A i \in 1..Len(t), j \in Nat : j = Len(s) + i => (s \o t)[j] = t[i]
<1>1. /\ s \o t \in Seq(S) /\ Len(s \o t) = Len(s) + Len(t)
  BY ConcatProperties
<1>2. \A i \in 1..Len(s) + Len(t) : (s \o t)[i] = IF i <= Len(s) THEN s[i] ELSE t[i - Len(s)]
  BY ConcatProperties
<1>3. Len(s) \in Nat /\ Len(t) \in Nat
  BY LenProperties
<1>4. ASSUME NEW i \in 1..Len(t), NEW j \in Nat, j = Len(s) + i PROVE (s \o t)[j] = t[i]
  <2>1. j \in 1..Len(s) + Len(t) /\ ~(j <= Len(s)) /\ j - Len(s) = i
    BY <1>3, <1>4
  <2>2. QED
    BY <1>2, <2>1
<1>5. \A i \in 1..Len(s) : (s \o t)[i] = s[i]
  BY <1>2, <1>3
<1>6. QED
  BY <1>1, <1>4, <1>5

LEMMA CallFacts ==
  ASSUME NEW c \in 1..Len(Calls)
  PROVE  /\ Calls[c].op \in {"write", "read"}
         /\ Calls[c].reg \in Names /\ Calls[c].data \in Values
<1>1. Calls[c] \in [op : {"write", "read"}, reg : STRING, data : STRING]
  BY CodecAssumption, ElementOfSeq
<1>2. QED
  BY <1>1 DEF Names, Values

LEMMA BytesFacts ==
  ASSUME NEW w \in Names \cup Values \cup {"none"}
  PROVE  /\ Bytes(w) \in Seq(Byte) /\ Len(Bytes(w)) = 2 /\ Bytes(w) \in [1..2 -> Byte]
         /\ Bytes(w)[1] = <<1, w>> /\ Bytes(w)[2] = <<2, w>>
  BY DEF Bytes, Byte

LEMMA BufferFacts ==
  ASSUME NEW c \in 1..Len(Calls)
  PROVE  LET b == Buffer(Calls[c]) IN
         /\ b \in Seq(Byte) /\ Len(b) = (IF Calls[c].op = "read" THEN 2 ELSE 4)
         /\ \A k \in 1..2 : b[k] = <<k, Calls[c].reg>>
         /\ Calls[c].op # "read" => b[3] = <<1, Calls[c].data>> /\ b[4] = <<2, Calls[c].data>>
<1> DEFINE r == Bytes(Calls[c].reg)
           d == Bytes(Calls[c].data)
<1>1. /\ r \in Seq(Byte) /\ Len(r) = 2 /\ r[1] = <<1, Calls[c].reg>>
      /\ r[2] = <<2, Calls[c].reg>>
      /\ d \in Seq(Byte) /\ Len(d) = 2 /\ d[1] = <<1, Calls[c].data>>
      /\ d[2] = <<2, Calls[c].data>>
  BY CallFacts, BytesFacts
<1> HIDE DEF r, d
<1>2. /\ r \o d \in Seq(Byte) /\ Len(r \o d) = 4
      /\ (r \o d)[1] = r[1] /\ (r \o d)[2] = r[2] /\ (r \o d)[3] = d[1] /\ (r \o d)[4] = d[2]
  <2>0. r \in Seq(Byte) /\ d \in Seq(Byte)
    BY <1>1
  <2>1. /\ r \o d \in Seq(Byte) /\ Len(r \o d) = Len(r) + Len(d)
        /\ \A i \in 1..Len(r) : (r \o d)[i] = r[i]
        /\ \A i \in 1..Len(d), j \in Nat : j = Len(r) + i => (r \o d)[j] = d[i]
    BY <2>0, Joined
  <2>2. QED
    BY <1>1, <2>1
<1>3. Buffer(Calls[c]) = IF Calls[c].op = "read" THEN r ELSE r \o d
  BY DEF Buffer, r, d
<1>4. QED
  BY <1>1, <1>2, <1>3

(* The call, when the types are right.                                         *)
LEMMA AskedFacts ==
  ASSUME call \in 1..Len(Calls)
  PROVE  /\ Reg \in Names /\ Data \in Values /\ Asked \in Seq(Byte) /\ Len(Asked) = Size
         /\ \A k \in 1..2 : Asked[k] = <<k, Reg>>
         /\ ~Read => Asked[3] = <<1, Data>> /\ Asked[4] = <<2, Data>>
  BY CallFacts, BufferFacts DEF Reg, Data, Asked, Size, Read

LEMMA CallStays ==
  ASSUME UNCHANGED call
  PROVE  /\ Asked' = Asked /\ Read' = Read /\ Reg' = Reg /\ Data' = Data
         /\ Size' = Size /\ Total' = Total
  BY DEF Asked, Read, Reg, Data, Size, Total

LEMMA CommandFields ==
  ASSUME NEW b, NEW r \in BOOLEAN, NEW s \in BOOLEAN
  PROVE  Command(b, r, s).byte = b /\ (Command(b, r, s).restart <=> r)
         /\ (Command(b, r, s).stop <=> s)
  BY DEF Command

(* The commands that the driver writes.                                        *)
LEMMA CommandsFacts ==
  ASSUME DriverType, DriverInStep
  PROVE  /\ Len(Commands) = Size + 1
         /\ pc # "done" =>
              \A k \in 1..Size + 1 : /\ Commands[k] \in Cmd
                                     /\ Is((IF phase = "rx" THEN 3 ELSE 0) + k, Commands[k])
<1>1. /\ buffer \in Seq(Byte) /\ Len(buffer) = Size /\ Size \in {2, 4} /\ Size \in Nat
      /\ (Read <=> Size = 2) /\ Total = (IF Read THEN 6 ELSE 5)
  BY DEF DriverType, Size, Total
<1>2. CASE phase = "tx"
  <2> DEFINE f == <<Command(ToCodec, FALSE, FALSE)>>
             g == [i \in 1..Len(buffer) |->
                     Command(buffer[i], FALSE, ~Read /\ i = Len(buffer))]
  <2>1. Commands = f \o g
    BY <1>2 DEF Commands
  <2>2. f \in Seq(Cmd) /\ Len(f) = 1 /\ f[1] = Command(ToCodec, FALSE, FALSE)
    BY DEF Cmd, Command
  <2>3. \A i \in 1..Size : buffer[i] \in Byte
    BY <1>1, ElementOfSeq
  <2>4. g \in Seq(Cmd) /\ Len(g) = Size
    BY <1>1, <2>3 DEF Cmd, Command
  <2>5. \A i \in 1..Size : g[i] = Command(buffer[i], FALSE, ~Read /\ i = Size)
    BY <1>1
  <2> HIDE DEF f, g
  <2>12. f \in Seq(Cmd) /\ g \in Seq(Cmd)
    BY <2>2, <2>4
  <2>0. /\ f \o g \in Seq(Cmd) /\ Len(f \o g) = Len(f) + Len(g)
        /\ \A i \in 1..Len(f) : (f \o g)[i] = f[i]
        /\ \A i \in 1..Len(g), j \in Nat : j = Len(f) + i => (f \o g)[j] = g[i]
    BY <2>12, Joined
  <2>6. Len(f \o g) = 1 + Size
    BY <1>1, <2>2, <2>4, <2>0
  <2>15. Len(f) = 1
    BY <2>2
  <2>16. \A i \in 1..Len(f) : (f \o g)[i] = f[i]
    BY <2>0
  <2>13. (f \o g)[1] = f[1]
    BY <2>15, <2>16
  <2>14. ASSUME NEW i \in 1..Size PROVE (f \o g)[i + 1] = g[i]
    BY <1>1, <2>2, <2>4, <2>0
  <2>7. (f \o g)[1] = f[1] /\ \A i \in 1..Size : (f \o g)[i + 1] = g[i]
    BY <2>13, <2>14
  <2>8. Is(1, f[1])
    BY <1>1, <2>2 DEF Is, Command
  <2>9. ASSUME pc # "done", NEW i \in 1..Size PROVE Is(i + 1, g[i])
    <3>1. ~spoilt => buffer[i] = Asked[i]
      BY <1>2, <2>9 DEF DriverInStep
    <3>2. i \in 1..4 /\ (Read => i \in 1..2)
      BY <1>1
    <3>3. /\ g[i].byte = buffer[i] /\ g[i].byte \in Byte /\ ~g[i].restart
          /\ g[i].stop <=> (~Read /\ i = Size)
      <4>1. g[i] = Command(buffer[i], FALSE, ~Read /\ i = Size) /\ buffer[i] \in Byte
        BY <2>3, <2>5
      <4>2. g[i].byte = buffer[i] /\ ~g[i].restart /\ (g[i].stop <=> (~Read /\ i = Size))
        BY <4>1, CommandFields
      <4>3. QED
        BY <4>1, <4>2
    <3>4. i + 1 # 1 /\ ~(Read /\ i + 1 = 4) /\ ~(Read /\ i + 1 > 4) /\ (i + 1) - 1 = i
      BY <3>2
    <3>5. (i + 1 = Total) <=> (~Read /\ i = Size)
      BY <1>1, <3>2
    <3>6. QED
      BY <3>1, <3>3, <3>4, <3>5 DEF Is
  <2>10. ASSUME pc # "done", NEW k \in 1..Size + 1
         PROVE  Commands[k] \in Cmd /\ Is(k, Commands[k])
    <3>1. CASE k = 1
      <4>0. f[1] \in Cmd
        BY <2>12, <2>15, ElementOfSeq
      <4>1. Commands[1] = f[1] /\ f[1] \in Cmd
        BY <2>1, <2>13, <4>0
      <4>2. QED
        BY <2>8, <3>1, <4>1
    <3>2. CASE k # 1
      <4>1. k - 1 \in 1..Size /\ k = (k - 1) + 1
        BY <1>1, <3>2
      <4>2. Commands[k] = g[k - 1]
        BY <2>1, <2>7, <4>1
      <4>3. QED
        BY <2>4, <2>9, <2>10, <4>1, <4>2, ElementOfSeq
    <3>3. QED
      BY <3>1, <3>2
  <2>11. QED
    BY <1>1, <1>2, <2>1, <2>6, <2>10
<1>3. CASE phase = "rx"
  <2> DEFINE f == <<Command(FromCodec, TRUE, FALSE)>>
             g == [i \in 1..Len(buffer) |-> Command(Fetch, FALSE, i = Len(buffer))]
  <2>0. Read /\ Size = 2 /\ Total = 6
    BY <1>1, <1>3 DEF DriverInStep
  <2>1. Commands = f \o g
    BY <1>3 DEF Commands
  <2>2. f \in Seq(Cmd) /\ Len(f) = 1 /\ f[1] = Command(FromCodec, TRUE, FALSE)
    BY DEF Cmd, Command
  <2>3. /\ g \in Seq(Cmd) /\ Len(g) = 2
        /\ \A i \in 1..2 : g[i] = Command(Fetch, FALSE, i = 2)
    BY <1>1, <2>0 DEF Cmd, Command
  <2> HIDE DEF f, g
  <2>8. /\ f \o g \in Seq(Cmd) /\ Len(f \o g) = Len(f) + Len(g)
        /\ \A i \in 1..Len(f) : (f \o g)[i] = f[i]
        /\ \A i \in 1..Len(g), j \in Nat : j = Len(f) + i => (f \o g)[j] = g[i]
    BY <2>2, <2>3, Joined
  <2>13. Len(f) = 1 /\ Len(g) = 2
    BY <2>2, <2>3
  <2>14. /\ \A i \in 1..Len(f) : (f \o g)[i] = f[i]
         /\ Len(f \o g) = Len(f) + Len(g)
    BY <2>8
  <2>10. Len(f \o g) = 3 /\ (f \o g)[1] = f[1]
    BY <2>13, <2>14
  <2>11. (f \o g)[2] = g[1] /\ (f \o g)[3] = g[2]
    <3>1. 2 = Len(f) + 1 /\ 3 = Len(f) + 2 /\ 1 \in 1..Len(g) /\ 2 \in 1..Len(g)
      BY <2>2, <2>3
    <3>2. QED
      BY <2>8, <3>1
  <2>4. /\ f \o g \in Seq(Cmd) /\ Len(f \o g) = 3
        /\ (f \o g)[1] = f[1] /\ (f \o g)[2] = g[1] /\ (f \o g)[3] = g[2]
    BY <2>8, <2>10, <2>11
  <2>5. Is(4, f[1])
    BY <2>0, <2>2 DEF Is, Command
  <2>15. \A i \in 1..2 : g[i] = Command(Fetch, FALSE, i = 2)
    BY <2>3
  <2>16. \A i \in 1..2 : g[i].byte = Fetch /\ ~g[i].restart /\ (g[i].stop <=> i = 2)
    BY <2>15, CommandFields
  <2>9. Is(5, g[1]) /\ Is(6, g[2])
    BY <2>0, <2>16 DEF Is
  <2>6. ASSUME NEW k \in 1..3 PROVE Commands[k] \in Cmd /\ Is(3 + k, Commands[k])
    <3>1. Commands[k] \in Cmd
      BY <2>1, <2>4, ElementOfSeq
    <3>2. k = 1 \/ k = 2 \/ k = 3
      OBVIOUS
    <3>3. QED
      BY <2>1, <2>4, <2>5, <2>9, <3>1, <3>2
  <2>7. QED
    BY <1>3, <2>0, <2>1, <2>4, <2>6
<1>4. QED
  BY <1>2, <1>3 DEF DriverType

-----------------------------------------------------------------------------
(* The driver and the core keep to their own state.                            *)
LEMMA CoreLeavesDriver == Core \/ Others => UNCHANGED driver /\ UNCHANGED en
  BY DEF Core, Others, Start, PopTxFifo, Address, TxByte, Refused, ArbLost, RxByte, RxAck,
     GenStop, Rest, core, outside

LEMMA DriverLeavesCodec == Driver => UNCHANGED outside
  BY DEF Driver, Enable, ClearIsr, CmdWrite, CmdTimeout, CheckNack, CheckArb, Available, RxRead,
     AwaitIdle, Finish, Retry, Return, core

LEMMA InitInStep == Init => Typed /\ IInv
<1> SUFFICES ASSUME Init PROVE Typed /\ IInv
  OBVIOUS
<1>1. call = 1 /\ 1 \in 1..Len(Calls)
  BY CodecAssumption, EmptySeq DEF Init
<1>2. /\ Asked = buffer /\ buffer \in Seq(Byte) /\ Len(buffer) = Size /\ Size \in {2, 4}
  BY <1>1, AskedFacts DEF Init, Asked, Size
<1>3. DriverType
  <2>1. Retries \in 1..Retries
    BY CodecAssumption
  <2>2. 0 \in 0..Size + 1 /\ 0 \in 0..Size
    BY <1>2
  <2>3. QED
    BY <1>1, <1>2, <2>1, <2>2 DEF Init, DriverType, Steps, Status
<1>4. CoreType
  <2>1. <<>> \in Seq(Cmd) /\ <<>> \in Seq(Byte) /\ Len(<<>>) = 0 /\ 0 <= Depth
    BY EmptySeq, CodecAssumption
  <2>2. cmd \in Cmd
    BY DEF Init, Cmd, Command
  <2>3. QED
    BY <2>1, <2>2 DEF Init, CoreType, States
<1>5. CodecType
  <2>1. ptr \in [1..2 -> Byte]
    BY BytesFacts DEF Init
  <2>2. regs \in [Names -> Values]
    BY DEF Init, Values
  <2>3. QED
    BY <2>1, <2>2, CodecAssumption DEF Init, CodecType
<1>6. DriverInStep /\ StatusInStep /\ CoreInStep /\ ~Running
  BY <1>2 DEF Init, DriverInStep, StatusInStep, CoreInStep, Running, Flush, Fresh, Away, Success,
     Idle
<1>7. QED
  BY <1>3, <1>4, <1>5, <1>6 DEF Init, Typed, IInv, CommandsInStep, StatesInStep, CodecInStep,
     FetchedInStep, BytesInStep

LEMMA Numbers ==
  ASSUME DriverType
  PROVE  /\ sent \in Nat /\ sent <= Size + 1 /\ nread \in Nat /\ nread <= Size
         /\ Size \in Nat /\ Total \in Nat
         /\ (Read => Size = 2 /\ Total = 6) /\ (~Read => Size = 4 /\ Total = 5)
<1>1. /\ Size \in Nat /\ Total \in Nat
      /\ (Read => Size = 2 /\ Total = 6) /\ (~Read => Size = 4 /\ Total = 5)
  BY DEF Size, Total
<1>2. sent \in 0..Size + 1 /\ nread \in 0..Size
  BY DEF DriverType
<1>3. QED
  BY <1>1, <1>2

LEMMA CoreKeepsFlags ==
  ASSUME Core \/ Others
  PROVE  /\ nack => nack'
         /\ arb => arb'
         /\ Idle => Idle' /\ nack' = nack
<1>1. CASE Start \/ PopTxFifo \/ Address \/ TxByte \/ RxByte \/ RxAck \/ GenStop \/ Rest
           \/ Others
  <2>1. UNCHANGED <<nack, arb>>
    BY <1>1 DEF Start, PopTxFifo, Address, TxByte, RxByte, RxAck, GenStop, Rest, Others, core
  <2>2. fsm' = fsm \/ ~Idle \/ Rest
    BY <1>1 DEF Start, PopTxFifo, Address, TxByte, RxByte, RxAck, GenStop, Others, core, Idle
  <2>3. QED
    BY <2>1, <2>2 DEF Idle, Rest
<1>2. CASE Refused \/ ArbLost
  BY <1>2 DEF Refused, ArbLost, Idle
<1>3. QED
  BY <1>1, <1>2 DEF Core

(* The place of the driver.                                                    *)
LEMMA DriverStaysInStep ==
  ASSUME DriverType, DriverInStep, StatusInStep, [Next]_vars
  PROVE  DriverInStep'
<1>0. /\ sent \in Nat /\ sent <= Size + 1 /\ Size \in Nat
      /\ (Read => Size = 2 /\ Total = 6) /\ (~Read => Size = 4 /\ Total = 5)
  BY Numbers
<1>1. CASE Enable
  BY <1>1, CallStays DEF Enable, core, DriverInStep, Fresh
<1>2. CASE ClearIsr
  <2>1. sent < Size + 1 /\ Size' = Size
    BY <1>0, <1>2, CallStays DEF ClearIsr, DriverInStep, Fresh
  <2>2. QED
    BY <1>2, <2>1, CallStays DEF ClearIsr, DriverInStep, Fresh
<1>3. CASE CmdWrite
  <2>1. /\ pc = "write" /\ pc' = "check nack" /\ sent' = sent + 1
        /\ UNCHANGED <<call, phase, nread, status, buffer, spoilt, en>>
    BY <1>3 DEF CmdWrite
  <2>2. sent' > 0
    BY <1>0, <2>1, Positive
  <2>3. QED
    BY <2>1, <2>2, CallStays DEF DriverInStep, Fresh
<1>4. CASE CmdTimeout
  BY <1>4, CallStays DEF CmdTimeout, core, DriverInStep, Fresh
<1>5. CASE CheckNack
  BY <1>5, CallStays DEF CheckNack, core, DriverInStep, Fresh
<1>6. CASE CheckArb
  <2>1. /\ pc = "check arb" /\ Len(Commands) = Size + 1
        /\ UNCHANGED <<call, nread, buffer, spoilt, en>>
    BY <1>6, CommandsFacts DEF CheckArb, core
  <2>2. (phase = "rx" => Read) /\ sent > 0 /\ en
    BY <2>1 DEF DriverInStep
  <2>3. CASE pc' = "write" /\ phase = "tx" /\ Read /\ phase' = "rx" /\ sent' = 0
    <3>1. Size' = Size
      BY <2>1, CallStays
    <3>2. sent' < Size' + 1
      BY <1>0, <2>3, <3>1
    <3>3. QED
      BY <2>1, <2>3, <3>2, CallStays DEF DriverInStep, Fresh
  <2>4. CASE pc' \in {"idle", "write"} /\ (pc' = "write" => sent # Size + 1)
             /\ UNCHANGED <<phase, sent>>
    <3>1. Size' = Size
      BY <2>1, CallStays
    <3>2. sent # Size + 1 => sent < Size + 1
      BY <1>0
    <3>3. QED
      BY <2>1, <2>4, <3>1, <3>2, CallStays DEF DriverInStep, Fresh
  <2>5. CASE pc' = "read" /\ phase = "rx" /\ sent = Size + 1 /\ UNCHANGED <<phase, sent>>
    <3>1. sent = 3
      BY <1>0, <2>2, <2>5
    <3>2. QED
      BY <2>1, <2>5, <3>1, CallStays DEF DriverInStep, Fresh
  <2>6. CASE pc' = "available" /\ phase = "rx" /\ sent > 1 /\ sent # Size + 1
             /\ UNCHANGED <<phase, sent>>
    <3>1. sent > 1 /\ sent < 3
      BY <1>0, <2>2, <2>6
    <3>2. QED
      BY <2>1, <2>6, <3>1, CallStays DEF DriverInStep, Fresh
  <2>7. QED
    BY <1>6, <2>1, <2>2, <2>3, <2>4, <2>5, <2>6 DEF CheckArb, AfterCommand, DriverType
<1>7. CASE Available
  <2>1. /\ pc = "available" /\ pc' \in {"available", "write"}
        /\ UNCHANGED <<call, phase, sent, spoilt, en>>
    BY <1>7 DEF Available
  <2>2. phase = "rx" /\ Read /\ sent < 3 /\ en
    BY <2>1 DEF DriverInStep
  <2>3. sent' < Size' + 1
    BY <1>0, <2>1, <2>2, CallStays
  <2>4. QED
    BY <2>1, <2>2, <2>3, CallStays DEF DriverInStep, Fresh
<1>8. CASE RxRead
  BY <1>8, CallStays DEF RxRead, Store, core, DriverInStep, Fresh
<1>9. CASE AwaitIdle
  BY <1>9, CallStays DEF AwaitIdle, core, DriverInStep, Fresh
<1>10. CASE Finish
  BY <1>10, CallStays DEF Finish, core, DriverInStep, Fresh
<1>11. CASE Retry
  BY <1>11, CallStays DEF Retry, core, DriverInStep, Fresh, StatusInStep, Success,
     Status, DriverType
<1>12. CASE Return
  <2>1. /\ pc = "return" /\ pc' \in {"done", "enable"} /\ phase' = "tx" /\ sent' = 0
        /\ nread' = 0
        /\ spoilt' = FALSE /\ UNCHANGED en
    BY <1>12 DEF Return, core
  <2>2. CASE UNCHANGED <<call, buffer>> /\ pc' = "done"
    BY <2>1, <2>2, CallStays DEF DriverInStep, Fresh
  <2>3. CASE buffer' = Buffer(Calls[call']) /\ pc' = "enable"
    <3>1. buffer' = Asked'
      BY <2>3 DEF Asked
    <3>2. QED
      BY <2>1, <2>3, <3>1 DEF DriverInStep, Fresh
  <2>4. QED
    BY <1>12, <2>2, <2>3 DEF Return
<1>13. CASE Core \/ Others
  <2>1. UNCHANGED <<call, pc, phase, sent, nread, status, buffer, spoilt, en>>
    BY <1>13, CoreLeavesDriver DEF driver
  <2>2. QED
    BY <2>1, CallStays DEF DriverInStep, Fresh
<1>14. CASE UNCHANGED vars
  BY <1>14, CallStays DEF vars, driver, core, DriverInStep, Fresh
<1>15. QED
  BY <1>1, <1>2, <1>3, <1>4, <1>5, <1>6, <1>7, <1>8, <1>9, <1>10, <1>11, <1>12, <1>13,
     <1>14 DEF Next, Driver, Core

(* The status, and what it says of the flags and of the core.                  *)
LEMMA StatusStaysInStep ==
  ASSUME DriverType, DriverInStep, StatusInStep, CoreInStep, [Next]_vars
  PROVE  StatusInStep'
<1>0. /\ sent \in Nat /\ sent <= Size + 1 /\ Size \in Nat
      /\ (Read => Size = 2 /\ Total = 6) /\ (~Read => Size = 4 /\ Total = 5)
  BY Numbers
<1>1. CASE Enable
  BY <1>1, CallStays DEF Enable, core, StatusInStep, Success, Written, DriverInStep
<1>2. CASE ClearIsr
  BY <1>2, CallStays DEF ClearIsr, core, StatusInStep, Success, Written
<1>3. CASE CmdWrite
  BY <1>3, CallStays DEF CmdWrite, core, StatusInStep, Success, Written
<1>4. CASE CmdTimeout
  BY <1>4, CallStays DEF CmdTimeout, core, StatusInStep, Success, Written, Idle, Status
<1>5. CASE CheckNack
  BY <1>5, CallStays DEF CheckNack, core, StatusInStep, Success, Written, DriverInStep
<1>6. CASE CheckArb
  <2>1. /\ pc = "check arb" /\ Len(Commands) = Size + 1
        /\ UNCHANGED <<call, nread, buffer, spoilt, en, nack, arb, fsm>>
    BY <1>6, CommandsFacts DEF CheckArb, core
  <2>2. status \in {"SUCCESS", "NACK"} /\ (status = "NACK" => nack)
    BY <2>1 DEF StatusInStep
  <2>3. status' = (IF arb THEN "ARB_LOST" ELSE status)
    BY <1>6 DEF CheckArb
  <2>4. CASE status' # "SUCCESS"
    <3>1. pc' = "idle"
      BY <1>6, <2>3, <2>4 DEF CheckArb, AfterCommand
    <3>2. QED
      BY <2>1, <2>2, <2>3, <2>4, <3>1 DEF StatusInStep, Success
  <2>5. CASE status' = "SUCCESS" /\ pc' = "idle"
    <3>1. phase = "tx" /\ ~Read /\ sent = Size + 1 /\ UNCHANGED <<phase, sent>>
      BY <1>6, <2>1, <2>3, <2>5 DEF CheckArb, AfterCommand, DriverType
    <3>2. Written' = Total' /\ ~Read'
      <4>1. Total = 5 /\ Size = 4 /\ sent = 5
        BY <1>0, <3>1
      <4>2. Total' = Total /\ Read' = Read
        BY <2>1, CallStays
      <4>3. QED
        BY <3>1, <4>1, <4>2 DEF Written
    <3>3. QED
      BY <2>1, <2>2, <2>3, <2>5, <3>2 DEF StatusInStep, Success
  <2>6. CASE status' = "SUCCESS" /\ pc' # "idle"
    <3>1. pc' \in {"write", "read", "available"}
      BY <1>6, <2>3, <2>6 DEF CheckArb, AfterCommand
    <3>2. QED
      BY <2>6, <3>1 DEF StatusInStep, Success
  <2>7. QED
    BY <2>4, <2>5, <2>6
<1>7. CASE Available
  BY <1>7, CallStays DEF Available, Store, core, StatusInStep, Success, Written
<1>8. CASE RxRead
  <2>1. /\ pc = "read" /\ phase = "rx" /\ sent = 3 /\ Read /\ Success
        /\ UNCHANGED <<call, phase, sent, nack, arb>>
    BY <1>8 DEF RxRead, DriverInStep, StatusInStep
  <2>2. Written' = Total' /\ Read' /\ Len(buffer) = 2
    BY <1>0, <2>1, CallStays DEF Written, DriverType
  <2>3. CASE pc' = "read" /\ UNCHANGED status
    BY <2>1, <2>3 DEF StatusInStep, Success
  <2>4. CASE pc' = "idle" /\ status' = "TIMEOUT"
    BY <2>4 DEF StatusInStep, Success
  <2>5. CASE pc' = "idle" /\ UNCHANGED <<status, nread>> /\ nread = Len(buffer)
    BY <2>1, <2>2, <2>5 DEF StatusInStep, Success
  <2>6. QED
    BY <1>8, <2>1, <2>3, <2>4, <2>5 DEF RxRead
<1>9. CASE AwaitIdle
  BY <1>9, CallStays DEF AwaitIdle, core, StatusInStep, Success, Written, Idle, Status
<1>10. CASE Finish
  BY <1>10, CallStays DEF Finish, core, StatusInStep, Success, Written, Idle, Status
<1>11. CASE Retry
  <2>1. pc = "retry" /\ UNCHANGED <<call, status, nack, arb, fsm>>
    BY <1>11 DEF Retry, core
  <2>2. CASE pc' = "enable" /\ status \in {"ARB_LOST", "NACK", "BUSY"}
    BY <2>1, <2>2 DEF StatusInStep, Success
  <2>3. CASE pc' = "hung" /\ status # "SUCCESS"
    BY <2>1, <2>3 DEF StatusInStep, Success
  <2>4. CASE pc' = "return" /\ status = "SUCCESS" /\ UNCHANGED <<phase, sent, nread>>
    <3>1. Written' = Written /\ Total' = Total /\ Read' = Read
      BY <2>1, <2>4, CallStays DEF Written
    <3>2. QED
      BY <2>1, <2>4, <3>1 DEF StatusInStep, Success, Idle
  <2>5. QED
    BY <1>11, <2>2, <2>3, <2>4 DEF Retry
<1>12. CASE Return
  BY <1>12, CallStays DEF Return, core, StatusInStep, Success, Written
<1>13. CASE Core \/ Others
  <2>1. UNCHANGED <<call, pc, phase, sent, nread, status>>
    BY <1>13, CoreLeavesDriver DEF driver
  <2>2. Written' = Written /\ Total' = Total /\ Read' = Read
    BY <2>1, CallStays DEF Written
  <2>3. QED
    <3>1. (nack => nack') /\ (arb => arb') /\ (Idle => Idle' /\ nack' = nack)
      BY <1>13, CoreKeepsFlags
    <3>2. (status = "NACK" => nack) => (status' = "NACK" => nack')
      BY <2>1, <3>1
    <3>3. (status = "ARB_LOST" => arb) => (status' = "ARB_LOST" => arb')
      BY <2>1, <3>1
    <3>4. QED
      BY <2>1, <2>2, <3>1, <3>2, <3>3 DEF StatusInStep, Success
<1>14. CASE UNCHANGED vars
  <2>1. UNCHANGED <<call, pc, phase, sent, nread, status>>
    BY <1>14 DEF vars, driver
  <2>2. Written' = Written /\ Total' = Total /\ Read' = Read
    BY <2>1, CallStays DEF Written
  <2>3. QED
    BY <1>14, <2>1, <2>2 DEF vars, core, Idle, StatusInStep, Success
<1>15. QED
  BY <1>1, <1>2, <1>3, <1>4, <1>5, <1>6, <1>7, <1>8, <1>9, <1>10, <1>11, <1>12, <1>13,
     <1>14 DEF Next, Driver, Core

(* A transaction that succeeds leaves nothing in the FIFOs: a core that is idle *)
(* has no command left.                                                        *)
LEMMA Settled ==
  ASSUME DriverType, CoreType, DriverInStep, StatusInStep, CoreInStep, StatesInStep,
         FetchedInStep, pc = "return"
  PROVE  /\ Success /\ Away /\ ~nack /\ txf = <<>> /\ rxf = <<>>
         /\ Running => Eaten = Total
<1>1. Success /\ Idle /\ Away /\ ~nack /\ Written = Total /\ (Read => nread = 2) /\ ~Fresh
  BY DEF StatusInStep, Idle, Away, Fresh
<1>2. CASE Flush
  BY <1>1, <1>2 DEF CoreInStep, Running
<1>3. CASE ~Flush
  <2>4. txf = <<>>
    BY <1>1 DEF CoreInStep
  <2>1. Eaten = Total - Len(txf) /\ Total \in Nat
    BY <1>1 DEF Eaten, Total
  <2>3. Eaten = Total
    BY <2>1, <2>4, EmptySeq
  <2>5. rxf = <<>>
    <3>1. CASE Read
      <4>1. Got <= 2 /\ nread = 2
        BY <1>1, <1>3, <3>1 DEF FetchedInStep, Running
      <4>2. Len(rxf) \in Nat
        BY LenProperties DEF CoreType
      <4>3. Len(rxf) = 0
        BY <4>1, <4>2 DEF Got
      <4>4. QED
        BY <4>3, EmptySeq DEF CoreType
    <3>2. CASE ~Read
      BY <3>2 DEF CoreInStep
    <3>3. QED
      BY <3>1, <3>2
  <2>6. QED
    BY <1>1, <2>3, <2>4, <2>5
<1>4. QED
  BY <1>2, <1>3

(* The core behind an error, and between two transactions.                      *)
LEMMA CoreStaysInStep ==
  ASSUME DriverType, CoreType, DriverInStep, StatusInStep, CoreInStep, StatesInStep,
         FetchedInStep, [Next]_vars
  PROVE  CoreInStep'
<1>1. CASE Enable
  BY <1>1, CallStays DEF Enable, DriverInStep, core, CoreInStep, Idle, Flush, Fresh, Away
<1>2. CASE ClearIsr
  BY <1>2, CallStays DEF ClearIsr, core, CoreInStep, Idle, Flush, Fresh, Away
<1>3. CASE CmdWrite
  BY <1>3, CallStays DEF CmdWrite, Woken, core, CoreInStep, Idle, Flush, Fresh, Away
<1>4. CASE CmdTimeout
  BY <1>4, CallStays DEF CmdTimeout, core, CoreInStep, Idle, Flush, Fresh, Away
<1>5. CASE CheckNack
  BY <1>5, CallStays DEF CheckNack, core, CoreInStep, Idle, Flush, Fresh, Away
<1>6. CASE CheckArb
  BY <1>6, CallStays DEF CheckArb, AfterCommand, core, CoreInStep, Idle, Flush, Fresh, Away
<1>7. CASE Available
  BY <1>7, CallStays DEF Available, Store, core, CoreInStep, Idle, Flush, Fresh, Away,
     DriverInStep
<1>8. CASE RxRead
  BY <1>8, CallStays DEF RxRead, Store, core, CoreInStep, Idle, Flush, Fresh, Away,
     DriverInStep
<1>9. CASE AwaitIdle
  BY <1>9, CallStays DEF AwaitIdle, core, CoreInStep, Idle, Flush, Fresh, Away
<1>10. CASE Finish
  BY <1>10, CallStays DEF Finish, core, CoreInStep, Idle, Flush, Fresh, Away
<1>11. CASE Retry
  <2>1. /\ pc = "retry" /\ pc' # "clear" /\ UNCHANGED <<call, nack, arb, en, fsm, txf, rxf>>
        /\ pc' = "enable" => status \in {"ARB_LOST", "NACK", "BUSY"}
    BY <1>11 DEF Retry, core
  <2>2. pc' = "enable" => Flush
    BY <2>1 DEF StatusInStep, Flush
  <2>3. (Flush' => Flush) /\ (Away => Away') /\ (Read' = Read)
    BY <2>1, CallStays DEF Flush, Away
  <2>4. QED
    BY <2>1, <2>2, <2>3 DEF CoreInStep, Idle, Fresh, Away
<1>12. CASE Return
  <2>1. pc = "return" /\ pc' # "clear" /\ UNCHANGED <<en, fsm, txf, rxf>>
    BY <1>12 DEF Return, core
  <2>2. QED
    BY <2>1, Settled DEF CoreInStep, Idle, Fresh, Away
<1>13. CASE Start
  BY <1>13, CallStays DEF Start, core, CoreInStep, Idle, Flush, Fresh, Away, driver
<1>14. CASE PopTxFifo
  BY <1>14, CallStays DEF PopTxFifo, Popped, core, CoreInStep, Idle, Flush, Fresh, Away, driver
<1>15. CASE Address
  BY <1>15, CallStays DEF Address, core, CoreInStep, Idle, Flush, Fresh, Away, driver
<1>16. CASE TxByte
  BY <1>16, CallStays DEF TxByte, core, CoreInStep, Idle, Flush, Fresh, Away, driver
<1>17. CASE Refused
  BY <1>17, CallStays DEF Refused, core, CoreInStep, Idle, Flush, Fresh, Away, driver
<1>18. CASE ArbLost
  BY <1>18, CallStays DEF ArbLost, core, CoreInStep, Idle, Flush, Fresh, Away, driver
<1>19. CASE RxByte
  BY <1>19, CallStays DEF RxByte, core, CoreInStep, Idle, Flush, Fresh, Away, driver,
     StatesInStep, Running
<1>20. CASE RxAck
  BY <1>20, CallStays DEF RxAck, Popped, core, CoreInStep, Idle, Flush, Fresh, Away, driver
<1>21. CASE GenStop
  BY <1>21, CallStays DEF GenStop, core, CoreInStep, Idle, Flush, Fresh, Away, driver
<1>22. CASE Rest
  BY <1>22, CallStays DEF Rest, core, CoreInStep, Idle, Flush, Fresh, Away, driver
<1>23. CASE Others
  BY <1>23, CallStays DEF Others, core, CoreInStep, Idle, Flush, Fresh, Away, driver
<1>24. CASE UNCHANGED vars
  BY <1>24, CallStays DEF vars, driver, core, CoreInStep, Idle, Flush, Fresh, Away
<1>25. QED
  BY <1>1, <1>2, <1>3, <1>4, <1>5, <1>6, <1>7, <1>8, <1>9, <1>10, <1>11, <1>12, <1>13,
     <1>14, <1>15, <1>16, <1>17, <1>18, <1>19, <1>20, <1>21, <1>22, <1>23, <1>24 DEF
     Next, Driver, Core

-----------------------------------------------------------------------------
(* What a step of the core or of the driver moves.                             *)
LEMMA PopFacts ==
  ASSUME NEW S, NEW s \in Seq(S), s # <<>>
  PROVE  /\ Head(s) \in S /\ Head(s) = s[1] /\ Len(s) \in Nat /\ Len(s) > 0 /\ Tail(s) \in Seq(S)
         /\ Len(Tail(s)) = Len(s) - 1 /\ \A i \in 1..Len(s) - 1 : Tail(s)[i] = s[i + 1]
<1>1. /\ Head(s) \in S /\ Tail(s) \in Seq(S) /\ Len(Tail(s)) = Len(s) - 1
      /\ \A i \in 1..Len(Tail(s)) : Tail(s)[i] = s[i + 1]
  BY HeadTailProperties
<1>2. Len(s) \in Nat \ {0}
  BY EmptySeq
<1>3. Head(s) = s[1]
  OBVIOUS
<1>4. QED
  BY <1>1, <1>2, <1>3

LEMMA Busy ==
  ASSUME CoreInStep, fsm \in {"ADDR", "TX_BYTE", "RX_BYTE", "RX_ACK", "HOLD"}
  PROVE  Running /\ ~Away /\ ~Fresh /\ ~Flush
  BY DEF CoreInStep, Running, Away

LEMMA EatenFacts ==
  ASSUME DriverType, CoreType
  PROVE  /\ Written \in Nat /\ Len(txf) \in Nat /\ Eaten \in Int /\ Written = Eaten + Len(txf)
         /\ Len(rxf) \in Nat /\ Got \in Nat /\ Got = nread + Len(rxf)
<1>1. sent \in Nat /\ nread \in Nat
  BY Numbers
<1>2. Len(txf) \in Nat /\ Len(rxf) \in Nat
  BY LenProperties DEF CoreType
<1>3. Written \in Nat
  BY <1>1 DEF Written
<1>4. QED
  BY <1>1, <1>2, <1>3 DEF Eaten, Got

LEMMA WrittenFacts ==
  ASSUME DriverType, DriverInStep
  PROVE  Written \in 0..Total
<1>1. /\ sent \in Nat /\ sent <= Size + 1
      /\ (Read => Size = 2 /\ Total = 6) /\ (~Read => Size = 4 /\ Total = 5)
  BY Numbers
<1>2. CASE phase = "rx"
  <2>1. Written = 3 + sent /\ Read
    BY <1>2 DEF Written, DriverInStep
  <2>2. QED
    BY <1>1, <2>1
<1>3. CASE phase # "rx"
  <2>1. Written = sent
    BY <1>3 DEF Written
  <2>2. QED
    BY <1>1, <2>1
<1>4. QED
  BY <1>2, <1>3

(* A byte in the FIFO has room in the buffer.                                  *)
LEMMA RoomForByte ==
  ASSUME DriverType, CoreType, DriverInStep, StatusInStep, CoreInStep, FetchedInStep,
         pc \in {"available", "read"}, rxf # <<>>
  PROVE  /\ Running /\ Success /\ Read /\ phase = "rx" /\ Size = 2
         /\ Got \in 1..2 /\ nread \in 0..1 /\ Len(rxf) \in 1..2
<1>1. Running /\ Success /\ Read /\ phase = "rx"
  BY DEF CoreInStep, Running, StatusInStep, DriverInStep, Fresh
<1>2. Len(rxf) \in Nat \ {0}
  BY EmptySeq DEF CoreType
<1>3. Got <= 2 /\ nread \in Nat /\ Size = 2
  BY <1>1, Numbers DEF FetchedInStep
<1>4. \A a \in Nat, b \in Nat \ {0} : a + b <= 2 => a + b \in 1..2 /\ a \in 0..1 /\ b \in 1..2
  OBVIOUS
<1>5. nread + Len(rxf) <= 2
  BY <1>3 DEF Got
<1>6. nread + Len(rxf) \in 1..2 /\ nread \in 0..1 /\ Len(rxf) \in 1..2
  BY <1>2, <1>3, <1>4, <1>5
<1>7. QED
  BY <1>1, <1>3, <1>6 DEF Got

LEMMA StoreFacts ==
  ASSUME NEW b \in Seq(Byte), NEW n \in 0..Len(b) - 1, NEW x \in Byte
  PROVE  LET c == [b EXCEPT ![n + 1] = x] IN
         /\ c \in Seq(Byte) /\ Len(c) = Len(b) /\ n + 1 \in 1..Len(b)
         /\ c[n + 1] = x /\ \A j \in 1..n : c[j] = b[j]
<1>1. Len(b) \in Nat
  BY LenProperties
<1>2. n + 1 \in 1..Len(b) /\ \A j \in 1..n : j \in 1..Len(b) /\ j # n + 1
  BY <1>1
<1>3. /\ [b EXCEPT ![n + 1] = x] \in Seq(Byte) /\ Len([b EXCEPT ![n + 1] = x]) = Len(b)
      /\ \A j \in 1..Len(b) : [b EXCEPT ![n + 1] = x][j] = IF j = n + 1 THEN x ELSE b[j]
  BY <1>2, ExceptSeq
<1>4. QED
  BY <1>2, <1>3

(* The byte that the codec takes.                                              *)
LEMMA TakenFacts ==
  ASSUME DriverType, CoreType, CodecType, DriverInStep, CoreInStep, CommandsInStep,
         StatesInStep, CodecInStep, fsm = "TX_BYTE"
  PROVE  LET t == Append(taken, cmd.byte) IN
         /\ Eaten \in 2..Size + 1 /\ dir = ToCodec /\ cmd.byte \in Byte
         /\ (cmd.stop <=> Eaten = Total)
         /\ t \in Seq(Byte) /\ Len(t) = Eaten - 1
         /\ ~spoilt => \A k \in 1..Len(t) : t[k] = Asked[k]
<1>1. /\ Running /\ Eaten \in 2..Size + 1 /\ dir = ToCodec /\ Is(Eaten, cmd)
      /\ Len(taken) = Eaten - 2
      /\ ~spoilt => \A k \in 1..Len(taken) : taken[k] = Asked[k]
  BY Busy DEF CommandsInStep, StatesInStep, CodecInStep
<1>2. Size \in Nat /\ (Read => Size = 2)
  BY Numbers
<1>3. Eaten # 1 /\ (Read => Eaten < 4) /\ Eaten \in Int
  BY <1>1, <1>2
<1>4. cmd.byte \in Byte /\ (cmd.stop <=> Eaten = Total)
  BY <1>1, <1>3 DEF Is
<1>5. ~spoilt => cmd.byte = Asked[Eaten - 1]
  BY <1>1 DEF Is
<1>6. taken \in Seq(Byte)
  BY DEF CodecType
<1>7. /\ Append(taken, cmd.byte) \in Seq(Byte) /\ Len(Append(taken, cmd.byte)) = Len(taken) + 1
      /\ \A i \in 1..Len(taken) : Append(taken, cmd.byte)[i] = taken[i]
      /\ Append(taken, cmd.byte)[Len(taken) + 1] = cmd.byte
  BY <1>4, <1>6, AppendProperties
<1>8. Len(taken) + 1 = Eaten - 1
  BY <1>1, <1>3
<1>9. ASSUME ~spoilt, NEW k \in 1..Eaten - 1 PROVE Append(taken, cmd.byte)[k] = Asked[k]
  <2>1. k \in 1..Len(taken) \/ k = Len(taken) + 1
    BY <1>1, <1>3, <1>9
  <2>2. QED
    BY <1>1, <1>5, <1>7, <1>8, <1>9, <2>1
<1>10. QED
  BY <1>1, <1>4, <1>7, <1>8, <1>9

(* The byte that the codec gives.                                              *)
LEMMA SentFacts ==
  ASSUME DriverType, CoreType, CodecType, CoreInStep, StatesInStep, CodecInStep, fsm = "RX_BYTE"
  PROVE  /\ Running /\ Read /\ Eaten \in 5..6 /\ given = Eaten - 5 /\ given \in 0..1
         /\ Sent \in Byte /\ (~spoilt => Sent = <<given + 1, regs[Reg]>>)
<1>1. Running /\ Read /\ Eaten \in 5..6 /\ given = Eaten - 5
  BY Busy DEF StatesInStep, CodecInStep
<1>2. given \in 0..1 /\ given + 1 \in {1, 2}
  BY <1>1
<1>3. regs \in [Names -> Values]
  BY DEF CodecType
<1> DEFINE at == {r \in Names : ptr = Bytes(r)}
           from == IF at = {} THEN "none" ELSE regs[CHOOSE r \in at : TRUE]
<1>4. Sent = <<given + 1, from>>
  BY DEF Sent
<1>5. at # {} => (CHOOSE r \in at : TRUE) \in at
  OBVIOUS
<1>6. from \in Values \cup {"none"}
  BY <1>3, <1>5
<1>7. Sent \in Byte
  BY <1>2, <1>4, <1>6 DEF Byte
<1>8. ASSUME ~spoilt PROVE from = regs[Reg]
  <2>1. ptr = Bytes(Reg)
    BY <1>1, <1>8 DEF CodecInStep
  <2>2. Reg \in Names
    BY AskedFacts DEF DriverType
  <2>3. ASSUME NEW r \in at PROVE r = Reg
    <3>1. Bytes(r) = Bytes(Reg)
      BY <2>1
    <3>2. QED
      BY <3>1 DEF Bytes
  <2>4. Reg \in at
    BY <2>1, <2>2
  <2>5. (CHOOSE r \in at : TRUE) = Reg
    BY <1>5, <2>3, <2>4
  <2>6. QED
    BY <2>4, <2>5
<1>9. QED
  BY <1>1, <1>2, <1>4, <1>7, <1>8

(* A step of the driver begins the count, writes a command, or leaves both be. *)
Counts == ClearIsr \/ Return \/ CmdWrite

LEMMA DriverKeeps ==
  ASSUME DriverType, CoreType, DriverInStep, Driver \/ UNCHANGED vars, ~Counts, Running'
  PROVE  /\ Running /\ Written' = Written /\ Eaten' = Eaten
         /\ UNCHANGED <<call, spoilt, txf, cmd, dir, nack, arb>> /\ UNCHANGED outside
         /\ fsm' = fsm \/ (fsm = "PRE_IDLE" /\ fsm' = "IDLE")
<1>1. CASE Enable
  BY <1>1 DEF Enable, DriverInStep, Running, Fresh
<1>2. CASE CheckArb
  <2>1. /\ pc = "check arb" /\ pc' \in {"idle", "read", "write", "available"}
        /\ UNCHANGED <<call, spoilt>> /\ UNCHANGED core /\ UNCHANGED outside
    BY <1>2 DEF CheckArb, AfterCommand
  <2>2. Written' = Written
    <3>1. CASE UNCHANGED <<phase, sent>>
      BY <3>1 DEF Written
    <3>2. CASE phase = "tx" /\ Read /\ sent = Len(Commands) /\ phase' = "rx" /\ sent' = 0
      <4>1. sent = 3
        <5>1. Len(Commands) = Size + 1
          BY CommandsFacts
        <5>2. Size = 2
          BY <3>2, Numbers
        <5>3. QED
          BY <3>2, <5>1, <5>2
      <4>2. QED
        BY <3>2, <4>1 DEF Written
    <3>3. QED
      BY <1>2, <3>1, <3>2 DEF CheckArb, AfterCommand, DriverType
  <2>3. QED
    BY <2>1, <2>2 DEF core, Eaten, Running, Fresh, Flush
<1>3. CASE Available \/ RxRead
  <2>1. /\ pc \in {"available", "read"} /\ UNCHANGED <<call, phase, sent, spoilt>>
        /\ UNCHANGED <<txf, cmd, dir, nack, arb, fsm>> /\ UNCHANGED outside
    BY <1>3 DEF Available, RxRead
  <2>2. QED
    BY <2>1 DEF Written, Eaten, Running, Fresh, Flush
<1>4. CASE CmdTimeout \/ CheckNack \/ AwaitIdle
  <2>1. /\ pc \in {"write", "check nack", "idle"} /\ UNCHANGED <<call, phase, sent, spoilt>>
        /\ UNCHANGED core /\ UNCHANGED outside
    BY <1>4 DEF CmdTimeout, CheckNack, AwaitIdle
  <2>2. QED
    BY <2>1 DEF core, Written, Eaten, Running, Fresh, Flush
<1>5. CASE Finish
  <2>1. /\ pc = "finish" /\ UNCHANGED <<call, phase, sent, spoilt>> /\ UNCHANGED outside
        /\ UNCHANGED <<txf, cmd, dir, nack, arb>>
        /\ fsm' = fsm \/ (fsm = "PRE_IDLE" /\ fsm' = "IDLE")
    BY <1>5 DEF Finish
  <2>2. QED
    BY <2>1 DEF Written, Eaten, Running, Fresh, Flush
<1>6. CASE Retry
  <2>1. pc = "retry" /\ UNCHANGED <<call, phase, sent, spoilt>> /\ UNCHANGED core
        /\ UNCHANGED outside
    BY <1>6 DEF Retry, Running, Fresh
  <2>2. QED
    BY <2>1 DEF core, Written, Eaten, Running, Fresh, Flush
<1>7. CASE UNCHANGED vars
  BY <1>7 DEF vars, driver, core, Written, Eaten, Running, Fresh, Flush
<1>8. QED
  BY <1>1, <1>2, <1>3, <1>4, <1>5, <1>6, <1>7 DEF Driver, Counts

LEMMA CountBegins ==
  ASSUME DriverType, CoreType, DriverInStep, StatusInStep, CoreInStep, StatesInStep,
         FetchedInStep, ClearIsr \/ Return, Running'
  PROVE  /\ Written' = 0 /\ Eaten' = 0 /\ nread' = 0 /\ txf' = <<>> /\ rxf' = <<>>
         /\ phase' = "tx"
         /\ UNCHANGED call /\ UNCHANGED outside /\ (Away' \/ fsm' = "PRE_START")
<1>1. CASE ClearIsr
  <2>1. /\ pc = "clear" /\ UNCHANGED <<call, phase, sent, nread, fsm, txf, rxf>>
        /\ UNCHANGED outside
    BY <1>1 DEF ClearIsr
  <2>2. /\ phase = "tx" /\ sent = 0 /\ nread = 0 /\ txf = <<>> /\ rxf = <<>>
        /\ Away \/ fsm = "PRE_START"
    BY <2>1 DEF DriverInStep, CoreInStep, Fresh
  <2>3. txf' = <<>> /\ Len(txf') = 0 /\ Written' = 0
    BY <2>1, <2>2, EmptySeq DEF Written
  <2>4. Eaten' = 0
    <3>1. Len(txf') = 0 /\ Written' = 0 /\ Eaten' = Written' - Len(txf')
      BY <2>3 DEF Eaten
    <3>2. QED
      BY <3>1
  <2>5. QED
    BY <2>1, <2>2, <2>3, <2>4 DEF Away
<1>2. CASE Return
  <2>1. /\ pc = "return" /\ phase' = "tx" /\ sent' = 0 /\ nread' = 0 /\ UNCHANGED call
        /\ UNCHANGED core /\ UNCHANGED outside
    BY <1>2 DEF Return, Running, Fresh
  <2>2. txf = <<>> /\ rxf = <<>> /\ Away
    BY <2>1, Settled
  <2>3. txf' = <<>> /\ Len(txf') = 0 /\ Written' = 0
    BY <2>1, <2>2, EmptySeq DEF core, Written
  <2>4. Eaten' = 0
    <3>1. Len(txf') = 0 /\ Written' = 0 /\ Eaten' = Written' - Len(txf')
      BY <2>3 DEF Eaten
    <3>2. QED
      BY <3>1
  <2>5. QED
    BY <2>1, <2>2, <2>3, <2>4 DEF core, Away
<1>3. QED
  BY <1>1, <1>2

LEMMA CommandWritten ==
  ASSUME DriverType, CoreType, DriverInStep, StatesInStep, CmdWrite, Running'
  PROVE  LET c == Commands[sent + 1] IN
         /\ Running /\ Written' = Written + 1 /\ Eaten' = Eaten /\ Is(Written + 1, c)
         /\ c \in Cmd
         /\ txf' = Append(txf, c) /\ Len(txf') = Len(txf) + 1
         /\ UNCHANGED <<call, phase, nread, status, buffer, spoilt>>
         /\ UNCHANGED <<en, cmd, dir, rxf, nack, arb>>
         /\ fsm' = fsm \/ (fsm' = "PRE_START" /\ Eaten = 0)
         /\ UNCHANGED outside
<1> DEFINE c == Commands[sent + 1]
<1>1. /\ pc = "write" /\ sent' = sent + 1 /\ UNCHANGED outside
      /\ UNCHANGED <<call, phase, nread, status, buffer, spoilt>>
      /\ UNCHANGED <<en, cmd, dir, rxf, nack, arb>> /\ fsm' = Woken(fsm)
      /\ txf' = IF Flush THEN <<>> ELSE Append(txf, c)
  BY DEF CmdWrite
<1>2. Running /\ ~Flush
  BY <1>1 DEF Running, Fresh, Flush
<1>3. sent \in Nat /\ sent + 1 \in 1..Size + 1
  BY <1>1, Numbers DEF DriverInStep
<1>4. c \in Cmd /\ Is((IF phase = "rx" THEN 3 ELSE 0) + (sent + 1), c)
  BY <1>1, <1>3, CommandsFacts
<1>5. /\ Written' = Written + 1
      /\ (IF phase = "rx" THEN 3 ELSE 0) + (sent + 1) = Written + 1
  BY <1>1, <1>3 DEF Written
<1>6. Len(txf') = Len(txf) + 1 /\ txf' = Append(txf, c)
  BY <1>1, <1>2, <1>4, AppendProperties DEF CoreType
<1>7. Eaten' = Eaten
  <2>1. Written \in Nat /\ Len(txf) \in Nat
    BY EatenFacts
  <2>2. QED
    BY <1>5, <1>6, <2>1 DEF Eaten
<1>8. fsm' = fsm \/ (fsm' = "PRE_START" /\ Eaten = 0)
  <2>1. Written < Total
    <3>1. /\ sent \in Nat /\ sent < Size + 1
          /\ (Read => Size = 2 /\ Total = 6) /\ (~Read => Size = 4 /\ Total = 5)
      BY <1>1, Numbers DEF DriverInStep
    <3>2. CASE phase = "rx"
      <4>1. Written = 3 + sent /\ Read
        BY <3>2 DEF Written, DriverInStep
      <4>2. QED
        BY <3>1, <4>1
    <3>3. CASE phase # "rx"
      <4>1. Written = sent
        BY <3>3 DEF Written
      <4>2. QED
        BY <3>1, <4>1
    <3>4. QED
      BY <3>2, <3>3
  <2>2. fsm = "PRE_IDLE" => Eaten \in {0, Total}
    BY <1>2 DEF StatesInStep, Away
  <2>3. Eaten # Total
    BY <2>1, EatenFacts, Numbers
  <2>4. QED
    BY <1>1, <2>2, <2>3 DEF Woken
<1>9. QED
  BY <1>1, <1>2, <1>4, <1>5, <1>6, <1>7, <1>8

(* The types of the driver, the core and the codec.                            *)
LEMMA DriverTyped ==
  ASSUME DriverType, CoreType, DriverInStep, StatusInStep, CoreInStep, FetchedInStep,
         [Next]_vars
  PROVE  DriverType'
<1>0. /\ call \in 1..Len(Calls) /\ pc \in Steps /\ phase \in {"tx", "rx"}
      /\ sent \in 0..Size + 1 /\ nread \in 0..Size /\ Size \in Nat
      /\ status \in Status /\ tries \in 1..Retries /\ Retries \in Nat
      /\ buffer \in Seq(Byte) /\ Len(buffer) = Size /\ spoilt \in BOOLEAN
  BY Numbers, CodecAssumption DEF DriverType
<1>1. CASE Enable
  BY <1>1, <1>0, CallStays DEF Enable, DriverType, Steps, Status
<1>2. CASE ClearIsr
  BY <1>2, <1>0, CallStays DEF ClearIsr, DriverType, Steps, Status
<1>3. CASE CmdWrite
  <2>1. /\ pc = "write" /\ pc' \in Steps /\ sent' = sent + 1
        /\ UNCHANGED <<call, phase, nread, status, tries, buffer, spoilt>>
    BY <1>3 DEF CmdWrite, Steps
  <2>2. Size' = Size
    BY <2>1, CallStays
  <2>3. sent + 1 \in 0..Size + 1
    BY <1>0, <2>1 DEF DriverInStep
  <2>4. QED
    BY <1>0, <2>1, <2>2, <2>3 DEF DriverType
<1>4. CASE CmdTimeout
  BY <1>4, <1>0, CallStays DEF CmdTimeout, DriverType, Steps, Status
<1>5. CASE CheckNack
  BY <1>5, <1>0, CallStays DEF CheckNack, DriverType, Steps, Status
<1>6. CASE CheckArb
  <2>1. /\ pc' \in Steps /\ phase' \in {"tx", "rx"} /\ (sent' = 0 \/ sent' = sent)
        /\ status' \in Status /\ UNCHANGED <<call, nread, tries, buffer, spoilt>>
    BY <1>0, <1>6 DEF CheckArb, AfterCommand, Steps, Status
  <2>2. Size' = Size /\ 0 \in 0..Size + 1
    BY <1>0, <2>1, CallStays
  <2>3. QED
    BY <1>0, <2>1, <2>2 DEF DriverType
<1>7. CASE Available
  <2>1. pc' \in Steps /\ UNCHANGED <<call, phase, sent, status, tries, spoilt>>
        /\ pc = "available"
    BY <1>0, <1>7 DEF Available, Steps
  <2>2. Size' = Size
    BY <2>1, CallStays
  <2>3. CASE rxf # <<>> /\ Store(Head(rxf))
    <3>1. nread \in 0..1 /\ Size = 2
      BY <2>1, <2>3, RoomForByte
    <3>2. nread \in 0..Len(buffer) - 1 /\ nread + 1 \in 0..Size
      BY <1>0, <3>1
    <3>3. Head(rxf) \in Byte
      BY <2>3, PopFacts DEF CoreType
    <3>4. buffer' \in Seq(Byte) /\ Len(buffer') = Size /\ nread' \in 0..Size
      BY <1>0, <2>3, <3>2, <3>3, StoreFacts DEF Store
    <3>5. QED
      BY <1>0, <2>1, <2>2, <3>4 DEF DriverType
  <2>4. CASE UNCHANGED <<buffer, nread>>
    BY <1>0, <2>1, <2>2, <2>4 DEF DriverType
  <2>5. QED
    BY <1>7, <2>3, <2>4 DEF Available
<1>8. CASE RxRead
  <2>1. /\ pc' \in Steps /\ UNCHANGED <<call, phase, sent, tries, spoilt>>
        /\ status' \in Status
    BY <1>0, <1>8 DEF RxRead, Steps, Status
  <2>2. Size' = Size
    BY <2>1, CallStays
  <2>3. ASSUME NEW b \in Byte, nread < Len(buffer), Store(b) PROVE DriverType'
    <3>1. nread \in 0..Len(buffer) - 1 /\ nread + 1 \in 0..Size
      BY <1>0, <2>3
    <3>2. buffer' \in Seq(Byte) /\ Len(buffer') = Size /\ nread' \in 0..Size
      BY <1>0, <2>3, <3>1, StoreFacts DEF Store
    <3>3. QED
      BY <1>0, <2>1, <2>2, <3>2 DEF DriverType
  <2>4. rxf # <<>> => Head(rxf) \in Byte
    BY PopFacts DEF CoreType
  <2>5. <<1, "none">> \in Byte
    BY DEF Byte
  <2>6. CASE UNCHANGED <<buffer, nread>>
    BY <1>0, <2>1, <2>2, <2>6 DEF DriverType
  <2>7. QED
    BY <1>8, <2>3, <2>4, <2>5, <2>6 DEF RxRead
<1>9. CASE AwaitIdle
  BY <1>9, <1>0, CallStays DEF AwaitIdle, DriverType, Steps, Status
<1>10. CASE Finish
  BY <1>10, <1>0, CallStays DEF Finish, DriverType, Steps, Status
<1>11. CASE Retry
  <2>1. /\ pc' \in Steps /\ phase' \in {"tx", "rx"} /\ (sent' = 0 \/ sent' = sent)
        /\ (nread' = 0 \/ nread' = nread)
        /\ (tries' = tries \/ (tries > 1 /\ tries' = tries - 1))
        /\ spoilt' \in BOOLEAN /\ UNCHANGED <<call, status, buffer>>
    BY <1>0, <1>11 DEF Retry, Steps
  <2>2. Size' = Size /\ 0 \in 0..Size + 1 /\ 0 \in 0..Size
    BY <1>0, <2>1, CallStays
  <2>3. tries > 1 => tries - 1 \in 1..Retries
    BY <1>0
  <2>4. QED
    BY <1>0, <2>1, <2>2, <2>3 DEF DriverType
<1>12. CASE Return
  <2>1. /\ pc' \in Steps /\ phase' = "tx" /\ sent' = 0 /\ nread' = 0 /\ tries' = Retries
        /\ spoilt' = FALSE /\ UNCHANGED status
    BY <1>12 DEF Return, Steps
  <2>2. Retries \in 1..Retries
    BY CodecAssumption
  <2>3. CASE UNCHANGED <<call, buffer>>
    <3>1. Size' = Size /\ 0 \in 0..Size + 1 /\ 0 \in 0..Size
      BY <1>0, <2>3, CallStays
    <3>2. QED
      BY <1>0, <2>1, <2>2, <2>3, <3>1 DEF DriverType
  <2>4. CASE call # Len(Calls) /\ call' = call + 1 /\ buffer' = Buffer(Calls[call + 1])
    <3>1. call + 1 \in 1..Len(Calls)
      BY <1>0, <2>4, CodecAssumption, LenProperties
    <3>2. call' \in 1..Len(Calls)
      BY <2>4, <3>1
    <3>3. /\ buffer' \in Seq(Byte)
          /\ Len(buffer') = (IF Calls[call'].op = "read" THEN 2 ELSE 4)
      BY <2>4, <3>2, BufferFacts
    <3>4. Size' = Len(buffer') /\ Size' \in {2, 4}
      BY <3>3 DEF Size, Read
    <3>5. 0 \in 0..Size' + 1 /\ 0 \in 0..Size'
      BY <3>4
    <3>6. QED
      BY <1>0, <2>1, <2>2, <3>2, <3>3, <3>4, <3>5 DEF DriverType
  <2>5. QED
    BY <1>12, <2>3, <2>4 DEF Return
<1>13. CASE Core \/ Others
  <2>1. UNCHANGED driver
    BY <1>13, CoreLeavesDriver
  <2>2. QED
    BY <1>0, <2>1, CallStays DEF driver, DriverType
<1>14. CASE UNCHANGED vars
  BY <1>0, <1>14, CallStays DEF vars, driver, DriverType
<1>15. QED
  BY <1>1, <1>2, <1>3, <1>4, <1>5, <1>6, <1>7, <1>8, <1>9, <1>10, <1>11, <1>12, <1>13,
     <1>14 DEF Next, Driver, Core

LEMMA CoreTyped ==
  ASSUME DriverType, CoreType, CodecType, DriverInStep, CoreInStep, CommandsInStep,
         StatesInStep, CodecInStep, [Next]_vars
  PROVE  CoreType'
<1>0. /\ en \in BOOLEAN /\ fsm \in States /\ cmd \in Cmd /\ dir \in {ToCodec, FromCodec}
      /\ txf \in Seq(Cmd) /\ Len(txf) <= Depth /\ rxf \in Seq(Byte) /\ Len(rxf) <= Depth
      /\ nack \in BOOLEAN /\ arb \in BOOLEAN
      /\ <<>> \in Seq(Cmd) /\ <<>> \in Seq(Byte) /\ Len(<<>>) = 0 /\ 0 <= Depth
      /\ Depth \in Nat /\ Len(txf) \in Nat /\ Len(rxf) \in Nat
  BY EmptySeq, EatenFacts, CodecAssumption DEF CoreType
<1>a. txf # <<>> => Head(txf) \in Cmd /\ Tail(txf) \in Seq(Cmd) /\ Len(Tail(txf)) = Len(txf) - 1
  BY <1>0, PopFacts
<1>b. rxf # <<>> => Tail(rxf) \in Seq(Byte) /\ Len(Tail(rxf)) = Len(rxf) - 1
  BY <1>0, PopFacts
<1>c. ASSUME UNCHANGED <<cmd, dir, txf, rxf, nack, arb>>, en' \in BOOLEAN, fsm' \in States
      PROVE  CoreType'
  BY <1>0, <1>c DEF CoreType
<1>d. ASSUME txf # <<>>, cmd' = Head(txf), txf' = Tail(txf), fsm' \in States,
             UNCHANGED <<en, dir, rxf, nack, arb>>
      PROVE  CoreType'
  <2>1. Len(txf') <= Depth
    BY <1>0, <1>a, <1>d
  <2>2. QED
    BY <1>0, <1>a, <1>d, <2>1 DEF CoreType
<1>e. ASSUME rxf # <<>>, rxf' = Tail(rxf), UNCHANGED <<en, fsm, cmd, dir, txf, nack, arb>>
      PROVE  CoreType'
  <2>1. Len(rxf') <= Depth
    BY <1>0, <1>b, <1>e
  <2>2. QED
    BY <1>0, <1>b, <1>e, <2>1 DEF CoreType
<1>1. CASE Enable
  BY <1>1, <1>0, <1>c DEF Enable, core, States
<1>2. CASE ClearIsr
  BY <1>2, <1>0 DEF ClearIsr, CoreType
<1>3. CASE CmdWrite
  <2>1. /\ pc = "write" /\ Len(txf) < Depth /\ UNCHANGED <<en, cmd, dir, rxf, nack, arb>>
        /\ fsm' \in {fsm, "PRE_START"}
        /\ txf' = <<>> \/ txf' = Append(txf, Commands[sent + 1])
    BY <1>3 DEF CmdWrite, Woken
  <2>2. sent + 1 \in 1..Size + 1
    BY <2>1, Numbers DEF DriverInStep
  <2>3. Commands[sent + 1] \in Cmd
    BY <2>1, <2>2, CommandsFacts
  <2>4. /\ Append(txf, Commands[sent + 1]) \in Seq(Cmd)
        /\ Len(Append(txf, Commands[sent + 1])) = Len(txf) + 1
    BY <1>0, <2>3, AppendProperties
  <2>5. Len(txf) + 1 <= Depth
    BY <1>0, <2>1
  <2>6. QED
    BY <1>0, <2>1, <2>4, <2>5 DEF CoreType, States
<1>4. CASE CmdTimeout
  BY <1>4, <1>0, <1>c DEF CmdTimeout, core, States
<1>5. CASE CheckNack
  BY <1>5, <1>0, <1>c DEF CheckNack, core, States
<1>6. CASE CheckArb
  BY <1>6, <1>0, <1>c DEF CheckArb, AfterCommand, core, States
<1>7. CASE Available
  BY <1>7, <1>0, <1>c, <1>e DEF Available, Store
<1>8. CASE RxRead
  BY <1>8, <1>0, <1>c, <1>e DEF RxRead, Store
<1>9. CASE AwaitIdle
  BY <1>9, <1>0, <1>c DEF AwaitIdle, core, States
<1>10. CASE Finish
  BY <1>10, <1>0, <1>c DEF Finish, core, States
<1>11. CASE Retry
  BY <1>11, <1>0, <1>c DEF Retry, core, States
<1>12. CASE Return
  BY <1>12, <1>0, <1>c DEF Return, core, States
<1>13. CASE Start
  BY <1>13, <1>0, <1>d DEF Start, States
<1>14. CASE PopTxFifo
  BY <1>14, <1>0, <1>d DEF PopTxFifo, Popped, States
<1>15. CASE Address
  <2>1. /\ fsm = "ADDR" /\ fsm' = "HOLD" /\ dir' = cmd.byte
        /\ UNCHANGED <<en, cmd, txf, rxf, nack, arb>>
    BY <1>15 DEF Address
  <2>2. Is(Eaten, cmd) /\ (Eaten = 1 \/ (Read /\ Eaten = 4))
    BY <2>1, Busy DEF CommandsInStep, StatesInStep
  <2>3. cmd.byte \in {ToCodec, FromCodec}
    BY <2>2 DEF Is
  <2>4. QED
    BY <1>0, <2>1, <2>3 DEF CoreType, States
<1>16. CASE TxByte
  BY <1>16, <1>0, <1>c DEF TxByte, core, States
<1>17. CASE Refused
  BY <1>17, <1>0 DEF Refused, CoreType, States
<1>18. CASE ArbLost
  BY <1>18, <1>0 DEF ArbLost, CoreType, States
<1>19. CASE RxByte
  <2>1. /\ fsm = "RX_BYTE" /\ fsm' = "RX_ACK" /\ UNCHANGED <<en, cmd, dir, txf, nack, arb>>
        /\ rxf' = (IF Len(rxf) < Depth THEN Append(rxf, Sent) ELSE rxf)
    BY <1>19 DEF RxByte
  <2>2. Sent \in Byte
    BY <2>1, SentFacts
  <2>3. Append(rxf, Sent) \in Seq(Byte) /\ Len(Append(rxf, Sent)) = Len(rxf) + 1
    BY <1>0, <2>2, AppendProperties
  <2>4. Len(rxf) < Depth => Len(rxf) + 1 <= Depth
    BY <1>0
  <2>5. QED
    BY <1>0, <2>1, <2>3, <2>4 DEF CoreType, States
<1>20. CASE RxAck
  BY <1>20, <1>0, <1>c, <1>d DEF RxAck, Popped, States
<1>21. CASE GenStop
  BY <1>21, <1>0, <1>c DEF GenStop, core, States
<1>22. CASE Rest
  BY <1>22, <1>0, <1>c DEF Rest, core, States
<1>23. CASE Others
  BY <1>23, <1>0, <1>c DEF Others, core, States
<1>24. CASE UNCHANGED vars
  BY <1>0, <1>24, <1>c DEF vars, core
<1>25. QED
  BY <1>1, <1>2, <1>3, <1>4, <1>5, <1>6, <1>7, <1>8, <1>9, <1>10, <1>11, <1>12, <1>13,
     <1>14, <1>15, <1>16, <1>17, <1>18, <1>19, <1>20, <1>21, <1>22, <1>23, <1>24 DEF
     Next, Driver, Core

LEMMA CodecTyped ==
  ASSUME DriverType, CoreType, CodecType, DriverInStep, CoreInStep, CommandsInStep,
         StatesInStep, CodecInStep, [Next]_vars
  PROVE  CodecType'
<1>0. /\ bus \in {"free", "ours", "others"}
      /\ taken \in Seq(Byte) /\ Len(taken) <= 4 /\ given \in 0..2 /\ ptr \in [1..2 -> Byte]
      /\ regs \in [Names -> Values] /\ faults \in 0..MaxFaults /\ MaxFaults \in Nat
  BY CodecAssumption DEF CodecType
<1>1. CASE Driver
  <2>1. UNCHANGED outside
    BY <1>1, DriverLeavesCodec
  <2>2. QED
    BY <1>0, <2>1 DEF outside, CodecType
<1>2. CASE Start
  BY <1>2, <1>0 DEF Start, outside, CodecType
<1>3. CASE PopTxFifo
  BY <1>3, <1>0 DEF PopTxFifo, Popped, outside, CodecType
<1>4. CASE Address
  BY <1>4, <1>0, EmptySeq DEF Address, CodecType
<1>5. CASE TxByte
  <2> DEFINE t == Append(taken, cmd.byte)
  <2>1. /\ fsm = "TX_BYTE" /\ taken' = t /\ ptr' = (IF Len(t) = 2 THEN t ELSE ptr)
        /\ regs' = [r \in Names |-> IF Len(t) = 4 /\ ptr = Bytes(r) THEN t[4][2] ELSE regs[r]]
        /\ UNCHANGED <<bus, given, faults>>
    BY <1>5 DEF TxByte
  <2>2. /\ t \in Seq(Byte) /\ Len(t) = Eaten - 1 /\ Eaten \in 2..Size + 1
        /\ ~spoilt => \A k \in 1..Len(t) : t[k] = Asked[k]
    BY <2>1, TakenFacts
  <2> HIDE DEF t
  <2>3. Len(t) \in 1..Size /\ Size \in Nat /\ (Read => Size = 2) /\ (~Read => Size = 4)
    BY <2>2, Numbers
  <2>4. Len(t) <= 4
    BY <2>3
  <2>5. Len(t) = 2 => t \in [1..2 -> Byte]
    BY <2>2, LenProperties
  <2>6. ASSUME Len(t) = 4 PROVE t[4][2] \in Values
    <3>1. ~Read /\ 4 \in 1..Len(t)
      BY <2>3, <2>6
    <3>2. t[4] = Asked[4]
      BY <2>2, <2>6, <3>1 DEF DriverInStep
    <3>3. Asked[4] = <<2, Data>> /\ Data \in Values
      BY <3>1, AskedFacts DEF DriverType
    <3>4. QED
      BY <3>2, <3>3
  <2>7. regs' \in [Names -> Values]
    BY <1>0, <2>1, <2>6
  <2>8. QED
    BY <1>0, <2>1, <2>2, <2>4, <2>5, <2>7 DEF CodecType
<1>6. CASE Refused
  BY <1>6, <1>0 DEF Refused, outside, CodecType
<1>7. CASE ArbLost
  BY <1>7, <1>0 DEF ArbLost, outside, CodecType
<1>8. CASE RxByte
  <2>1. fsm = "RX_BYTE" /\ given' = given + 1 /\ UNCHANGED <<bus, taken, ptr, regs, faults>>
    BY <1>8 DEF RxByte
  <2>2. given + 1 \in 0..2
    BY <2>1, SentFacts
  <2>3. QED
    BY <1>0, <2>1, <2>2 DEF CodecType
<1>9. CASE RxAck
  BY <1>9, <1>0 DEF RxAck, Popped, outside, CodecType
<1>10. CASE GenStop
  BY <1>10, <1>0 DEF GenStop, outside, CodecType
<1>11. CASE Rest
  BY <1>11, <1>0 DEF Rest, outside, CodecType
<1>12. CASE Others
  BY <1>12, <1>0 DEF Others, outside, CodecType
<1>13. CASE UNCHANGED vars
  BY <1>0, <1>13 DEF vars, outside, CodecType
<1>14. QED
  BY <1>1, <1>2, <1>3, <1>4, <1>5, <1>6, <1>7, <1>8, <1>9, <1>10, <1>11, <1>12, <1>13
     DEF Next, Core

-----------------------------------------------------------------------------
(* The commands in the FIFO and in the shifter.                                *)
LEMMA CommandsFrame ==
  ASSUME DriverType, CoreType, CommandsInStep, UNCHANGED <<call, spoilt, txf>>,
         Written' = Written,
         Running' => Running,
         fsm' \in {"ADDR", "TX_BYTE", "RX_BYTE", "RX_ACK"} =>
           /\ fsm \in {"ADDR", "TX_BYTE", "RX_BYTE", "RX_ACK"}
           /\ UNCHANGED cmd
  PROVE  CommandsInStep' /\ Eaten' = Eaten
<1>1. Eaten' = Eaten
  BY DEF Eaten
<1>2. Asked' = Asked /\ Read' = Read /\ Size' = Size /\ Total' = Total
  BY CallStays
<1>3. ASSUME Running' PROVE (\A k \in 1..Len(txf) : Is(Eaten + k, txf[k]))'
  <2>1. \A k \in 1..Len(txf) : Is(Eaten + k, txf[k])
    BY <1>3 DEF CommandsInStep
  <2>2. QED
    BY <1>1, <1>2, <2>1 DEF Is
<1>4. ASSUME Running', fsm' \in {"ADDR", "TX_BYTE", "RX_BYTE", "RX_ACK"} PROVE Is(Eaten, cmd)'
  <2>1. Is(Eaten, cmd) /\ UNCHANGED cmd
    BY <1>4 DEF CommandsInStep
  <2>2. QED
    BY <1>1, <1>2, <2>1 DEF Is
<1>5. Running' => (Eaten \in 0..Total)'
  BY <1>1, <1>2 DEF CommandsInStep
<1>6. QED
  BY <1>1, <1>3, <1>4, <1>5 DEF CommandsInStep

(* The core takes a command out of the FIFO.                                   *)
LEMMA CommandsPop ==
  ASSUME DriverType, CoreType, DriverInStep, CommandsInStep, Running, UNCHANGED driver,
         txf # <<>>, cmd' = Head(txf), txf' = Tail(txf)
  PROVE  /\ CommandsInStep' /\ Eaten' = Eaten + 1 /\ Eaten + 1 \in 1..Total
         /\ Is(Eaten + 1, Head(txf))
<1>1. UNCHANGED <<call, spoilt, phase, sent>>
  BY DEF driver
<1>2. Asked' = Asked /\ Read' = Read /\ Size' = Size /\ Total' = Total /\ Written' = Written
  BY <1>1, CallStays DEF Written
<1>3. /\ Head(txf) = txf[1] /\ Len(txf) \in Nat /\ Len(txf) > 0 /\ Len(Tail(txf)) = Len(txf) - 1
      /\ \A i \in 1..Len(txf) - 1 : Tail(txf)[i] = txf[i + 1]
  BY PopFacts DEF CoreType
<1>4. /\ Written \in Nat /\ Eaten \in Int /\ Written = Eaten + Len(txf)
      /\ Eaten = Written - Len(txf)
      /\ Total \in Nat /\ Eaten \in 0..Total
  BY EatenFacts, Numbers DEF CommandsInStep, Eaten
<1>5. Eaten' = Eaten + 1
  <2>1. Eaten' = Written - Len(Tail(txf))
    BY <1>2 DEF Eaten
  <2>2. QED
    BY <1>3, <1>4, <2>1
<1>6. \A k \in 1..Len(txf) : Is(Eaten + k, txf[k])
  BY DEF CommandsInStep
<1>7. Is(Eaten + 1, Head(txf))
  BY <1>3, <1>6
<1>8. Is(Eaten, cmd)'
  <2>1. ASSUME NEW i, NEW c, Is(i, c), Eaten' = i, cmd' = c PROVE Is(Eaten, cmd)'
    BY <1>1, <1>2, <2>1 DEF Is
  <2>2. QED
    BY <1>5, <1>7, <2>1
<1>9. ASSUME NEW k \in 1..Len(txf) - 1 PROVE Is(Eaten + 1 + k, Tail(txf)[k])
  <2>1. k + 1 \in 1..Len(txf) /\ Eaten + (k + 1) = Eaten + 1 + k
    BY <1>3, <1>4
  <2>2. QED
    BY <1>3, <1>6, <2>1
<1>10. (\A k \in 1..Len(txf) : Is(Eaten + k, txf[k]))'
  <2>1. ASSUME NEW k \in 1..Len(txf') PROVE Is(Eaten + k, txf[k])'
    <3>1. ASSUME NEW i, NEW c, Is(i, c), Eaten' + k = i, txf'[k] = c PROVE Is(Eaten + k, txf[k])'
      BY <1>1, <1>2, <3>1 DEF Is
    <3>2. Is(Eaten + 1 + k, Tail(txf)[k])
      BY <1>3, <1>9
    <3>3. QED
      BY <1>5, <3>1, <3>2
  <2>2. QED
    BY <2>1
<1>11. Eaten + 1 \in 1..Total
  <2>1. Written <= Total
    BY WrittenFacts
  <2>2. QED
    BY <1>3, <1>4, <2>1
<1>12. QED
  BY <1>2, <1>5, <1>7, <1>8, <1>10, <1>11 DEF CommandsInStep

LEMMA CommandsStayInStep ==
  ASSUME DriverType, CoreType, DriverInStep, StatusInStep, CoreInStep, CommandsInStep,
         StatesInStep, FetchedInStep, [Next]_vars
  PROVE  CommandsInStep'
<1> SUFFICES ASSUME Running' PROVE CommandsInStep'
  BY DEF CommandsInStep
<1> DEFINE Shifting == fsm \in {"ADDR", "TX_BYTE", "RX_BYTE", "RX_ACK"}
<1>1. CASE (Driver \/ UNCHANGED vars) /\ ~Counts
  <2>1. /\ Running /\ Written' = Written /\ UNCHANGED <<call, spoilt, txf, cmd>>
        /\ fsm' = fsm \/ (fsm = "PRE_IDLE" /\ fsm' = "IDLE")
    BY <1>1, DriverKeeps
  <2>2. QED
    BY <2>1, CommandsFrame
<1>2. CASE ClearIsr \/ Return
  <2>1. Eaten' = 0 /\ txf' = <<>> /\ Len(txf') = 0 /\ ~Shifting'
    BY <1>2, CountBegins, EmptySeq DEF Away
  <2>2. Total' \in Nat
    BY DEF Total
  <2>3. QED
    BY <2>1, <2>2 DEF CommandsInStep
<1>3. CASE CmdWrite
  <2> DEFINE c == Commands[sent + 1]
  <2>1. /\ Running /\ Eaten' = Eaten /\ Is(Written + 1, c) /\ c \in Cmd
        /\ txf' = Append(txf, c) /\ UNCHANGED <<call, spoilt, cmd>>
        /\ (Shifting' => Shifting)
    BY <1>3, CommandWritten
  <2> HIDE DEF c
  <2>2. Asked' = Asked /\ Read' = Read /\ Size' = Size /\ Total' = Total
    BY <2>1, CallStays
  <2>3. /\ Eaten \in 0..Total /\ \A k \in 1..Len(txf) : Is(Eaten + k, txf[k])
        /\ Shifting => Is(Eaten, cmd)
    BY <2>1 DEF CommandsInStep
  <2>4. /\ Len(Append(txf, c)) = Len(txf) + 1 /\ Append(txf, c)[Len(txf) + 1] = c
        /\ \A k \in 1..Len(txf) : Append(txf, c)[k] = txf[k]
    BY <2>1, AppendProperties DEF CoreType
  <2>5. Len(txf) \in Nat /\ Eaten + (Len(txf) + 1) = Written + 1
    BY EatenFacts
  <2>6. ASSUME NEW k \in 1..Len(txf') PROVE Is(Eaten + k, txf[k])'
    <3>1. ASSUME NEW i, NEW d, Is(i, d), Eaten' + k = i, txf'[k] = d PROVE Is(Eaten + k, txf[k])'
      BY <2>1, <2>2, <3>1 DEF Is
    <3>2. CASE k \in 1..Len(txf)
      BY <2>1, <2>3, <2>4, <3>1, <3>2
    <3>3. CASE k = Len(txf) + 1
      BY <2>1, <2>4, <2>5, <3>1, <3>3
    <3>4. k \in 1..Len(txf) \/ k = Len(txf) + 1
      BY <2>1, <2>4, <2>5
    <3>5. QED
      BY <3>2, <3>3, <3>4
  <2>7. Shifting' => Is(Eaten, cmd)'
    BY <2>1, <2>2, <2>3 DEF Is
  <2>8. QED
    BY <2>1, <2>2, <2>3, <2>6, <2>7 DEF CommandsInStep
<1>4. CASE Start \/ PopTxFifo
  <2>1. /\ txf # <<>> /\ cmd' = Head(txf) /\ txf' = Tail(txf) /\ UNCHANGED driver
        /\ UNCHANGED <<nack, arb>>
    BY <1>4 DEF Start, PopTxFifo
  <2>2. QED
    BY <2>1, CommandsPop DEF driver, Running, Flush, Fresh
<1>5. CASE Address \/ TxByte \/ RxByte \/ GenStop \/ Rest \/ Others
  <2>1. /\ UNCHANGED driver /\ UNCHANGED <<nack, arb, txf, cmd>> /\ (Shifting' => Shifting)
    BY <1>5 DEF Address, TxByte, RxByte, GenStop, Rest, Others, core
  <2>2. Running /\ Written' = Written
    BY <2>1 DEF driver, Running, Flush, Fresh, Written
  <2>3. QED
    BY <2>1, <2>2, CommandsFrame DEF driver
<1>6. CASE RxAck
  <2>1. UNCHANGED driver /\ UNCHANGED <<nack, arb>>
    BY <1>6 DEF RxAck
  <2>2. Running /\ Written' = Written
    BY <2>1 DEF driver, Running, Flush, Fresh, Written
  <2>3. CASE txf # <<>> /\ cmd' = Head(txf) /\ txf' = Tail(txf)
    BY <2>1, <2>2, <2>3, CommandsPop
  <2>4. CASE UNCHANGED <<cmd, txf>> /\ fsm' = "GEN_STOP"
    BY <2>1, <2>2, <2>4, CommandsFrame DEF driver
  <2>5. QED
    BY <1>6, <2>3, <2>4 DEF RxAck
<1>7. CASE Refused \/ ArbLost
  BY <1>7 DEF Refused, ArbLost, Running, Flush
<1>8. QED
  BY <1>1, <1>2, <1>3, <1>4, <1>5, <1>6, <1>7 DEF Next, Core, Counts

-----------------------------------------------------------------------------
(* The state of the core, and what the codec has seen.                         *)
LEMMA StatesFrame ==
  ASSUME StatesInStep, Running, UNCHANGED <<call, dir>>, Eaten' = Eaten,
         fsm' = fsm \/ (Away /\ Away') \/ (fsm' = "PRE_START" /\ Eaten = 0)
  PROVE  StatesInStep'
<1>1. Asked' = Asked /\ Read' = Read /\ Size' = Size /\ Total' = Total
  BY CallStays
<1>2. CASE fsm' = fsm
  BY <1>1, <1>2 DEF StatesInStep, Away
<1>3. CASE Away /\ Away'
  BY <1>1, <1>3 DEF StatesInStep, Away
<1>4. CASE fsm' = "PRE_START" /\ Eaten = 0
  BY <1>4 DEF StatesInStep, Away
<1>5. QED
  BY <1>2, <1>3, <1>4

LEMMA CodecFrame ==
  ASSUME CodecInStep, Running, UNCHANGED <<call, spoilt, dir, taken, given, ptr, regs>>,
         Eaten' = Eaten, fsm' = fsm \/ (Away /\ Away') \/ (fsm' = "PRE_START" /\ Eaten = 0)
  PROVE  CodecInStep'
<1>1. Asked' = Asked /\ Read' = Read /\ Reg' = Reg /\ Data' = Data
  BY CallStays
<1>2. CASE fsm' = fsm
  BY <1>1, <1>2 DEF CodecInStep, Away
<1>3. CASE Away /\ Away'
  BY <1>1, <1>3 DEF CodecInStep, Away
<1>4. CASE fsm' = "PRE_START" /\ Eaten = 0
  <2>1. ~(Eaten' > 3 \/ (Eaten' = 3 /\ fsm' = "HOLD")) /\ Eaten' # 5
    BY <1>4
  <2>2. QED
    BY <1>4, <2>1 DEF CodecInStep, Away
<1>5. QED
  BY <1>2, <1>3, <1>4

(* The state that a command leads to.                                          *)
LEMMA PoppedFacts ==
  ASSUME DriverType, CoreType, CodecType, DriverInStep, CoreInStep, CommandsInStep, StatesInStep,
         CodecInStep, NEW c, Is(Eaten + 1, c), Eaten + 1 \in 1..Total,
         fsm = "HOLD" \/ (fsm = "RX_ACK" /\ Eaten # Total)
  PROVE  LET i == Eaten + 1 IN
         \/ /\ Popped(c) = "ADDR" /\ Read /\ i = 4
            /\ ~spoilt => ptr = Bytes(Reg)
         \/ /\ Popped(c) = "TX_BYTE" /\ i \in 2..Size + 1 /\ dir = ToCodec /\ Len(taken) = i - 2
            /\ ~spoilt => \A k \in 1..Len(taken) : taken[k] = Asked[k]
            /\ ~spoilt /\ i > 3 => ptr = Bytes(Reg)
         \/ /\ Popped(c) = "RX_BYTE" /\ Read /\ i \in 5..6 /\ dir = FromCodec /\ given = i - 5
            /\ ~spoilt => ptr = Bytes(Reg)
<1>1. Running /\ Eaten \in Int
  BY Busy, EatenFacts
<1>2. /\ (Read => Size = 2 /\ Total = 6) /\ (~Read => Size = 4 /\ Total = 5)
  BY Numbers
<1>3. c.restart <=> (Read /\ Eaten + 1 = 4)
  BY DEF Is
<1>4. ToCodec # FromCodec
  BY DEF ToCodec, FromCodec
<1>5. CASE fsm = "HOLD"
  <2>1. /\ Eaten \in 1..4 /\ dir = (IF Read /\ Eaten = 4 THEN FromCodec ELSE ToCodec)
        /\ dir = ToCodec => Len(taken) = Eaten - 1
        /\ ~spoilt => \A k \in 1..Len(taken) : taken[k] = Asked[k]
        /\ ~spoilt /\ (Eaten > 3 \/ Eaten = 3) => ptr = Bytes(Reg)
        /\ dir = FromCodec => given = 0
    BY <1>1, <1>5 DEF StatesInStep, CodecInStep
  <2>2. CASE Read /\ Eaten = 3
    BY <1>3, <2>1, <2>2 DEF Popped
  <2>3. CASE Read /\ Eaten = 4
    <3>1. dir = FromCodec /\ given = 0 /\ ~c.restart
      BY <1>3, <2>1, <2>3
    <3>2. Popped(c) = "RX_BYTE" /\ Eaten + 1 \in 5..6 /\ given = Eaten + 1 - 5
      BY <1>4, <2>3, <3>1 DEF Popped
    <3>3. QED
      BY <2>1, <2>3, <3>1, <3>2
  <2>4. CASE ~(Read /\ Eaten \in {3, 4})
    <3>1. dir = ToCodec /\ ~c.restart
      BY <1>1, <1>3, <2>1, <2>4
    <3>2. Popped(c) = "TX_BYTE"
      BY <3>1 DEF Popped
    <3>3. Eaten + 1 \in 2..Size + 1
      BY <1>2, <2>1, <2>4
    <3>4. Len(taken) = Eaten + 1 - 2
      BY <1>1, <2>1, <3>1
    <3>5. Eaten + 1 > 3 => Eaten > 3 \/ Eaten = 3
      BY <1>1
    <3>6. QED
      BY <2>1, <3>1, <3>2, <3>3, <3>4, <3>5
  <2>5. QED
    BY <2>1, <2>2, <2>3, <2>4
<1>6. CASE fsm = "RX_ACK" /\ Eaten # Total
  <2>1. Read /\ Eaten \in 5..6 /\ dir = FromCodec /\ given = Eaten - 4
    BY <1>1, <1>6 DEF StatesInStep, CodecInStep
  <2>2. Eaten = 5
    BY <1>2, <1>6, <2>1
  <2>3. ~spoilt => ptr = Bytes(Reg)
    BY <1>1, <2>2 DEF CodecInStep
  <2>4. ~c.restart
    BY <1>3, <2>2
  <2>5. Popped(c) = "RX_BYTE"
    BY <1>4, <2>1, <2>4 DEF Popped
  <2>6. Eaten + 1 \in 5..6 /\ given = Eaten + 1 - 5
    BY <2>1, <2>2
  <2>7. QED
    BY <2>1, <2>3, <2>5, <2>6
<1>7. QED
  BY <1>5, <1>6

LEMMA PopStays ==
  ASSUME DriverType, CoreType, CodecType, DriverInStep, CoreInStep, CommandsInStep, StatesInStep,
         CodecInStep, fsm = "HOLD" \/ (fsm = "RX_ACK" /\ Eaten # Total), txf # <<>>,
         cmd' = Head(txf), txf' = Tail(txf), fsm' = Popped(Head(txf)), UNCHANGED driver,
         UNCHANGED <<dir, taken, given, ptr, regs>>
  PROVE  StatesInStep' /\ CodecInStep' /\ Eaten' = Eaten + 1
<1> DEFINE c == Head(txf)
           i == Eaten + 1
<1>1. Eaten' = i /\ i \in 1..Total /\ Is(i, c)
  BY Busy, CommandsPop
<1>2. UNCHANGED <<call, spoilt>>
  BY DEF driver
<1>3. /\ Asked' = Asked /\ Read' = Read /\ Reg' = Reg /\ Data' = Data
      /\ Size' = Size /\ Total' = Total
  BY <1>2, CallStays
<1>4. \/ /\ Popped(c) = "ADDR" /\ Read /\ i = 4
         /\ ~spoilt => ptr = Bytes(Reg)
      \/ /\ Popped(c) = "TX_BYTE" /\ i \in 2..Size + 1 /\ dir = ToCodec /\ Len(taken) = i - 2
         /\ ~spoilt => \A k \in 1..Len(taken) : taken[k] = Asked[k]
         /\ ~spoilt /\ i > 3 => ptr = Bytes(Reg)
      \/ /\ Popped(c) = "RX_BYTE" /\ Read /\ i \in 5..6 /\ dir = FromCodec /\ given = i - 5
         /\ ~spoilt => ptr = Bytes(Reg)
  BY <1>1, PoppedFacts
<1> HIDE DEF c, i
<1>5. fsm' = Popped(c)
  BY DEF c
<1>6. CASE Popped(c) = "ADDR" /\ Read /\ i = 4 /\ (~spoilt => ptr = Bytes(Reg))
  BY <1>1, <1>2, <1>3, <1>5, <1>6 DEF StatesInStep, CodecInStep, Away, i
<1>7. CASE /\ Popped(c) = "TX_BYTE" /\ i \in 2..Size + 1 /\ dir = ToCodec /\ Len(taken) = i - 2
           /\ ~spoilt => \A k \in 1..Len(taken) : taken[k] = Asked[k]
           /\ ~spoilt /\ i > 3 => ptr = Bytes(Reg)
  <2>1. Eaten' = i /\ fsm' = "TX_BYTE"
    BY <1>1, <1>5, <1>7
  <2>2. StatesInStep'
    BY <1>3, <1>7, <2>1 DEF StatesInStep, Away
  <2>3. CodecInStep'
    BY <1>2, <1>3, <1>7, <2>1 DEF CodecInStep, Away
  <2>4. QED
    BY <2>1, <2>2, <2>3 DEF i
<1>8. CASE /\ Popped(c) = "RX_BYTE" /\ Read /\ i \in 5..6 /\ dir = FromCodec /\ given = i - 5
           /\ ~spoilt => ptr = Bytes(Reg)
  <2>1. Eaten' = i /\ fsm' = "RX_BYTE"
    BY <1>1, <1>5, <1>8
  <2>2. StatesInStep'
    BY <1>3, <1>8, <2>1 DEF StatesInStep, Away
  <2>3. CodecInStep'
    BY <1>2, <1>3, <1>8, <2>1 DEF CodecInStep, Away
  <2>4. QED
    BY <2>1, <2>2, <2>3 DEF i
<1>9. QED
  BY <1>4, <1>6, <1>7, <1>8

LEMMA AddressFacts ==
  ASSUME DriverType, CoreType, CoreInStep, CommandsInStep, StatesInStep, fsm = "ADDR"
  PROVE  /\ Running /\ Eaten \in {1, 4}
         /\ cmd.byte = IF Read /\ Eaten = 4 THEN FromCodec ELSE ToCodec
<1>1. Running /\ (Eaten = 1 \/ (Read /\ Eaten = 4)) /\ Is(Eaten, cmd)
  BY Busy DEF StatesInStep, CommandsInStep
<1>2. QED
  BY <1>1 DEF Is

LEMMA StatesStayInStep ==
  ASSUME DriverType, CoreType, CodecType, DriverInStep, StatusInStep, CoreInStep, CommandsInStep,
         StatesInStep, CodecInStep, FetchedInStep, [Next]_vars
  PROVE  StatesInStep'
<1> SUFFICES ASSUME Running' PROVE StatesInStep'
  BY DEF StatesInStep
<1>0. /\ Core \/ Others => Read' = Read /\ Size' = Size /\ Total' = Total /\ Written' = Written
      /\ Core \/ Others => UNCHANGED driver /\ UNCHANGED <<call, spoilt>>
  BY CoreLeavesDriver, CallStays DEF driver, Written
<1>1. CASE (Driver \/ UNCHANGED vars) /\ ~Counts
  <2>1. /\ Running /\ Eaten' = Eaten /\ UNCHANGED <<call, dir>>
        /\ fsm' = fsm \/ (fsm = "PRE_IDLE" /\ fsm' = "IDLE")
    BY <1>1, DriverKeeps
  <2>2. QED
    BY <2>1, StatesFrame DEF Away
<1>2. CASE ClearIsr \/ Return
  <2>1. Eaten' = 0 /\ (Away' \/ fsm' = "PRE_START")
    BY <1>2, CountBegins
  <2>2. QED
    BY <2>1 DEF StatesInStep, Away
<1>3. CASE CmdWrite
  <2>1. /\ Running /\ Eaten' = Eaten /\ UNCHANGED <<call, dir>>
        /\ fsm' = fsm \/ (fsm' = "PRE_START" /\ Eaten = 0)
    BY <1>3, CommandWritten
  <2>2. QED
    BY <2>1, StatesFrame
<1>4. CASE Start
  <2>1. /\ fsm = "PRE_START" /\ fsm' = "ADDR" /\ txf # <<>> /\ cmd' = Head(txf)
        /\ txf' = Tail(txf)
        /\ UNCHANGED driver /\ UNCHANGED <<nack, arb>>
    BY <1>4 DEF Start
  <2>2. Running
    BY <2>1 DEF driver, Running, Fresh, Flush
  <2>3. Eaten = 0
    BY <2>1, <2>2 DEF StatesInStep
  <2>4. Eaten' = Eaten + 1
    BY <2>1, <2>2, CommandsPop
  <2>5. Eaten' = 1
    BY <2>3, <2>4
  <2>6. QED
    BY <2>1, <2>5 DEF StatesInStep, Away
<1>5. CASE PopTxFifo
  BY <1>0, <1>5, PopStays DEF PopTxFifo, outside, Core
<1>6. CASE Address
  <2>1. /\ fsm = "ADDR" /\ fsm' = "HOLD" /\ dir' = cmd.byte /\ UNCHANGED txf
    BY <1>6 DEF Address
  <2>2. Eaten \in {1, 4} /\ cmd.byte = IF Read /\ Eaten = 4 THEN FromCodec ELSE ToCodec
    BY <2>1, AddressFacts
  <2>3. Eaten' = Eaten /\ Read' = Read
    BY <1>0, <1>6, <2>1 DEF Eaten, Core
  <2>4. QED
    BY <2>1, <2>2, <2>3 DEF StatesInStep, Away
<1>7. CASE TxByte
  <2>1. /\ fsm = "TX_BYTE" /\ fsm' = (IF cmd.stop THEN "GEN_STOP" ELSE "HOLD")
        /\ UNCHANGED <<txf, dir>>
    BY <1>7 DEF TxByte
  <2>2. Eaten \in 2..Size + 1 /\ dir = ToCodec /\ (cmd.stop <=> Eaten = Total)
    BY <2>1, TakenFacts
  <2>3. Eaten' = Eaten /\ Read' = Read /\ Total' = Total
    BY <1>0, <1>7, <2>1 DEF Eaten, Core
  <2>4. (Read => Size = 2 /\ Total = 6) /\ (~Read => Size = 4 /\ Total = 5)
    BY Numbers
  <2>5. CASE Eaten = Total
    BY <2>1, <2>2, <2>3, <2>5 DEF StatesInStep, Away
  <2>6. CASE Eaten # Total
    <3>1. Eaten \in 1..4 /\ ~(Read /\ Eaten = 4)
      BY <2>2, <2>4, <2>6
    <3>2. fsm' = "HOLD" /\ dir' = ToCodec
      BY <2>1, <2>2, <2>6
    <3>3. QED
      BY <2>3, <3>1, <3>2 DEF StatesInStep, Away
  <2>7. QED
    BY <2>5, <2>6
<1>8. CASE RxByte
  <2>1. fsm = "RX_BYTE" /\ fsm' = "RX_ACK" /\ UNCHANGED <<txf, dir>>
    BY <1>8 DEF RxByte
  <2>2. Read /\ Eaten \in 5..6 /\ dir = FromCodec
    BY <2>1, Busy DEF StatesInStep
  <2>3. Eaten' = Eaten /\ Read' = Read
    BY <1>0, <1>8, <2>1 DEF Eaten, Core
  <2>4. QED
    BY <2>1, <2>2, <2>3 DEF StatesInStep, Away
<1>9. CASE RxAck
  <2>1. fsm = "RX_ACK" /\ Running /\ Read /\ Eaten \in 5..6 /\ Is(Eaten, cmd)
    BY <1>9, Busy DEF RxAck, StatesInStep, CommandsInStep
  <2>2. cmd.stop <=> Eaten = Total
    BY <2>1 DEF Is
  <2>3. CASE cmd.stop
    <3>1. fsm' = "GEN_STOP" /\ UNCHANGED txf
      BY <1>9, <2>3 DEF RxAck
    <3>2. Eaten' = Eaten /\ Total' = Total
      BY <1>0, <1>9, <3>1 DEF Eaten, Core
    <3>3. QED
      BY <2>2, <2>3, <3>1, <3>2 DEF StatesInStep, Away
  <2>4. CASE ~cmd.stop
    BY <1>0, <1>9, <2>1, <2>2, <2>4, PopStays DEF RxAck, outside, Core
  <2>5. QED
    BY <2>3, <2>4
<1>10. CASE GenStop
  <2>1. /\ fsm = "GEN_STOP" /\ fsm' = (IF txf = <<>> THEN "PRE_IDLE" ELSE "PRE_START")
        /\ UNCHANGED <<txf, dir, nack, arb>>
    BY <1>10 DEF GenStop
  <2>2. Running /\ Eaten' = Eaten /\ UNCHANGED call
    BY <1>0, <1>10, <2>1 DEF Eaten, Core, driver, Running, Fresh, Flush
  <2>3. Eaten \in {0, Total}
    BY <2>1, <2>2 DEF StatesInStep, Away
  <2>4. txf # <<>> => Eaten = 0
    <3>1. txf # <<>> => Len(txf) > 0
      BY EmptySeq DEF CoreType
    <3>2. Written = Eaten + Len(txf) /\ Written \in 0..Total /\ Total \in Nat /\ Len(txf) \in Nat
      BY EatenFacts, WrittenFacts, Numbers
    <3>3. QED
      BY <2>3, <3>1, <3>2
  <2>5. QED
    BY <2>1, <2>2, <2>4, StatesFrame DEF Away
<1>11. CASE Rest \/ Others
  <2>1. (fsm' = fsm \/ (Away /\ Away')) /\ UNCHANGED <<txf, dir, nack, arb>>
    BY <1>11 DEF Rest, Others, core, Away
  <2>2. Running /\ Eaten' = Eaten /\ UNCHANGED call
    BY <1>0, <1>11, <2>1 DEF Eaten, Core, driver, Running, Fresh, Flush
  <2>3. QED
    BY <2>1, <2>2, StatesFrame
<1>12. CASE Refused \/ ArbLost
  BY <1>12 DEF Refused, ArbLost, Running, Flush
<1>13. QED
  BY <1>1, <1>2, <1>3, <1>4, <1>5, <1>6, <1>7, <1>8, <1>9, <1>10, <1>11, <1>12
     DEF Next, Core, Counts

LEMMA CodecStaysInStep ==
  ASSUME DriverType, CoreType, CodecType, DriverInStep, StatusInStep, CoreInStep, CommandsInStep,
         StatesInStep, CodecInStep, FetchedInStep, [Next]_vars
  PROVE  CodecInStep'
<1> SUFFICES ASSUME Running' PROVE CodecInStep'
  BY DEF CodecInStep
<1>0. /\ Core \/ Others => /\ Read' = Read /\ Asked' = Asked /\ Reg' = Reg /\ Data' = Data
                           /\ Written' = Written
      /\ Core \/ Others => UNCHANGED driver /\ UNCHANGED <<call, spoilt>>
  BY CoreLeavesDriver, CallStays DEF driver, Written
<1>1. CASE (Driver \/ UNCHANGED vars) /\ ~Counts
  <2>1. /\ Running /\ Eaten' = Eaten /\ UNCHANGED <<call, spoilt, dir>> /\ UNCHANGED outside
        /\ fsm' = fsm \/ (fsm = "PRE_IDLE" /\ fsm' = "IDLE")
    BY <1>1, DriverKeeps
  <2>2. QED
    BY <2>1, CodecFrame DEF Away, outside
<1>2. CASE ClearIsr \/ Return
  <2>1. Eaten' = 0 /\ (Away' \/ fsm' = "PRE_START")
    BY <1>2, CountBegins
  <2>2. ~(Eaten' > 3 \/ Eaten' = 3) /\ Eaten' # 5
    BY <2>1
  <2>3. QED
    BY <2>1, <2>2 DEF CodecInStep, Away
<1>3. CASE CmdWrite
  <2>1. /\ Running /\ Eaten' = Eaten /\ UNCHANGED <<call, spoilt, dir>> /\ UNCHANGED outside
        /\ fsm' = fsm \/ (fsm' = "PRE_START" /\ Eaten = 0)
    BY <1>3, CommandWritten
  <2>2. QED
    BY <2>1, CodecFrame DEF outside
<1>4. CASE Start
  <2>1. /\ fsm = "PRE_START" /\ fsm' = "ADDR" /\ txf # <<>> /\ cmd' = Head(txf)
        /\ txf' = Tail(txf)
        /\ UNCHANGED driver /\ UNCHANGED <<nack, arb>>
    BY <1>4 DEF Start
  <2>2. Running
    BY <2>1 DEF driver, Running, Fresh, Flush
  <2>3. Eaten = 0
    BY <2>1, <2>2 DEF StatesInStep
  <2>4. Eaten' = Eaten + 1
    BY <2>1, <2>2, CommandsPop
  <2>5. Eaten' = 1 /\ ~(Eaten' > 3 \/ Eaten' = 3) /\ Eaten' # 5
    BY <2>3, <2>4
  <2>6. QED
    BY <2>1, <2>5 DEF CodecInStep, Away
<1>5. CASE PopTxFifo
  BY <1>0, <1>5, PopStays DEF PopTxFifo, outside, Core
<1>6. CASE Address
  <2>1. /\ fsm = "ADDR" /\ fsm' = "HOLD" /\ dir' = cmd.byte /\ taken' = <<>> /\ given' = 0
        /\ UNCHANGED <<txf, ptr>>
    BY <1>6 DEF Address
  <2>2. Eaten \in {1, 4} /\ cmd.byte = IF Read /\ Eaten = 4 THEN FromCodec ELSE ToCodec
    BY <2>1, AddressFacts
  <2>3. /\ Eaten' = Eaten /\ Read' = Read /\ UNCHANGED spoilt /\ Reg' = Reg /\ Asked' = Asked
    BY <1>0, <1>6, <2>1 DEF Eaten, Core
  <2>4. ~spoilt /\ Eaten > 3 => ptr = Bytes(Reg)
    BY <2>1, Busy DEF CodecInStep
  <2>5. ToCodec # FromCodec /\ Len(taken') = 0
    BY <2>1, EmptySeq DEF ToCodec, FromCodec
  <2>6. ~spoilt' /\ (Eaten' > 3 \/ (Eaten' = 3 /\ fsm' = "HOLD")) => ptr' = Bytes(Reg')
    BY <2>1, <2>2, <2>3, <2>4
  <2>7. dir' = ToCodec => Len(taken') = Eaten' - 1
    <3>1. CASE Eaten = 1
      BY <2>3, <2>5, <3>1
    <3>2. CASE Eaten = 4
      <4>1. Read
        BY <2>1, <3>2, Busy DEF StatesInStep
      <4>2. QED
        BY <2>1, <2>2, <2>5, <3>2, <4>1
    <3>3. QED
      BY <2>2, <3>1, <3>2
  <2>8. \A k \in 1..Len(taken') : FALSE
    BY <2>5
  <2>9. QED
    BY <2>1, <2>6, <2>7, <2>8 DEF CodecInStep, Away
<1>7. CASE TxByte
  <2> DEFINE t == Append(taken, cmd.byte)
  <2>1. /\ fsm = "TX_BYTE" /\ fsm' = (IF cmd.stop THEN "GEN_STOP" ELSE "HOLD")
        /\ taken' = t /\ ptr' = (IF Len(t) = 2 THEN t ELSE ptr)
        /\ regs' = [r \in Names |-> IF Len(t) = 4 /\ ptr = Bytes(r) THEN t[4][2] ELSE regs[r]]
        /\ UNCHANGED <<txf, dir>>
    BY <1>7 DEF TxByte
  <2>2. /\ Eaten \in 2..Size + 1 /\ dir = ToCodec /\ (cmd.stop <=> Eaten = Total)
        /\ t \in Seq(Byte) /\ Len(t) = Eaten - 1
        /\ ~spoilt => \A k \in 1..Len(t) : t[k] = Asked[k]
    BY <2>1, TakenFacts
  <2> HIDE DEF t
  <2>3. /\ Eaten' = Eaten /\ UNCHANGED spoilt /\ Read' = Read /\ Reg' = Reg /\ Data' = Data
        /\ Asked' = Asked
    BY <1>0, <1>7, <2>1 DEF Eaten, Core
  <2>4. (Read => Size = 2 /\ Total = 6) /\ (~Read => Size = 4 /\ Total = 5)
    BY Numbers
  <2>5. Running /\ (~spoilt /\ Eaten > 3 => ptr = Bytes(Reg))
    BY <2>1, Busy DEF CodecInStep
  <2>6. ToCodec # FromCodec
    BY DEF ToCodec, FromCodec
  <2>7. ASSUME ~spoilt', Eaten' > 3 \/ (Eaten' = 3 /\ fsm' = "HOLD") PROVE ptr' = Bytes(Reg')
    <3>1. CASE Eaten = 3
      <4>1. Len(t) = 2 /\ 1 \in 1..Len(t) /\ 2 \in 1..Len(t)
        BY <2>2, <3>1
      <4>2. t[1] = Asked[1] /\ t[2] = Asked[2]
        BY <2>2, <2>3, <2>7, <4>1
      <4>3. Asked[1] = <<1, Reg>> /\ Asked[2] = <<2, Reg>> /\ Reg \in Names
        BY AskedFacts DEF DriverType
      <4>4. Bytes(Reg) \in Seq(Byte) /\ Len(Bytes(Reg)) = 2
            /\ Bytes(Reg)[1] = <<1, Reg>> /\ Bytes(Reg)[2] = <<2, Reg>>
        BY <4>3, BytesFacts
      <4>5. \A k \in 1..Len(t) : t[k] = Bytes(Reg)[k]
        <5>1. \A k \in 1..2 : k = 1 \/ k = 2
          OBVIOUS
        <5>2. QED
          BY <4>1, <4>2, <4>3, <4>4, <5>1
      <4>6. t \in Seq(Byte) /\ Len(t) = Len(Bytes(Reg)) /\ Bytes(Reg) \in Seq(Byte)
        BY <2>2, <4>1, <4>4
      <4>7. t = Bytes(Reg)
        BY <4>5, <4>6, SeqEqual
      <4>8. QED
        BY <2>1, <2>3, <4>1, <4>7
    <3>2. CASE Eaten # 3
      <4>1. Eaten > 3 /\ Len(t) # 2
        BY <2>2, <2>3, <2>7, <3>2
      <4>2. QED
        BY <2>1, <2>3, <2>5, <2>7, <4>1
    <3>3. QED
      BY <3>1, <3>2
  <2>8. ASSUME ~Read', Eaten' = 5 PROVE regs'[Reg'] = Data'
    <3>1. ~Read /\ Eaten = 5 /\ ~spoilt
      BY <2>3, <2>8 DEF DriverInStep
    <3>2. Len(t) = 4 /\ 4 \in 1..Len(t) /\ Eaten > 3
      BY <2>2, <3>1
    <3>3. t[4] = Asked[4]
      BY <2>2, <3>1, <3>2
    <3>4. Asked[4] = <<2, Data>> /\ Reg \in Names
      BY <3>1, AskedFacts DEF DriverType
    <3>5. t[4][2] = Data /\ ptr = Bytes(Reg)
      BY <2>5, <3>1, <3>2, <3>3, <3>4
    <3>6. regs'[Reg] = t[4][2]
      BY <2>1, <3>2, <3>4, <3>5
    <3>7. QED
      BY <2>3, <3>5, <3>6
  <2>9. /\ fsm' \in {"GEN_STOP", "HOLD"} /\ dir' = ToCodec /\ dir' # FromCodec
        /\ Len(taken') = Eaten' - 1
        /\ ~spoilt' => \A k \in 1..Len(taken') : taken'[k] = Asked'[k]
    BY <2>1, <2>2, <2>3, <2>6
  <2>10. QED
    BY <2>7, <2>8, <2>9 DEF CodecInStep
<1>8. CASE RxByte
  <2>1. fsm = "RX_BYTE" /\ fsm' = "RX_ACK" /\ given' = given + 1 /\ UNCHANGED <<txf, ptr>>
    BY <1>8 DEF RxByte
  <2>2. Eaten \in 5..6 /\ given = Eaten - 5 /\ (~spoilt => ptr = Bytes(Reg))
    <3>1. Running /\ Eaten \in 5..6 /\ given = Eaten - 5
      BY <2>1, SentFacts
    <3>2. Eaten > 3
      BY <3>1
    <3>3. QED
      BY <3>1, <3>2 DEF CodecInStep
  <2>3. Eaten' = Eaten /\ UNCHANGED spoilt /\ Reg' = Reg
    BY <1>0, <1>8, <2>1 DEF Eaten, Core
  <2>4. given' = Eaten' - 4
    BY <2>1, <2>2, <2>3
  <2>5. QED
    BY <2>1, <2>2, <2>3, <2>4 DEF CodecInStep, Away
<1>9. CASE RxAck
  <2>1. fsm = "RX_ACK" /\ Running /\ Read /\ Eaten \in 5..6 /\ Is(Eaten, cmd)
    BY <1>9, Busy DEF RxAck, StatesInStep, CommandsInStep
  <2>2. cmd.stop <=> Eaten = Total
    BY <2>1 DEF Is
  <2>3. CASE cmd.stop
    <3>1. fsm' = "GEN_STOP" /\ UNCHANGED <<txf, ptr>>
      BY <1>9, <2>3 DEF RxAck, outside
    <3>2. Eaten' = Eaten /\ UNCHANGED spoilt /\ Reg' = Reg /\ Read' = Read
      BY <1>0, <1>9, <3>1 DEF Eaten, Core
    <3>3. Eaten > 3
      BY <2>1
    <3>4. ~spoilt => ptr = Bytes(Reg)
      BY <2>1, <3>3 DEF CodecInStep
    <3>5. QED
      BY <2>1, <3>1, <3>2, <3>4 DEF CodecInStep
  <2>4. CASE ~cmd.stop
    BY <1>0, <1>9, <2>1, <2>2, <2>4, PopStays DEF RxAck, outside, Core
  <2>5. QED
    BY <2>3, <2>4
<1>10. CASE GenStop
  <2>1. /\ fsm = "GEN_STOP" /\ fsm' = (IF txf = <<>> THEN "PRE_IDLE" ELSE "PRE_START")
        /\ UNCHANGED <<txf, dir, nack, arb, taken, given, ptr, regs>>
    BY <1>10 DEF GenStop
  <2>2. Running /\ Eaten' = Eaten
    BY <1>0, <1>10, <2>1 DEF Eaten, Core, driver, Running, Fresh, Flush
  <2>3. fsm' = "PRE_START" => Eaten = 0
    <3>1. StatesInStep'
      BY StatesStayInStep
    <3>2. QED
      BY <2>2, <3>1 DEF StatesInStep
  <2>4. QED
    BY <1>0, <1>10, <2>1, <2>2, <2>3, CodecFrame DEF Away, Core
<1>11. CASE Rest \/ Others
  <2>1. /\ fsm' = fsm \/ (Away /\ Away')
        /\ UNCHANGED <<txf, dir, nack, arb, taken, given, ptr, regs>>
    BY <1>11 DEF Rest, Others, core, outside, Away
  <2>2. Running /\ Eaten' = Eaten
    BY <1>0, <1>11, <2>1 DEF Eaten, Core, driver, Running, Fresh, Flush
  <2>3. QED
    BY <1>0, <1>11, <2>1, <2>2, CodecFrame DEF Core
<1>12. CASE Refused \/ ArbLost
  BY <1>12 DEF Refused, ArbLost, Running, Flush
<1>13. QED
  BY <1>1, <1>2, <1>3, <1>4, <1>5, <1>6, <1>7, <1>8, <1>9, <1>10, <1>11, <1>12
     DEF Next, Core, Counts

-----------------------------------------------------------------------------
(* What the driver has of what the codec gave.                                 *)
LEMMA DriverFetches ==
  ASSUME DriverType, CoreType, DriverInStep, StatusInStep, CoreInStep, FetchedInStep,
         Driver \/ UNCHANGED vars, ~Counts, Running', Success'
  PROVE  Success /\ Got' = Got
<1>1. CASE Enable
  BY <1>1 DEF Enable, DriverInStep, Running, Fresh
<1>2. CASE Available \/ RxRead
  <2>1. /\ pc \in {"available", "read"} /\ Success
        /\ \/ UNCHANGED <<nread, rxf>>
           \/ rxf # <<>> /\ nread' = nread + 1 /\ rxf' = Tail(rxf)
    BY <1>2 DEF Available, RxRead, Store, Success, StatusInStep
  <2>2. CASE rxf # <<>> /\ nread' = nread + 1 /\ rxf' = Tail(rxf)
    <3>1. Len(rxf') = Len(rxf) - 1 /\ Len(rxf) \in Nat /\ nread \in Nat
      BY <2>2, PopFacts, Numbers DEF CoreType
    <3>2. \A a, b \in Nat : (a + 1) + (b - 1) = a + b
      OBVIOUS
    <3>3. Got' = (nread + 1) + (Len(rxf) - 1)
      BY <2>2, <3>1 DEF Got
    <3>4. QED
      BY <2>1, <3>1, <3>2, <3>3 DEF Got
  <2>3. QED
    BY <2>1, <2>2 DEF Got
<1>3. CASE CmdTimeout \/ CheckNack \/ CheckArb \/ AwaitIdle \/ Finish
  <2>1. UNCHANGED <<nread, rxf>>
    BY <1>3 DEF CmdTimeout, CheckNack, CheckArb, AwaitIdle, Finish, core
  <2>2. status' = status \/ status' # "SUCCESS"
    BY <1>3 DEF CmdTimeout, CheckNack, CheckArb, AwaitIdle, Finish
  <2>3. QED
    BY <2>1, <2>2 DEF Got, Success
<1>4. CASE Retry
  BY <1>4 DEF Retry, Running, Fresh, core, Got, Success
<1>5. CASE UNCHANGED vars
  BY <1>5 DEF vars, driver, core, Got, Success
<1>6. QED
  BY <1>1, <1>2, <1>3, <1>4, <1>5 DEF Driver, Counts

LEMMA FetchedFrame ==
  ASSUME FetchedInStep, Running, Success, Got' = Got, UNCHANGED given, Eaten' = Eaten,
         fsm' \in {"RX_BYTE", "RX_ACK"} => fsm' = fsm
  PROVE  FetchedInStep'
  BY DEF FetchedInStep

LEMMA FetchedStaysInStep ==
  ASSUME DriverType, CoreType, CodecType, DriverInStep, StatusInStep, CoreInStep, CommandsInStep,
         StatesInStep, CodecInStep, FetchedInStep, [Next]_vars
  PROVE  FetchedInStep'
<1> SUFFICES ASSUME Running', Success' PROVE FetchedInStep'
  BY DEF FetchedInStep
<1>0. Core \/ Others => /\ UNCHANGED driver /\ UNCHANGED nread /\ Written' = Written /\ Success
                        /\ UNCHANGED <<call, phase, sent, spoilt>>
  BY CoreLeavesDriver, CallStays DEF driver, Written, Success
<1>1. CASE (Driver \/ UNCHANGED vars) /\ ~Counts
  <2>1. /\ Running /\ Eaten' = Eaten /\ UNCHANGED outside
        /\ fsm' = fsm \/ (fsm = "PRE_IDLE" /\ fsm' = "IDLE")
    BY <1>1, DriverKeeps
  <2>2. Success /\ Got' = Got
    BY <1>1, DriverFetches
  <2>3. QED
    BY <2>1, <2>2, FetchedFrame DEF outside
<1>2. CASE ClearIsr \/ Return
  <2>1. nread' = 0 /\ rxf' = <<>> /\ (Away' \/ fsm' = "PRE_START")
    BY <1>2, CountBegins
  <2>2. Len(rxf') = 0 /\ Got' = nread' + Len(rxf')
    BY <2>1, EmptySeq DEF Got
  <2>3. Got' = 0
    BY <2>1, <2>2
  <2>4. QED
    BY <2>1, <2>3 DEF FetchedInStep, Away
<1>3. CASE CmdWrite
  <2>1. /\ Running /\ Eaten' = Eaten /\ UNCHANGED <<nread, rxf, status>> /\ UNCHANGED outside
        /\ fsm' = fsm \/ fsm' = "PRE_START"
    BY <1>3, CommandWritten
  <2>2. QED
    BY <2>1, FetchedFrame DEF outside, Got, Success
<1>4. CASE Start
  <2>1. /\ fsm = "PRE_START" /\ fsm' = "ADDR" /\ txf # <<>> /\ cmd' = Head(txf)
        /\ txf' = Tail(txf)
        /\ UNCHANGED <<nack, arb, rxf, given>>
    BY <1>4 DEF Start
  <2>2. Running /\ Got' = Got
    BY <1>0, <1>4, <2>1 DEF Core, driver, Running, Fresh, Flush, Got
  <2>3. Eaten = 0
    BY <2>1, <2>2 DEF StatesInStep
  <2>4. Eaten' = Eaten + 1
    BY <1>0, <1>4, <2>1, <2>2, CommandsPop DEF Core
  <2>5. Eaten <= 4 /\ Success
    BY <1>0, <1>4, <2>3 DEF Core
  <2>6. QED
    BY <2>1, <2>2, <2>5 DEF FetchedInStep
<1>5. CASE PopTxFifo
  <2>1. /\ fsm = "HOLD" /\ UNCHANGED <<nread, rxf, given>> /\ Running /\ Success
        /\ Eaten' = Eaten + 1 /\ StatesInStep' /\ CodecInStep'
    BY <1>0, <1>5, Busy, PopStays DEF PopTxFifo, outside, Core
  <2>2. Got' = Got /\ Eaten \in 1..4 /\ Got = 0
    BY <2>1 DEF Got, StatesInStep, FetchedInStep
  <2>3. fsm' \in {"RX_BYTE", "RX_ACK"} => fsm' = "RX_BYTE" /\ given = 0
    <3>1. fsm' # "RX_ACK"
      BY <1>5 DEF PopTxFifo, Popped
    <3>2. fsm' = "RX_BYTE" => Eaten' \in 5..6 /\ given' = Eaten' - 5
      BY <2>1 DEF StatesInStep, CodecInStep
    <3>3. fsm' = "RX_BYTE" => given = 0
      BY <2>1, <2>2, <3>2
    <3>4. QED
      BY <3>1, <3>3
  <2>4. QED
    BY <2>1, <2>2, <2>3 DEF FetchedInStep
<1>6. CASE Address
  <2>1. fsm = "ADDR" /\ fsm' = "HOLD" /\ UNCHANGED <<txf, rxf>>
    BY <1>6 DEF Address
  <2>2. Running /\ Success /\ Got' = Got /\ Eaten' = Eaten
    BY <1>0, <1>6, <2>1, Busy DEF Core, Got, Eaten
  <2>3. QED
    BY <2>1, <2>2 DEF FetchedInStep
<1>7. CASE TxByte \/ GenStop \/ Rest \/ Others
  <2>1. /\ UNCHANGED <<txf, rxf, given, nack, arb>>
        /\ (fsm' \in {"RX_BYTE", "RX_ACK"} => fsm' = fsm)
    BY <1>7 DEF TxByte, GenStop, Rest, Others, core, outside
  <2>2. Success /\ Got' = Got /\ Eaten' = Eaten
    BY <1>0, <1>7, <2>1 DEF Core, Got, Eaten
  <2>3. Running
    BY <1>0, <1>7, <2>1 DEF Core, driver, Running, Fresh, Flush
  <2>4. QED
    BY <2>1, <2>2, <2>3, FetchedFrame
<1>8. CASE RxByte
  <2>1. /\ fsm = "RX_BYTE" /\ fsm' = "RX_ACK" /\ given' = given + 1 /\ UNCHANGED txf
        /\ rxf' = (IF Len(rxf) < Depth THEN Append(rxf, Sent) ELSE rxf)
    BY <1>8 DEF RxByte
  <2>2. Running /\ Eaten \in 5..6 /\ given = Eaten - 5 /\ Sent \in Byte
    BY <2>1, SentFacts
  <2>3. Success /\ Eaten' = Eaten /\ UNCHANGED nread
    BY <1>0, <1>8, <2>1 DEF Core, Eaten
  <2>4. Got = given /\ Got = nread + Len(rxf) /\ Len(rxf) \in Nat /\ nread \in Nat
    BY <2>1, <2>2, <2>3, EatenFacts, Numbers DEF FetchedInStep
  <2>5. Len(rxf') = Len(rxf) + 1 \/ (Len(rxf) >= 1 /\ Len(rxf') = Len(rxf))
    <3>1. Len(Append(rxf, Sent)) = Len(rxf) + 1
      BY <2>2, AppendProperties DEF CoreType
    <3>2. Len(rxf) < Depth \/ Len(rxf) >= 1
      BY <2>4, CodecAssumption
    <3>3. QED
      BY <2>1, <3>1, <3>2
  <2>6. Got' = nread + Len(rxf')
    BY <2>3 DEF Got
  <2>7. CASE Eaten = 5
    <3>1. given = 0 /\ Len(rxf) = 0 /\ nread = 0
      BY <2>2, <2>4, <2>7
    <3>2. Got' = 1 /\ given' = 1
      BY <2>1, <2>5, <2>6, <3>1
    <3>3. QED
      BY <2>1, <2>3, <2>7, <3>2 DEF FetchedInStep
  <2>8. CASE Eaten = 6
    <3>1. nread + Len(rxf) = 1
      BY <2>2, <2>4, <2>8
    <3>2. Got' <= 2
      BY <2>4, <2>5, <2>6, <3>1
    <3>3. QED
      BY <2>1, <2>3, <2>8, <3>2 DEF FetchedInStep
  <2>9. QED
    BY <2>2, <2>7, <2>8
<1>9. CASE RxAck
  <2>1. /\ fsm = "RX_ACK" /\ Running /\ Read /\ Eaten \in 5..6 /\ Is(Eaten, cmd) /\ Success
        /\ UNCHANGED <<nread, rxf, given>>
    BY <1>0, <1>9, Busy DEF RxAck, StatesInStep, CommandsInStep, Core, outside
  <2>2. (cmd.stop <=> Eaten = Total) /\ Got' = Got
    BY <2>1 DEF Is, Got
  <2>3. CASE cmd.stop
    <3>1. fsm' = "GEN_STOP" /\ UNCHANGED txf
      BY <1>9, <2>3 DEF RxAck
    <3>2. Eaten' = Eaten
      BY <1>0, <1>9, <3>1 DEF Eaten, Core
    <3>3. QED
      BY <2>1, <2>2, <3>1, <3>2, FetchedFrame
  <2>4. CASE ~cmd.stop
    <3>1. Eaten = 5 /\ Eaten' = Eaten + 1
      <4>1. Eaten' = Eaten + 1
        BY <1>0, <1>9, <2>1, <2>2, <2>4, PopStays DEF RxAck, outside, Core
      <4>2. Total = 6
        BY <2>1, Numbers
      <4>3. QED
        BY <2>1, <2>2, <2>4, <4>1, <4>2
    <3>2. Got = given /\ Got <= 2
      BY <2>1, <3>1 DEF FetchedInStep
    <3>3. Eaten' = 6
      BY <3>1
    <3>4. QED
      BY <2>1, <2>2, <3>2, <3>3 DEF FetchedInStep
  <2>5. QED
    BY <2>3, <2>4
<1>10. CASE Refused \/ ArbLost
  BY <1>10 DEF Refused, ArbLost, Running, Flush
<1>11. QED
  BY <1>1, <1>2, <1>3, <1>4, <1>5, <1>6, <1>7, <1>8, <1>9, <1>10 DEF Next, Core, Counts

LEMMA BytesFrame ==
  ASSUME BytesInStep, Success, UNCHANGED <<call, phase, nread, buffer, spoilt, rxf>>,
         regs'[Reg] = regs[Reg]
  PROVE  BytesInStep'
<1>1. Reg' = Reg
  BY CallStays
<1>2. QED
  BY <1>1 DEF BytesInStep

LEMMA BytesStayInStep ==
  ASSUME DriverType, CoreType, CodecType, DriverInStep, StatusInStep, CoreInStep, CommandsInStep,
         StatesInStep, CodecInStep, FetchedInStep, BytesInStep, [Next]_vars
  PROVE  BytesInStep'
<1> SUFFICES ASSUME phase' = "rx", Success', ~spoilt' PROVE BytesInStep'
  BY DEF BytesInStep
<1>0. Core \/ Others => /\ UNCHANGED <<call, pc, phase, sent, nread, buffer, spoilt>> /\ Success
                        /\ phase = "rx" /\ ~spoilt /\ Read
  BY CoreLeavesDriver DEF driver, Success, DriverInStep
<1>1. CASE Enable \/ ClearIsr
  BY <1>1 DEF Enable, ClearIsr, DriverInStep, Fresh
<1>2. CASE CmdWrite \/ CmdTimeout \/ CheckNack \/ AwaitIdle \/ Finish
  <2>1. UNCHANGED <<call, phase, nread, buffer, spoilt, rxf>> /\ UNCHANGED outside
    BY <1>2 DEF CmdWrite, CmdTimeout, CheckNack, AwaitIdle, Finish, core
  <2>2. status' = status \/ status' # "SUCCESS"
    BY <1>2 DEF CmdWrite, CmdTimeout, CheckNack, AwaitIdle, Finish
  <2>3. QED
    BY <2>1, <2>2, BytesFrame DEF outside, Success
<1>3. CASE CheckArb
  <2>1. /\ pc = "check arb" /\ UNCHANGED <<call, nread, buffer, spoilt, rxf>>
        /\ UNCHANGED outside
        /\ Success
    BY <1>3 DEF CheckArb, core, Success
  <2>2. CASE phase = "rx"
    BY <2>1, <2>2, BytesFrame DEF outside
  <2>3. CASE phase # "rx"
    <3>1. phase = "tx" /\ Read /\ sent = Len(Commands)
      BY <1>3, <2>3 DEF CheckArb, AfterCommand, DriverType
    <3>2. nread = 0
      BY <3>1 DEF DriverInStep
    <3>3. Len(rxf) = 0
      <4>1. CASE Flush
        BY <4>1, EmptySeq DEF CoreInStep
      <4>2. CASE ~Flush
        <5>1. Len(Commands) = 3
          <6>1. Len(Commands) = Size + 1
            BY CommandsFacts
          <6>2. Size = 2
            BY <3>1, Numbers
          <6>3. QED
            BY <6>1, <6>2
        <5>2. Written = 3
          BY <3>1, <5>1 DEF Written
        <5>3. Eaten <= 4
          BY <5>2, EatenFacts
        <5>4. Got = 0
          BY <2>1, <4>2, <5>3 DEF FetchedInStep, Running, Fresh
        <5>5. QED
          BY <3>2, <5>4, EatenFacts
      <4>3. QED
        BY <4>1, <4>2
    <3>4. nread' = 0 /\ Len(rxf') = 0
      BY <2>1, <3>2, <3>3
    <3>5. /\ \A k \in 1..nread' : FALSE
          /\ \A k \in 1..Len(rxf') : FALSE
      BY <3>4
    <3>6. QED
      BY <3>5 DEF BytesInStep
  <2>4. QED
    BY <2>2, <2>3
<1>4. CASE Available \/ RxRead
  <2>0. /\ pc \in {"available", "read"} /\ UNCHANGED <<call, phase, spoilt>> /\ UNCHANGED outside
    BY <1>4 DEF Available, RxRead
  <2>1. /\ Success /\ phase = "rx" /\ ~spoilt
        /\ pc \in {"available", "read"} /\ UNCHANGED <<call, phase, spoilt>> /\ UNCHANGED outside
    BY <2>0 DEF StatusInStep
  <2>a. UNCHANGED <<nread, buffer, rxf>> \/ (rxf # <<>> /\ Store(Head(rxf)) /\ rxf' = Tail(rxf))
    <3>1. CASE Available
      BY <3>1 DEF Available
    <3>2. CASE RxRead
      BY <3>2 DEF RxRead, Success
    <3>3. QED
      BY <1>4, <3>1, <3>2
  <2>2. CASE UNCHANGED <<nread, buffer, rxf>>
    BY <2>1, <2>2, BytesFrame DEF outside
  <2>3. CASE rxf # <<>> /\ Store(Head(rxf)) /\ rxf' = Tail(rxf)
    <3>1. nread \in 0..1 /\ Size = 2 /\ Len(buffer) = 2 /\ buffer \in Seq(Byte)
      BY <2>1, <2>3, RoomForByte DEF DriverType
    <3>2. /\ Head(rxf) \in Byte /\ Head(rxf) = rxf[1] /\ Len(rxf) \in Nat /\ Len(rxf) > 0
          /\ Len(Tail(rxf)) = Len(rxf) - 1
          /\ \A i \in 1..Len(rxf) - 1 : Tail(rxf)[i] = rxf[i + 1]
      BY <2>3, PopFacts DEF CoreType
    <3>3. nread \in 0..Len(buffer) - 1
      BY <3>1
    <3>4. buffer'[nread + 1] = Head(rxf) /\ nread' = nread + 1
          /\ \A j \in 1..nread : buffer'[j] = buffer[j]
      BY <2>3, <3>1, <3>2, <3>3, StoreFacts DEF Store
    <3>5. /\ \A k \in 1..nread : buffer[k] = <<k, regs[Reg]>>
          /\ \A k \in 1..Len(rxf) : rxf[k] = <<nread + k, regs[Reg]>>
      BY <2>1 DEF BytesInStep
    <3>6. Reg' = Reg /\ regs' = regs
      BY <2>1, CallStays DEF outside
    <3>7. ASSUME NEW k \in 1..nread' PROVE buffer'[k] = <<k, regs[Reg]>>
      <4>1. k \in 1..nread \/ k = nread + 1
        BY <3>1, <3>4
      <4>2. rxf[1] = <<nread + 1, regs[Reg]>>
        <5>1. 1 \in 1..Len(rxf)
          BY <3>2
        <5>2. QED
          BY <3>5, <5>1
      <4>3. QED
        BY <3>2, <3>4, <3>5, <4>1, <4>2
    <3>8. ASSUME NEW k \in 1..Len(rxf') PROVE rxf'[k] = <<nread' + k, regs[Reg]>>
      <4>1. k \in 1..Len(rxf) - 1 /\ k + 1 \in 1..Len(rxf) /\ nread + (k + 1) = (nread + 1) + k
        BY <2>3, <3>1, <3>2
      <4>2. rxf'[k] = rxf[k + 1]
        BY <2>3, <3>2, <4>1
      <4>3. rxf[k + 1] = <<nread + (k + 1), regs[Reg]>>
        BY <3>5, <4>1
      <4>4. QED
        BY <3>4, <4>1, <4>2, <4>3
    <3>9. QED
      BY <3>6, <3>7, <3>8 DEF BytesInStep
  <2>4. QED
    BY <2>a, <2>2, <2>3
<1>5. CASE Retry \/ Return
  <2>1. Retry /\ UNCHANGED <<call, phase, nread, status, buffer, spoilt, rxf>>
        /\ UNCHANGED outside
    BY <1>5 DEF Retry, Return, core
  <2>2. QED
    BY <2>1, BytesFrame DEF outside, Success
<1>6. CASE UNCHANGED vars
  BY <1>6, BytesFrame DEF vars, driver, core, outside, Success
<1>7. CASE Start \/ PopTxFifo \/ Address \/ RxAck \/ GenStop \/ Rest \/ Others
  <2>1. UNCHANGED <<rxf, regs>>
    BY <1>7 DEF Start, PopTxFifo, Address, RxAck, GenStop, Rest, Others, core, outside
  <2>2. QED
    BY <1>0, <1>7, <2>1, BytesFrame DEF Core
<1>8. CASE TxByte
  <2> DEFINE t == Append(taken, cmd.byte)
  <2>1. /\ fsm = "TX_BYTE" /\ UNCHANGED rxf
        /\ regs' = [r \in Names |-> IF Len(t) = 4 /\ ptr = Bytes(r) THEN t[4][2] ELSE regs[r]]
    BY <1>8 DEF TxByte
  <2>2. Eaten \in 2..Size + 1 /\ Len(t) = Eaten - 1
    BY <2>1, TakenFacts
  <2> HIDE DEF t
  <2>3. Size = 2
    BY <1>0, <1>8, Numbers DEF Core
  <2>4. Len(t) # 4
    BY <2>2, <2>3
  <2>5. Reg \in Names
    BY AskedFacts DEF DriverType
  <2>6. regs'[Reg] = regs[Reg]
    BY <2>1, <2>4, <2>5
  <2>7. QED
    BY <1>0, <1>8, <2>1, <2>6, BytesFrame DEF Core
<1>9. CASE RxByte
  <2>1. /\ fsm = "RX_BYTE" /\ UNCHANGED regs
        /\ rxf' = (IF Len(rxf) < Depth THEN Append(rxf, Sent) ELSE rxf)
    BY <1>9 DEF RxByte
  <2>2. /\ UNCHANGED <<call, phase, nread, buffer, spoilt>> /\ Success /\ phase = "rx" /\ ~spoilt
        /\ Reg' = Reg
    BY <1>0, <1>9, CallStays DEF Core
  <2>3. Running /\ Sent \in Byte /\ Sent = <<given + 1, regs[Reg]>>
    BY <2>1, <2>2, SentFacts
  <2>4. given = nread + Len(rxf) /\ Len(rxf) \in Nat /\ nread \in Nat
    BY <2>1, <2>2, <2>3, EatenFacts, Numbers DEF FetchedInStep
  <2>5. /\ \A k \in 1..nread : buffer[k] = <<k, regs[Reg]>>
        /\ \A k \in 1..Len(rxf) : rxf[k] = <<nread + k, regs[Reg]>>
    BY <2>2 DEF BytesInStep
  <2>6. /\ Len(Append(rxf, Sent)) = Len(rxf) + 1 /\ Append(rxf, Sent)[Len(rxf) + 1] = Sent
        /\ \A k \in 1..Len(rxf) : Append(rxf, Sent)[k] = rxf[k]
    BY <2>3, AppendProperties DEF CoreType
  <2>7. ASSUME NEW k \in 1..Len(Append(rxf, Sent))
        PROVE  Append(rxf, Sent)[k] = <<nread + k, regs[Reg]>>
    <3>1. k \in 1..Len(rxf) \/ k = Len(rxf) + 1
      BY <2>4, <2>6
    <3>2. given + 1 = nread + (Len(rxf) + 1)
      BY <2>4
    <3>3. QED
      BY <2>3, <2>5, <2>6, <3>1, <3>2
  <2>8. QED
    BY <2>1, <2>2, <2>5, <2>7 DEF BytesInStep
<1>10. CASE Refused \/ ArbLost
  <2>1. rxf' = <<>> /\ UNCHANGED regs /\ Len(rxf') = 0
    BY <1>10, EmptySeq DEF Refused, ArbLost
  <2>2. /\ UNCHANGED <<call, phase, nread, buffer, spoilt>> /\ Success /\ phase = "rx" /\ ~spoilt
        /\ Reg' = Reg
    BY <1>0, <1>10, CallStays DEF Core
  <2>3. \A k \in 1..Len(rxf') : FALSE
    BY <2>1
  <2>4. QED
    BY <2>1, <2>2, <2>3 DEF BytesInStep
<1>11. QED
  BY <1>1, <1>2, <1>3, <1>4, <1>5, <1>6, <1>7, <1>8, <1>9, <1>10 DEF Next, Driver, Core

-----------------------------------------------------------------------------
(* The invariant of every step.                                                *)
LEMMA StaysInStep == Typed /\ IInv /\ [Next]_vars => Typed' /\ IInv'
<1> SUFFICES ASSUME Typed, IInv, [Next]_vars PROVE Typed' /\ IInv'
  OBVIOUS
<1>1. /\ DriverType /\ CoreType /\ CodecType /\ DriverInStep /\ StatusInStep /\ CoreInStep
      /\ CommandsInStep /\ StatesInStep /\ CodecInStep /\ FetchedInStep /\ BytesInStep
  BY DEF Typed, IInv
<1>2. DriverType' /\ CoreType' /\ CodecType'
  BY <1>1, DriverTyped, CoreTyped, CodecTyped
<1>3. DriverInStep' /\ StatusInStep' /\ CoreInStep'
  BY <1>1, DriverStaysInStep, StatusStaysInStep, CoreStaysInStep
<1>4. CommandsInStep' /\ StatesInStep' /\ CodecInStep'
  BY <1>1, CommandsStayInStep, StatesStayInStep, CodecStaysInStep
<1>5. FetchedInStep' /\ BytesInStep'
  BY <1>1, FetchedStaysInStep, BytesStayInStep
<1>6. QED
  BY <1>2, <1>3, <1>4, <1>5 DEF Typed, IInv

LEMMA InStep == Spec => [](Typed /\ IInv)
<1>1. Init => Typed /\ IInv
  BY InitInStep
<1>2. Typed /\ IInv /\ [Next]_vars => (Typed /\ IInv)'
  BY StaysInStep
<1>3. QED
  BY <1>1, <1>2, PTL DEF Spec

(* Both FIFOs keep to their depth, the driver writes no more commands than a   *)
(* phase has, stores no byte outside the buffer it was given, and the core     *)
(* neither takes more bytes to the codec nor fetches more of it than the       *)
(* access asks for (altera_avalon_i2c.c 615-689 and 787-871).                  *)
THEOREM TypeCorrect == Spec => []TypeOK
<1>1. Typed /\ IInv => TypeOK
  <2> SUFFICES ASSUME Typed, IInv PROVE TypeOK
    OBVIOUS
  <2>1. DriverType /\ CoreType /\ CodecType /\ DriverInStep
    BY DEF Typed, IInv
  <2>2. sent \in 0..Len(Commands) /\ nread \in 0..Len(buffer)
    <3>1. Len(Commands) = Size + 1
      BY <2>1, CommandsFacts
    <3>2. QED
      BY <2>1, <3>1 DEF DriverType
  <2>3. buffer \in [1..Len(Asked) -> Byte]
    <3>1. Len(Asked) = Len(buffer) /\ buffer \in Seq(Byte)
      BY <2>1, AskedFacts DEF DriverType
    <3>2. QED
      BY <3>1, LenProperties
  <2>4. QED
    BY <2>1, <2>2, <2>3 DEF DriverType, CoreType, CodecType, TypeOK
<1>2. QED
  BY <1>1, InStep, PTL

(* SGTL5000_Reg_Wr reports success only when the value is in the register, and *)
(* SGTL5000_Reg_Rd returns what is in the register it was asked for            *)
(* (sgtl5000.c 8-47 over altera_avalon_i2c.c 692-871), however the accesses of *)
(* the driver fall between the bytes on the bus, with the two exceptions that  *)
(* AccessTakesEffect names.                                                    *)
THEOREM AccessIsEffective == Spec => []AccessTakesEffect
<1>1. Typed /\ IInv => AccessTakesEffect
  <2> SUFFICES ASSUME Typed, IInv, pc = "return" PROVE AccessTakesEffect
    BY DEF AccessTakesEffect
  <2>1. /\ DriverType /\ CoreType /\ CodecType /\ DriverInStep /\ StatusInStep /\ CoreInStep
        /\ StatesInStep /\ CodecInStep /\ FetchedInStep /\ BytesInStep
    BY DEF Typed, IInv
  <2>2. Success /\ Away /\ ~nack /\ (Running => Eaten = Total)
    BY <2>1, Settled
  <2>3. ASSUME Read, ~spoilt PROVE buffer = Bytes(regs[Reg])
    <3>1. nread = 2 /\ phase = "rx" /\ Size = 2
      <4>1. Size = 2 /\ Total = 6 /\ sent \in Nat /\ sent <= 3
        BY <2>1, <2>3, Numbers
      <4>2. nread = 2 /\ Written = 6
        BY <2>1, <2>2, <2>3, <4>1 DEF StatusInStep
      <4>3. phase = "rx"
        BY <4>1, <4>2 DEF Written
      <4>4. QED
        BY <4>1, <4>2, <4>3
    <3>2. \A k \in 1..2 : buffer[k] = <<k, regs[Reg]>>
      BY <2>1, <2>2, <2>3, <3>1 DEF BytesInStep
    <3>3. buffer \in Seq(Byte) /\ Len(buffer) = 2
      BY <2>1, <3>1 DEF DriverType
    <3>4. regs[Reg] \in Values
      BY <2>1, AskedFacts DEF DriverType, CodecType
    <3>5. /\ Bytes(regs[Reg]) \in Seq(Byte) /\ Len(Bytes(regs[Reg])) = 2
          /\ Bytes(regs[Reg])[1] = <<1, regs[Reg]>> /\ Bytes(regs[Reg])[2] = <<2, regs[Reg]>>
      BY <3>4, BytesFacts
    <3>6. \A k \in 1..2 : k = 1 \/ k = 2
      OBVIOUS
    <3>7. \A k \in 1..Len(buffer) : buffer[k] = Bytes(regs[Reg])[k]
      BY <3>2, <3>3, <3>5, <3>6
    <3>8. Len(buffer) = Len(Bytes(regs[Reg])) /\ Bytes(regs[Reg]) \in Seq(Byte)
      BY <3>3, <3>5
    <3>9. QED
      BY <3>3, <3>7, <3>8, SeqEqual
  <2>4. ASSUME ~Read, ~arb PROVE regs[Reg] = Data
    <3>1. Running
      BY <2>2, <2>4 DEF Running, Flush, Fresh
    <3>2. Eaten = 5
      BY <2>1, <2>2, <2>4, <3>1, Numbers
    <3>3. QED
      BY <2>1, <2>2, <2>4, <3>1, <3>2 DEF CodecInStep
  <2>5. QED
    BY <2>3, <2>4 DEF AccessTakesEffect, Reg, Data
<1>2. QED
  BY <1>1, InStep, PTL
=============================================================================
