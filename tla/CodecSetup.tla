----------------------------- MODULE CodecSetup -----------------------------
(* Start-up of the audio codec: InitializeSGTL writes and reads back the       *)
(* registers of the SGTL5000 over I2C (sgtl5000/), through the driver          *)
(* altera_avalon_i2c.c and the controller core it drives (altera_avalon_i2c_*  *)
(* .v).  The driver looks at the core one register access at a time while the  *)
(* core works off its command FIFO, so an error shows some accesses late.      *)
(* One step is one register access of the driver or one byte on the bus.  The  *)
(* codec and whatever disturbs the bus are the environment.                    *)
EXTENDS Naturals, Sequences

CONSTANTS Calls,      \* the accesses of InitializeSGTL: [op, reg, data]
          Depth,      \* I2C_0_FIFO_DEPTH
          Retries,    \* 10000 in the driver
          MaxFaults   \* refused bytes and lost arbitrations, a bound

ASSUME CodecAssumption ==
         /\ Calls \in Seq([op : {"write", "read"}, reg : STRING, data : STRING])
         /\ Calls # <<>>
         /\ Depth \in Nat \ {0}
         /\ Retries \in Nat \ {0}
         /\ MaxFaults \in Nat

VARIABLES call,   \* the access under way, an index of Calls
          pc,     \* the register access the driver makes next
          phase,  \* "tx" (master_transmit) or "rx" (master_receive)
          sent,   \* commands this phase has written
          nread,  \* bytes_read
          status, \* the driver's status code
          tries,  \* tries left in retry
          buffer, \* what SGTL5000_Reg_Rd and _Wr pass to the driver
          en,     \* CTRL.EN
          fsm,    \* state of the core's master state machine
          cmd,    \* the command in the shifter
          dir,    \* rw_cmd
          txf, rxf,    \* the two FIFOs
          nack, arb,   \* ISR.NACK_DET, ISR.ARBLOST_DET
          bus,    \* "free", held by the core ("ours"), or by "others"
          taken,  \* bytes the codec took since it was addressed
          given,  \* bytes the codec gave since it was addressed
          ptr,    \* the two bytes of the register it was pointed at
          regs,   \* its registers
          faults, \* history: refusals and lost arbitrations so far
          spoilt  \* history: a read was tried again with its address overwritten

driver  == <<call, pc, phase, sent, nread, status, tries, buffer, spoilt>>
core    == <<en, fsm, cmd, dir, txf, rxf, nack, arb>>
outside == <<bus, taken, given, ptr, regs, faults>>
vars    == <<driver, core, outside>>

-----------------------------------------------------------------------------
(* Data.  A 16 bit register address or value is two bytes, and a byte is which *)
(* half of which word it is.                                                   *)
Bytes(w) == <<<<1, w>>, <<2, w>>>>
Names    == {Calls[i].reg : i \in 1..Len(Calls)}
Values   == {Calls[i].data : i \in 1..Len(Calls)} \union {"reset"}
Byte     == {1, 2} \X (Names \union Values \union {"none"})

(* The commands of one phase: the address with its direction, then a byte to   *)
(* send, or to fetch.                                                          *)
ToCodec   == <<0, "write">>
FromCodec == <<0, "read">>
Fetch     == <<0, "fetch">>
Command(b, restart, stop) == [byte |-> b, restart |-> restart, stop |-> stop]
Read == Calls[call].op = "read"
Commands ==
  IF phase = "tx"
  THEN <<Command(ToCodec, FALSE, FALSE)>>
       \o [i \in 1..Len(buffer) |-> Command(buffer[i], FALSE, ~Read /\ i = Len(buffer))]
  ELSE <<Command(FromCodec, TRUE, FALSE)>>
       \o [i \in 1..Len(buffer) |-> Command(Fetch, FALSE, i = Len(buffer))]

Buffer(c) == IF c.op = "read" THEN Bytes(c.reg) ELSE Bytes(c.reg) \o Bytes(c.data)
Asked  == Buffer(Calls[call])
Flush  == nack \/ arb
Idle   == fsm \in {"IDLE", "PRE_IDLE"}
(* The core cannot move by itself.  The driver's loops run for many times as   *)
(* long as a byte takes, so only then do they come to their end.               *)
Stuck  == \/ Idle
          \/ fsm = "PRE_START" /\ (txf = <<>> \/ Flush \/ bus # "free")
          \/ fsm = "HOLD" /\ txf = <<>>
          \/ fsm = "RX_ACK" /\ txf = <<>> /\ ~cmd.stop

Init ==
  /\ call = 1 /\ pc = "enable" /\ phase = "tx" /\ sent = 0 /\ nread = 0
  /\ status = "SUCCESS" /\ tries = Retries /\ buffer = Buffer(Calls[1])
  /\ en = FALSE /\ fsm = "IDLE" /\ cmd = Command(Fetch, FALSE, FALSE)
  /\ dir = ToCodec /\ txf = <<>> /\ rxf = <<>> /\ nack = FALSE /\ arb = FALSE
  /\ bus = "free" /\ taken = <<>> /\ given = 0 /\ ptr = Bytes("none")
  /\ regs = [r \in Names |-> "reset"] /\ faults = 0 /\ spoilt = FALSE

-----------------------------------------------------------------------------
(* The driver.                                                                 *)

(* alt_avalon_i2c_enable: BUSY if the core is enabled already.  The core       *)
(* leaves IDLE at the next clock.                                              *)
Enable ==
  /\ pc = "enable"
  /\ IF en THEN pc' = "retry" /\ status' = "BUSY" /\ UNCHANGED <<en, fsm>>
     ELSE /\ pc' = "clear" /\ status' = "SUCCESS"
          /\ en' = TRUE
          /\ fsm' = IF Idle THEN "PRE_START" ELSE fsm
  /\ UNCHANGED <<call, phase, sent, nread, tries, buffer, spoilt, cmd, dir, txf, rxf,
                 nack, arb, outside>>

(* alt_avalon_i2c_int_clear of all the interrupts that can be cleared.         *)
ClearIsr ==
  /\ pc = "clear"
  /\ pc' = "write" /\ nack' = FALSE /\ arb' = FALSE
  /\ UNCHANGED <<call, phase, sent, nread, status, tries, buffer, spoilt,
                 en, fsm, cmd, dir, txf, rxf, outside>>

(* A core that waits in PRE_IDLE goes on at the next clock when there is a     *)
(* command, and stays there when an error holds the FIFO in reset.             *)
Woken(state) == IF state = "PRE_IDLE" /\ ~Flush THEN "PRE_START" ELSE state

(* alt_avalon_i2c_cmd_write: wait for TX_READY, then write the command; a FIFO *)
(* that an error holds in reset forgets it.                                    *)
CmdWrite ==
  /\ pc = "write" /\ en /\ Len(txf) < Depth
  /\ txf' = IF Flush THEN <<>> ELSE Append(txf, Commands[sent + 1])
  /\ fsm' = Woken(fsm)
  /\ sent' = sent + 1 /\ pc' = "check nack"
  /\ UNCHANGED <<call, phase, nread, status, tries, buffer, spoilt,
                 en, cmd, dir, rxf, nack, arb, outside>>

CmdTimeout ==
  /\ pc = "write" /\ ~(en /\ Len(txf) < Depth) /\ Stuck
  /\ status' = "TIMEOUT" /\ pc' = "idle"
  /\ UNCHANGED <<call, phase, sent, nread, tries, buffer, spoilt, core, outside>>

(* The two looks at ISR behind the write.                                      *)
CheckNack ==
  /\ pc = "check nack"
  /\ status' = IF nack THEN "NACK" ELSE status
  /\ pc' = "check arb"
  /\ UNCHANGED <<call, phase, sent, nread, tries, buffer, spoilt, core, outside>>

(* Where master_transmit and master_receive go on behind a command.  The first *)
(* phase of a read ends without a stop and leaves the core enabled.            *)
AfterCommand(st) ==
  IF st # "SUCCESS" THEN "idle"
  ELSE IF sent = Len(Commands) THEN IF phase = "rx" THEN "read"
                                    ELSE IF Read THEN "turn" ELSE "idle"
  ELSE IF phase = "rx" /\ sent > 1 THEN "available" ELSE "write"

CheckArb ==
  /\ pc = "check arb"
  /\ LET st   == IF arb THEN "ARB_LOST" ELSE status
         next == AfterCommand(st)
     IN /\ status' = st
        /\ pc' = IF next = "turn" THEN "write" ELSE next
        /\ phase' = IF next = "turn" THEN "rx" ELSE phase
        /\ sent' = IF next = "turn" THEN 0 ELSE sent
  /\ UNCHANGED <<call, nread, tries, buffer, spoilt, core, outside>>

Store(b) == /\ buffer' = [buffer EXCEPT ![nread + 1] = b]
            /\ nread' = nread + 1

(* alt_avalon_i2c_rx_read_available between two commands.                      *)
Available ==
  /\ pc = "available"
  /\ IF rxf # <<>> THEN Store(Head(rxf)) /\ rxf' = Tail(rxf) /\ UNCHANGED pc
     ELSE pc' = "write" /\ UNCHANGED <<buffer, nread, rxf>>
  /\ UNCHANGED <<call, phase, sent, status, tries, spoilt, en, fsm, cmd, dir, txf,
                 nack, arb, outside>>

(* Mutant: the loop fetches one byte more than was asked for.                  *)
RxReadOneMore ==
  /\ pc = "read"
  /\ \/ nread > Len(buffer) /\ pc' = "idle" /\ UNCHANGED <<buffer, nread, rxf, status>>
     \/ /\ nread <= Len(buffer) /\ rxf # <<>>
        /\ Store(Head(rxf)) /\ rxf' = Tail(rxf) /\ UNCHANGED <<pc, status>>
     \/ /\ nread <= Len(buffer) /\ rxf = <<>> /\ Stuck
        /\ nread' = nread + 1 /\ status' = "TIMEOUT" /\ pc' = "idle"
        /\ UNCHANGED <<rxf, buffer>>
  /\ UNCHANGED <<call, phase, sent, tries, spoilt, en, fsm, cmd, dir, txf, nack, arb, outside>>

(* alt_avalon_i2c_rx_read behind the last command, for what is still missing;  *)
(* at its time-out it stores what it reads from the empty FIFO.                *)
RxRead ==
  /\ pc = "read"
  /\ \/ nread = Len(buffer) /\ pc' = "idle" /\ UNCHANGED <<buffer, nread, rxf, status>>
     \/ /\ nread < Len(buffer) /\ rxf # <<>>
        /\ Store(Head(rxf)) /\ rxf' = Tail(rxf) /\ UNCHANGED <<pc, status>>
     \/ /\ nread < Len(buffer) /\ rxf = <<>> /\ Stuck
        /\ Store(<<1, "none">>) /\ status' = "TIMEOUT" /\ pc' = "idle" /\ UNCHANGED rxf
  /\ UNCHANGED <<call, phase, sent, tries, spoilt, en, fsm, cmd, dir, txf, nack, arb, outside>>

(* The end of a transaction: wait until the core is idle ...                   *)
AwaitIdle ==
  /\ pc = "idle" /\ (Idle \/ Stuck)
  /\ status' = IF Idle THEN status ELSE "TIMEOUT"
  /\ pc' = "finish"
  /\ UNCHANGED <<call, phase, sent, nread, tries, buffer, spoilt, core, outside>>

(* Mutant: a refusal that shows behind the last command goes unseen.           *)
FinishUnchecked ==
  /\ pc = "finish"
  /\ en' = FALSE
  /\ fsm' = IF fsm = "PRE_IDLE" THEN "IDLE" ELSE fsm
  /\ pc' = "retry"
  /\ UNCHANGED <<call, phase, sent, nread, status, tries, buffer, spoilt, cmd, dir,
                 txf, rxf, nack, arb, outside>>

(* Mutant: the core is disabled only behind an error.                          *)
FinishEnabled ==
  /\ pc = "finish"
  /\ status' = IF nack THEN "NACK" ELSE status
  /\ en' = (en /\ status' = "SUCCESS")
  /\ fsm' = IF fsm = "PRE_IDLE" /\ ~en' THEN "IDLE" ELSE fsm
  /\ pc' = "retry"
  /\ UNCHANGED <<call, phase, sent, nread, tries, buffer, spoilt, cmd, dir, txf, rxf,
                 nack, arb, outside>>

(* ... look for a refused byte once more, and disable the core.                *)
Finish ==
  /\ pc = "finish"
  /\ status' = IF nack THEN "NACK" ELSE status
  /\ en' = FALSE
  /\ fsm' = IF fsm = "PRE_IDLE" THEN "IDLE" ELSE fsm
  /\ pc' = "retry"
  /\ UNCHANGED <<call, phase, sent, nread, tries, buffer, spoilt, cmd, dir, txf, rxf,
                 nack, arb, outside>>

(* alt_avalon_i2c_master_tx and _tx_rx: ARB_LOST, NACK and BUSY start the      *)
(* transaction again, with the buffer as it is, until the tries are used up.   *)
(* Reg_Rd and Reg_Wr hang on every other error, and on these in the end.       *)
Retry ==
  /\ pc = "retry"
  /\ IF status \in {"ARB_LOST", "NACK", "BUSY"} /\ tries > 1
     THEN /\ pc' = "enable" /\ tries' = tries - 1
          /\ phase' = "tx" /\ sent' = 0 /\ nread' = 0
          /\ spoilt' = (buffer # Asked)
     ELSE /\ pc' = IF status = "SUCCESS" THEN "return" ELSE "hung"
          /\ UNCHANGED <<phase, sent, nread, tries, spoilt>>
  /\ UNCHANGED <<call, status, buffer, core, outside>>

(* The next access of InitializeSGTL.                                          *)
Return ==
  /\ pc = "return"
  /\ IF call = Len(Calls) THEN pc' = "done" /\ UNCHANGED <<call, buffer>>
     ELSE pc' = "enable" /\ call' = call + 1 /\ buffer' = Buffer(Calls[call + 1])
  /\ phase' = "tx" /\ sent' = 0 /\ nread' = 0 /\ tries' = Retries /\ spoilt' = FALSE
  /\ UNCHANGED <<status, core, outside>>

Driver == \/ Enable \/ ClearIsr \/ CmdWrite \/ CmdTimeout \/ CheckNack \/ CheckArb
          \/ Available \/ RxRead \/ AwaitIdle \/ Finish \/ Retry \/ Return

-----------------------------------------------------------------------------
(* The core's state machine.  Codec is what the codec and the bus make of it.  *)

(* PRE_START, GEN_START: a start condition once the bus is free.               *)
Start ==
  /\ fsm = "PRE_START" /\ ~Flush /\ bus = "free" /\ txf # <<>>
  /\ fsm' = "ADDR" /\ cmd' = Head(txf) /\ txf' = Tail(txf) /\ bus' = "ours"
  /\ UNCHANGED <<driver, en, dir, rxf, nack, arb, taken, given, ptr, regs, faults>>

(* POP_TX_FIFO: the next command, when there is one, decides the state.        *)
Popped(c) == IF c.restart THEN "ADDR" ELSE IF dir = ToCodec THEN "TX_BYTE" ELSE "RX_BYTE"
PopTxFifo ==
  /\ fsm = "HOLD" /\ txf # <<>>
  /\ cmd' = Head(txf) /\ txf' = Tail(txf) /\ fsm' = Popped(Head(txf))
  /\ UNCHANGED <<driver, en, dir, rxf, nack, arb, outside>>

(* A byte that the codec takes: an address or data.                            *)
Address ==
  /\ fsm = "ADDR"
  /\ dir' = cmd.byte /\ fsm' = "HOLD" /\ taken' = <<>> /\ given' = 0
  /\ UNCHANGED <<driver, en, cmd, txf, rxf, nack, arb, bus, ptr, regs, faults>>

TxByte ==
  /\ fsm = "TX_BYTE"
  /\ fsm' = IF cmd.stop THEN "GEN_STOP" ELSE "HOLD"
  /\ LET t == Append(taken, cmd.byte)
     IN /\ taken' = t
        /\ ptr'   = IF Len(t) = 2 THEN t ELSE ptr
        /\ regs'  = [r \in Names |-> IF Len(t) = 4 /\ ptr = Bytes(r)
                                     THEN t[4][2] ELSE regs[r]]
  /\ UNCHANGED <<driver, en, cmd, dir, txf, rxf, nack, arb, bus, given, faults>>

(* A byte that the codec refuses: NACK_DET, the FIFOs are held empty.          *)
Refused ==
  /\ fsm \in {"ADDR", "TX_BYTE"} /\ faults < MaxFaults
  /\ fsm' = "GEN_STOP" /\ nack' = TRUE /\ txf' = <<>> /\ rxf' = <<>>
  /\ faults' = faults + 1
  /\ UNCHANGED <<driver, en, cmd, dir, arb, bus, taken, given, ptr, regs>>

(* Somebody pulls the line low that the core has let go, in a byte it sends or *)
(* in the NACK behind the last byte it fetches: ARBLOST_DET, no stop.          *)
ArbLost ==
  /\ \/ fsm \in {"ADDR", "TX_BYTE"}
     \/ fsm = "RX_ACK" /\ cmd.stop
  /\ faults < MaxFaults
  /\ fsm' = "PRE_IDLE" /\ arb' = TRUE /\ txf' = <<>> /\ rxf' = <<>>
  /\ bus' = "others" /\ faults' = faults + 1
  /\ UNCHANGED <<driver, en, cmd, dir, nack, taken, given, ptr, regs>>

(* RX_BYTE: the byte is in the FIFO before it is acknowledged.                 *)
Sent == LET at == {r \in Names : ptr = Bytes(r)}
        IN <<given + 1, IF at = {} THEN "none" ELSE regs[CHOOSE r \in at : TRUE]>>
RxByte ==
  /\ fsm = "RX_BYTE"
  /\ fsm' = "RX_ACK" /\ given' = given + 1
  /\ rxf' = IF Len(rxf) < Depth THEN Append(rxf, Sent) ELSE rxf
  /\ UNCHANGED <<driver, en, cmd, dir, txf, nack, arb, bus, taken, ptr, regs, faults>>

(* Acknowledged when a further command is there, refused behind the last.      *)
RxAck ==
  /\ fsm = "RX_ACK"
  /\ IF cmd.stop THEN fsm' = "GEN_STOP" /\ UNCHANGED <<cmd, txf>>
     ELSE /\ txf # <<>>
          /\ cmd' = Head(txf) /\ txf' = Tail(txf) /\ fsm' = Popped(Head(txf))
  /\ UNCHANGED <<driver, en, dir, rxf, nack, arb, outside>>

(* GEN_STOP, and the way from PRE_IDLE of a core that was disabled; for the    *)
(* way of one that gets a command see Woken.                                   *)
GenStop ==
  /\ fsm = "GEN_STOP"
  /\ fsm' = IF txf = <<>> THEN "PRE_IDLE" ELSE "PRE_START"
  /\ bus' = "free"
  /\ UNCHANGED <<driver, en, cmd, dir, txf, rxf, nack, arb, taken, given, ptr, regs, faults>>

Rest ==
  /\ fsm = "PRE_IDLE" /\ ~en
  /\ fsm' = "IDLE"
  /\ UNCHANGED <<driver, en, cmd, dir, txf, rxf, nack, arb, outside>>

Core == \/ Start \/ PopTxFifo \/ Address \/ TxByte \/ Refused \/ ArbLost
        \/ RxByte \/ RxAck \/ GenStop \/ Rest

(* Whoever won the bus lets it go, sooner, later or never.                     *)
Others ==
  /\ bus = "others" /\ bus' = "free"
  /\ UNCHANGED <<driver, core, taken, given, ptr, regs, faults>>

Next == Driver \/ Core \/ Others
Spec == Init /\ [][Next]_vars
(* The processor runs and the core's clock ticks.                              *)
FairSpec == Spec /\ WF_vars(Driver) /\ WF_vars(Core)

-----------------------------------------------------------------------------
Status == {"SUCCESS", "TIMEOUT", "NACK", "ARB_LOST", "BUSY"}
States == {"IDLE", "PRE_START", "ADDR", "TX_BYTE", "RX_BYTE", "RX_ACK", "HOLD",
           "GEN_STOP", "PRE_IDLE"}
Steps  == {"enable", "clear", "write", "check nack", "check arb", "available", "read",
           "idle", "finish", "retry", "return", "done", "hung"}
Cmd    == [byte : Byte \union {ToCodec, FromCodec, Fetch},
           restart : BOOLEAN, stop : BOOLEAN]

(* Type invariant: both FIFOs keep to their depth, the driver writes no more   *)
(* commands than a phase has and stores no more bytes than its buffer holds    *)
(* (altera_avalon_i2c.c 615-689, 787-871).                                     *)
TypeOK ==
  /\ call \in 1..Len(Calls) /\ pc \in Steps /\ phase \in {"tx", "rx"}
  /\ sent \in 0..Len(Commands) /\ nread \in 0..Len(buffer)
  /\ status \in Status /\ tries \in 1..Retries
  /\ buffer \in [1..Len(Asked) -> Byte] /\ en \in BOOLEAN /\ fsm \in States
  /\ cmd \in Cmd /\ dir \in {ToCodec, FromCodec}
  /\ txf \in Seq(Cmd) /\ Len(txf) <= Depth /\ rxf \in Seq(Byte) /\ Len(rxf) <= Depth
  /\ nack \in BOOLEAN /\ arb \in BOOLEAN /\ bus \in {"free", "ours", "others"}
  /\ Len(taken) <= 4 /\ given \in 0..2 /\ ptr \in [1..2 -> Byte]
  /\ regs \in [Names -> Values] /\ faults \in 0..MaxFaults /\ spoilt \in BOOLEAN

(* What SGTL5000_Reg_Wr reports as written is in the codec, and what           *)
(* SGTL5000_Reg_Rd returns is the register it was asked for, however late the  *)
(* driver sees an error (sgtl5000.c 8-47).  Two exceptions the code has: an    *)
(* arbitration lost behind the last command is looked for by nobody, and a     *)
(* read that is tried again sends as its address what it has read so far.      *)
AccessTakesEffect ==
  pc = "return" =>
    IF Read THEN spoilt \/ buffer = Bytes(regs[Calls[call].reg])
            ELSE arb \/ regs[Calls[call].reg] = Calls[call].data

(* Start-up comes to an end, and with a bus and a codec that behave it comes   *)
(* through: no loop of the driver runs out by itself, and no transaction finds *)
(* the core still enabled from the one before.                                 *)
StartUpEnds == <>(pc = "done" \/ (pc = "hung" /\ faults > 0))
=============================================================================
