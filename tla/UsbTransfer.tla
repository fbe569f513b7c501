----------------------------- MODULE UsbTransfer -----------------------------
(***************************************************************************)
(* USB transfers (Usb.cpp 44-452 and the request wrappers 792-844):        *)
(* control requests, IN and OUT transfers and the dispatch of one packet   *)
(* with its retries.  One thread calls them, one call at a time; the       *)
(* MAX3421E, the device and the clock move between its register accesses.  *)
(*                                                                         *)
(* Lengths are counted in units, MaxPkt units to a full packet.  A packet  *)
(* is named by the call it answers (0 for the stream of the bulk IN        *)
(* endpoint), its position there and its length; a toggle is 0 or 1.       *)
(***************************************************************************)
EXTENDS Integers, Sequences

CONSTANTS
  MaxPkt,       (* maxPktSize of the endpoints, in units                    *)
  BufSize,      (* bufSize of getConfDescr                                  *)
  Totals,       (* lengths of the data of control requests                  *)
  OutSizes,     (* lengths of the messages for outTransfer                  *)
  NakPower,     (* bmNakPower of each endpoint                              *)
  MaxNakPower,  (* USB_NAK_MAX_POWER                                        *)
  RetryLimit,   (* USB_RETRY_LIMIT                                          *)
  Word,         (* the range of a uint16_t                                  *)
  MaxCalls,     (* bound: calls                                             *)
  MaxLost       (* bound: handshakes that are lost                          *)

Ep == {"ctrl", "in", "out"}

ASSUME PacketAssumption == MaxPkt \in Nat \ {0} /\ BufSize \in Nat \ {0}
ASSUME SizeAssumption   == Totals \subseteq Nat \ {0} /\ OutSizes \subseteq Nat
ASSUME LimitAssumption  == NakPower \in [Ep -> Nat] /\ MaxNakPower \in Nat
                          /\ RetryLimit \in Nat \ {0}
ASSUME WordAssumption   == Word \in Nat \ {0} /\ \A t \in Totals \cup OutSizes : t < Word

VARIABLES
  xfr, hxfrdn, hrsl,       (* the transfer going on, HXFRDNIRQ, HRSL        *)
  rcvtog, sndtog, fifo,    (* RCVTOGRD, SNDTOGRD, received packets          *)
  rcvToggle, sndToggle,    (* bmRcvToggle and bmSndToggle of each EpInfo    *)
  dev,                     (* the device: see NewDevice                     *)
  pc, call, token,         (* the thread, its call, the token it dispatches *)
  left, nread, got,        (* bytes left, *nbytesptr, the buffer            *)
  naks, retries, expired,  (* of the dispatch loops; the deadline is over   *)
  rcode,
  calls, lost,             (* calls so far; bound counter                   *)
  taken, given, accepted,  (* history: bulk packets returned; data given to *)
                           (* Parse; packets the device took in this call   *)
  clean, overtime, late, failed   (* history, see the properties            *)

chip    == <<xfr, hxfrdn, hrsl, rcvtog, sndtog, fifo>>
toggles == <<rcvToggle, sndToggle>>
buffer  == <<left, nread, got>>
loop    == <<naks, retries, expired>>
bounds  == <<calls, lost>>
data    == <<taken, given, accepted>>
marks   == <<clean, overtime, late>>
ghost   == <<data, marks, failed>>
vars    == <<xfr, hxfrdn, hrsl, rcvtog, sndtog, fifo, rcvToggle, sndToggle, dev, pc, call,
             token, left, nread, got, naks, retries, expired, rcode, calls, lost, taken,
             given, accepted, clean, overtime, late, failed>>

Bit     == {0, 1}
NoXfr   == [tok |-> "none", ep |-> "ctrl", of |-> 0, pos |-> 0, size |-> 0]
Code    == {"SUCCESS", "BUSY", "NAK", "TIMEOUT", "TOGERR", "STALL", "NODATA", "INVALID"}
NoCall  == [op |-> "none", ep |-> "ctrl", size |-> 0, nbytes |-> 0]
AtMost(a, b) == IF a < b THEN a ELSE b

(***************************************************************************)
(* The calls.  setAddr and setConf have no data; getDevDescr, getStrDescr  *)
(* and the first half of getConfDescr read all into one buffer, its second *)
(* half reads through a buffer of BufSize and a parser.  inTransfer is     *)
(* asked for one full packet by RecvData, and "put" is the branch of       *)
(* ctrlReq with OUT data.  An endpoint that is not in the table, or whose  *)
(* packet size is out of range, is the operation "bad".                    *)
(***************************************************************************)
Request(op, size, nbytes) == [op |-> op, ep |-> "ctrl", size |-> size, nbytes |-> nbytes]
Calls == {Request("set", 0, 0), Request("bad", 0, 0)}
           \cup {Request("get", t, t)       : t \in Totals}
           \cup {Request("get", t, BufSize) : t \in Totals}
           \cup {Request("put", t, t)       : t \in Totals}
           \cup {[op |-> "in",  ep |-> "in",  size |-> MaxPkt, nbytes |-> MaxPkt]}
           \cup {[op |-> "out", ep |-> "out", size |-> s, nbytes |-> s] : s \in OutSizes}

(* The device: toggles of its endpoints, the next bulk packet, and the     *)
(* call, position and rest of the control request it serves.               *)
NewDevice == [inTog |-> [e \in Ep |-> 0], outTog |-> [e \in Ep |-> 0],
              next |-> 1, req |-> 0, at |-> 0, rest |-> 0]

Init ==
  /\ xfr = NoXfr /\ hxfrdn = FALSE /\ hrsl = "SUCCESS"
  /\ rcvtog = 0 /\ sndtog = 0 /\ fifo = <<>>
  /\ rcvToggle = [e \in Ep |-> 0] /\ sndToggle = [e \in Ep |-> 0]
  /\ dev = NewDevice
  /\ pc = "idle" /\ call = NoCall /\ token = "SETUP"
  /\ left = 0 /\ nread = 0 /\ got = <<>>
  /\ naks = 0 /\ retries = 0 /\ expired = FALSE /\ rcode = "SUCCESS"
  /\ calls = 0 /\ lost = 0
  /\ taken = <<>> /\ given = <<>> /\ accepted = <<>>
  /\ clean = TRUE /\ overtime = FALSE /\ late = FALSE /\ failed = FALSE

-----------------------------------------------------------------------------
(***************************************************************************)
(* The thread: dispatchPkt.                                                *)
(***************************************************************************)
(* nak_limit, set by SetAddress; a limit of 0 counts no NAK.               *)
NakLimit(ep) == 2 ^ AtMost(NakPower[ep], MaxNakPower) - 1

Dispatch(t) ==
  /\ token' = t /\ pc' = "launch"
  /\ naks' = 0 /\ retries' = 0 /\ expired' = FALSE

(* The end of a call, and of its local variables.                          *)
Return(r) ==
  /\ rcode' = r /\ pc' = "idle"
  /\ left' = 0 /\ nread' = 0 /\ got' = <<>> /\ token' = "SETUP"
  /\ naks' = 0 /\ retries' = 0 /\ expired' = FALSE
  /\ failed' = (failed \/ (call.op = "out" /\ r # "SUCCESS"))

WriteHxfr(t) ==
  /\ xfr' = [tok |-> t, ep |-> call.ep, of |-> calls, pos |-> call.size - left,
             size |-> IF call.op = "get" THEN call.size ELSE 0]
  /\ hrsl' = "BUSY"
  /\ UNCHANGED <<hxfrdn, rcvtog, fifo>>

(* regWr(rHXFR, ...), or the end of the loop when the time is over.        *)
Launch ==
  /\ pc = "launch"
  /\ IF expired
       THEN pc' = "returned" /\ UNCHANGED chip
       ELSE pc' = "wait" /\ WriteHxfr(token) /\ UNCHANGED sndtog
  /\ UNCHANGED <<toggles, dev, call, token, buffer, loop, rcode, bounds, ghost>>

(* The wait for HXFRDNIRQ; it ends at the deadline with the transfer still *)
(* going on.                                                               *)
Wait ==
  /\ pc = "wait"
  /\ expired \/ hxfrdn
  /\ hxfrdn' = (hxfrdn /\ expired)
  /\ late' = (late \/ expired)
  /\ pc' = "analyze"
  /\ UNCHANGED <<xfr, hrsl, rcvtog, sndtog, fifo, toggles, dev, call, token, buffer, loop,
                 rcode, bounds, data, clean, overtime, failed>>

(* HRSL decides, whether the transfer has ended or not: NAKs are counted   *)
(* up to the limit of the endpoint, time-outs up to USB_RETRY_LIMIT.       *)
NakLimitReached(r)   == r = "NAK" /\ NakLimit(call.ep) # 0 /\ naks + 1 = NakLimit(call.ep)
RetryLimitReached(r) == r = "TIMEOUT" /\ retries + 1 = RetryLimit
Again(r) == r \in {"NAK", "TIMEOUT"} /\ ~NakLimitReached(r) /\ ~RetryLimitReached(r)

CountRetry(r) ==
  /\ naks' = IF r = "NAK" /\ NakLimit(call.ep) # 0 THEN naks + 1 ELSE naks
  /\ retries' = IF r = "TIMEOUT" THEN retries + 1 ELSE retries
  /\ UNCHANGED expired

Analyze ==
  /\ pc = "analyze"
  /\ rcode' = hrsl
  /\ pc' = IF Again(hrsl) THEN "launch" ELSE "returned"
  /\ CountRetry(hrsl)
  /\ UNCHANGED <<chip, toggles, dev, call, token, buffer, bounds, ghost>>

-----------------------------------------------------------------------------
(***************************************************************************)
(* InTransfer, and the data stage of ctrlReq around it.                    *)
(***************************************************************************)
BeginIn(tog) ==
  /\ rcvtog' = tog[call.ep]
  /\ nread' = 0 /\ got' = <<>>
  /\ Dispatch("IN")
  /\ UNCHANGED <<xfr, hxfrdn, hrsl, sndtog, fifo>>

InReturned == pc = "returned" /\ token = "IN"

(* A toggle error: the other toggle, and again with a new deadline.        *)
(* Mutant: the toggle is not flipped but read back.                        *)
FlipToggleRight(tog, readback) == [tog EXCEPT ![call.ep] = readback]
FlipToggle(tog, readback) == [tog EXCEPT ![call.ep] = 1 - readback]
InToggleError ==
  /\ InReturned /\ rcode = "TOGERR"
  /\ rcvToggle' = FlipToggle(rcvToggle, rcvtog)
  /\ rcvtog' = rcvToggle'[call.ep]
  /\ Dispatch("IN")
  /\ UNCHANGED <<xfr, hxfrdn, hrsl, sndtog, fifo, sndToggle, dev, call, buffer, rcode, bounds,
                 ghost>>

(* Any other error, or no data: the toggle of the EpInfo stays behind.     *)
InError ==
  /\ InReturned
  /\ \/ rcode \notin {"SUCCESS", "TOGERR"} /\ Return(rcode)
     \/ rcode = "SUCCESS" /\ fifo = <<>> /\ Return("NODATA")
  /\ UNCHANGED <<chip, toggles, dev, call, bounds, data, marks>>

(* RCVBC, trimmed to nbytes, and the end of the transfer it may mean.      *)
PktSize  == AtMost(Head(fifo).len, call.nbytes)
(* Mutant: RCVDAVIRQ is not cleared.                                       *)
FreeFifoForgotten == fifo
FreeFifo == Tail(fifo)
(* Mutant: one full packet is taken for the whole transfer.                *)
CompleteEarly == PktSize < MaxPkt \/ nread + PktSize >= MaxPkt
Complete == PktSize < MaxPkt \/ nread + PktSize >= call.nbytes

InPacket ==
  /\ InReturned /\ rcode = "SUCCESS" /\ fifo # <<>>
  /\ fifo' = FreeFifo
  /\ got' = Append(got, Head(fifo))
  /\ nread' = nread + PktSize
  /\ IF Complete
       THEN /\ rcvToggle' = [rcvToggle EXCEPT ![call.ep] = rcvtog]
            /\ pc' = "read" /\ UNCHANGED <<token, loop>>
       ELSE Dispatch("IN") /\ UNCHANGED rcvToggle
  /\ UNCHANGED <<xfr, hxfrdn, hrsl, rcvtog, sndtog, sndToggle, dev, call, left, rcode, bounds,
                 ghost>>

InDone ==
  /\ pc = "read" /\ call.op = "in"
  /\ Return("SUCCESS")
  /\ taken' = taken \o got
  /\ UNCHANGED <<chip, toggles, dev, call, bounds, given, accepted, marks>>

(* ctrlReq hands the buffer to the parser and goes on until nothing is     *)
(* left or less than a buffer came; left is a uint16_t.                    *)
(* Mutant: left is signed.                                                 *)
LeftAfterSigned == left - nread
(* Mutant: left is not counted down.                                       *)
LeftAfterStale == left
LeftAfter == (left - nread) % Word
DataRead ==
  /\ pc = "read" /\ call.op = "get"
  /\ given' = given \o got
  /\ left' = LeftAfter
  /\ IF LeftAfter # 0 /\ nread >= call.nbytes
       THEN BeginIn(rcvToggle)
       ELSE Dispatch("HS") /\ UNCHANGED <<chip, nread, got>>
  /\ UNCHANGED <<toggles, dev, call, rcode, bounds, taken, accepted, marks, failed>>

-----------------------------------------------------------------------------
(***************************************************************************)
(* OutTransfer: one deadline for all packets, waits without one.           *)
(***************************************************************************)
(* Mutant: the toggle of the endpoint is not written to HCTL.              *)
BeginOutKeepsToggle(tog) ==
  /\ left' = call.size /\ expired' = FALSE
  /\ pc' = "fill" /\ rcode' = "SUCCESS"
  /\ UNCHANGED chip
BeginOut(tog) ==
  /\ left' = call.size /\ expired' = FALSE
  /\ sndtog' = tog[call.ep]
  /\ pc' = "fill" /\ rcode' = "SUCCESS"
  /\ UNCHANGED <<xfr, hxfrdn, hrsl, rcvtog, fifo>>

(* After the data of a control request comes the status stage, unless the  *)
(* data failed.                                                            *)
Breakout ==
  /\ sndToggle' = [sndToggle EXCEPT ![call.ep] = sndtog]
  /\ IF call.op = "put" /\ rcode = "SUCCESS"
       THEN Dispatch("HS") /\ UNCHANGED <<buffer, rcode, failed>>
       ELSE Return(rcode)

OutPacket ==
  /\ pc = "fill"
  /\ IF left # 0
       THEN /\ naks' = 0 /\ retries' = 0
            /\ WriteHxfr("OUT") /\ UNCHANGED sndtog
            /\ pc' = "outwait"
            /\ UNCHANGED <<sndToggle, token, buffer, expired, rcode, failed>>
       ELSE Breakout /\ UNCHANGED chip
  /\ UNCHANGED <<rcvToggle, dev, call, bounds, data, marks>>

OutWait ==
  /\ pc = "outwait" /\ hxfrdn
  /\ hxfrdn' = FALSE
  /\ pc' = "outread"
  /\ UNCHANGED <<xfr, hrsl, rcvtog, sndtog, fifo, toggles, dev, call, token, buffer, loop,
                 rcode, bounds, ghost>>

OutRead ==
  /\ pc = "outread"
  /\ rcode' = hrsl
  /\ pc' = "check"
  /\ UNCHANGED <<chip, toggles, dev, call, token, buffer, loop, bounds, ghost>>

(* The packet was sent, or the time is over: on to the next one.           *)
OutAdvance ==
  /\ pc = "check"
  /\ rcode = "SUCCESS" \/ expired
  /\ left' = left - AtMost(left, MaxPkt)
  /\ pc' = "fill"
  /\ UNCHANGED <<chip, toggles, dev, call, token, nread, got, loop, rcode, bounds, ghost>>

OutRetry ==
  /\ pc = "check" /\ rcode # "SUCCESS" /\ ~expired
  /\ CountRetry(rcode)
  /\ IF Again(rcode) \/ rcode = "TOGERR"
       THEN /\ sndToggle' = IF rcode = "TOGERR" THEN FlipToggle(sndToggle, sndtog) ELSE sndToggle
            /\ sndtog' = IF rcode = "TOGERR" THEN sndToggle'[call.ep] ELSE sndtog
            /\ WriteHxfr("OUT")
            /\ pc' = "outwait"
       ELSE pc' = "breakout" /\ UNCHANGED <<chip, sndToggle>>
  /\ UNCHANGED <<rcvToggle, dev, call, token, buffer, rcode, bounds, ghost>>

OutBreak ==
  /\ pc = "breakout"
  /\ Breakout
  /\ UNCHANGED <<chip, rcvToggle, dev, call, bounds, data, marks>>

-----------------------------------------------------------------------------
(***************************************************************************)
(* A call begins with SetAddress and, for a request, the SETUP packet; the *)
(* stages of a request follow one another.                                 *)
(***************************************************************************)
Enter(c) ==
  /\ pc = "idle"
  /\ calls < MaxCalls /\ calls' = calls + 1
  /\ call' = c
  /\ given' = <<>> /\ accepted' = <<>> /\ clean' = TRUE /\ overtime' = FALSE
  /\ UNCHANGED <<dev, lost, taken, late>>

CallBad(c) ==
  /\ c.op = "bad" /\ Enter(c)
  /\ rcode' = "INVALID"
  /\ UNCHANGED <<chip, toggles, pc, token, buffer, loop, failed>>

CallCtrl(c) ==
  /\ c.op \in {"set", "get", "put"} /\ Enter(c)
  /\ Dispatch("SETUP")
  /\ UNCHANGED <<chip, toggles, buffer, rcode, failed>>

CallBulk(c) ==
  /\ c.op \in {"in", "out"} /\ Enter(c)
  /\ pc' = "begin"
  /\ UNCHANGED <<chip, toggles, token, buffer, loop, rcode, failed>>

BeginBulk ==
  /\ pc = "begin"
  /\ \/ /\ call.op = "in" /\ BeginIn(rcvToggle) /\ UNCHANGED <<left, rcode>>
     \/ /\ call.op = "out" /\ BeginOut(sndToggle)
        /\ UNCHANGED <<token, nread, got, naks, retries>>
  /\ UNCHANGED <<toggles, dev, call, bounds, ghost>>

SetupReturned == pc = "returned" /\ token = "SETUP" /\ rcode = "SUCCESS"

SetupFailed ==
  /\ pc = "returned" /\ token = "SETUP" /\ rcode # "SUCCESS"
  /\ Return(rcode)
  /\ UNCHANGED <<chip, toggles, dev, call, bounds, data, marks>>

DataStageIn ==
  /\ SetupReturned /\ call.op = "get"
  /\ left' = call.size
  /\ rcvToggle' = [rcvToggle EXCEPT !["ctrl"] = 1]
  /\ BeginIn(rcvToggle')
  /\ UNCHANGED <<sndToggle, dev, call, rcode, bounds, ghost>>

DataStageOut ==
  /\ SetupReturned /\ call.op = "put"
  /\ sndToggle' = [sndToggle EXCEPT !["ctrl"] = 1]
  /\ BeginOut(sndToggle')
  /\ UNCHANGED <<rcvToggle, dev, call, token, nread, got, naks, retries, bounds, ghost>>

StatusStage ==
  /\ SetupReturned /\ call.op = "set"
  /\ Dispatch("HS")
  /\ UNCHANGED <<chip, toggles, dev, call, buffer, rcode, bounds, ghost>>

StatusReturned ==
  /\ pc = "returned" /\ token = "HS"
  /\ Return(rcode)
  /\ UNCHANGED <<chip, toggles, dev, call, bounds, data, marks>>

-----------------------------------------------------------------------------
(***************************************************************************)
(* The chip and the device (external): how a transfer ends.                *)
(***************************************************************************)
Finish(result) ==
  /\ xfr' = NoXfr /\ hxfrdn' = TRUE /\ hrsl' = result
  /\ UNCHANGED <<toggles, pc, call, token, buffer, loop, rcode, calls, taken, given, overtime,
                 late, failed>>

HasData(ep) == IF ep = "ctrl" THEN dev.rest > 0 ELSE TRUE

(* No answer, a NAK (never to a SETUP) or a refusal.  A device that is     *)
(* asked for more than it has left answers NAK or STALL in perfect order.  *)
NoAnswer ==
  /\ xfr # NoXfr
  /\ \E r \in {"TIMEOUT", "STALL"} \cup (IF xfr.tok = "SETUP" THEN {} ELSE {"NAK"}) :
       /\ Finish(r)
       /\ clean' = (clean /\ xfr.tok = "IN" /\ ~HasData(xfr.ep) /\ r # "TIMEOUT")
  /\ UNCHANGED <<rcvtog, sndtog, fifo, dev, lost, accepted>>

(* A handshake may be lost on its way to the side that waits for it.       *)
Handshake(heard) ==
  /\ heard \/ lost < MaxLost
  /\ lost' = IF heard THEN lost ELSE lost + 1
  /\ clean' = (clean /\ heard)

SetupTaken(heard) ==
  /\ xfr.tok = "SETUP"
  /\ Handshake(heard)
  /\ Finish(IF heard THEN "SUCCESS" ELSE "TIMEOUT")
  /\ dev' = [dev EXCEPT !.inTog["ctrl"] = 1, !.outTog["ctrl"] = 1, !.req = xfr.of, !.at = 0,
                        !.rest = xfr.size]
  /\ UNCHANGED <<rcvtog, sndtog, fifo, accepted>>

(* The packet the device sends, and the device once it hears the ACK.      *)
Packet(ep) ==
  IF ep = "ctrl" THEN [of |-> dev.req, pos |-> dev.at, len |-> AtMost(dev.rest, MaxPkt)]
                 ELSE [of |-> 0, pos |-> dev.next, len |-> MaxPkt]
Acknowledged(ep) ==
  LET d == [dev EXCEPT !.inTog[ep] = 1 - @] IN
  IF ep = "ctrl" THEN [d EXCEPT !.at = @ + Packet(ep).len, !.rest = @ - Packet(ep).len]
                 ELSE [d EXCEPT !.next = @ + 1]

InTaken(heard) ==
  /\ xfr.tok = "IN" /\ HasData(xfr.ep) /\ Len(fifo) < 2
  /\ dev.inTog[xfr.ep] = rcvtog
  /\ Handshake(heard)
  /\ Finish("SUCCESS")
  /\ fifo' = Append(fifo, Packet(xfr.ep))
  /\ rcvtog' = 1 - rcvtog
  /\ dev' = IF heard THEN Acknowledged(xfr.ep) ELSE dev
  /\ UNCHANGED <<sndtog, accepted>>

(* The wrong toggle: neither stored nor acknowledged.                      *)
InWrongToggle ==
  /\ xfr.tok = "IN" /\ HasData(xfr.ep) /\ dev.inTog[xfr.ep] # rcvtog
  /\ Finish("TOGERR")
  /\ UNCHANGED <<rcvtog, sndtog, fifo, dev, lost, accepted, clean>>

(* The device takes data with the toggle it expects, throws a repetition   *)
(* away, and acknowledges both.                                            *)
OutTaken(heard) ==
  /\ xfr.tok = "OUT"
  /\ Handshake(heard)
  /\ Finish(IF heard THEN "SUCCESS" ELSE "TIMEOUT")
  /\ sndtog' = IF heard THEN 1 - sndtog ELSE sndtog
  /\ IF dev.outTog[xfr.ep] = sndtog
       THEN /\ dev' = [dev EXCEPT !.outTog[xfr.ep] = 1 - @]
            /\ accepted' = IF xfr.of = calls THEN Append(accepted, xfr.pos) ELSE accepted
       ELSE UNCHANGED <<dev, accepted>>
  /\ UNCHANGED <<rcvtog, fifo>>

StatusTaken ==
  /\ xfr.tok = "HS"
  /\ Finish("SUCCESS")
  /\ UNCHANGED <<rcvtog, sndtog, fifo, dev, lost, accepted, clean>>

(* The clock passes the deadline of the loop that runs.                    *)
Expire ==
  /\ pc \in {"wait", "analyze", "fill", "outwait", "outread", "check"} /\ ~expired
  /\ expired' = TRUE
  /\ clean' = FALSE /\ overtime' = TRUE
  /\ UNCHANGED <<chip, toggles, dev, pc, call, token, buffer, naks, retries, rcode, bounds,
                 data, late, failed>>

-----------------------------------------------------------------------------
Thread == \/ Launch \/ Wait \/ Analyze
          \/ InToggleError \/ InError \/ InPacket \/ InDone \/ DataRead
          \/ OutPacket \/ OutWait \/ OutRead \/ OutAdvance \/ OutRetry \/ OutBreak
          \/ BeginBulk \/ SetupFailed \/ DataStageIn \/ DataStageOut
          \/ StatusStage \/ StatusReturned
Bus    == \/ NoAnswer \/ InWrongToggle \/ StatusTaken
          \/ \E heard \in BOOLEAN : SetupTaken(heard) \/ InTaken(heard) \/ OutTaken(heard)

Next == \/ \E c \in Calls : CallBad(c) \/ CallCtrl(c) \/ CallBulk(c)
        \/ Thread \/ Bus \/ Expire

Fairness == WF_vars(Thread) /\ WF_vars(Bus) /\ WF_vars(Expire)
Spec == Init /\ [][Next]_vars /\ Fairness

-----------------------------------------------------------------------------
TypeOK ==
  /\ xfr \in [tok : {"none", "SETUP", "IN", "OUT", "HS"}, ep : Ep, of : Nat, pos : Int, size : Nat]
  /\ hxfrdn \in BOOLEAN /\ hrsl \in Code \ {"NODATA", "INVALID"}
  /\ rcvtog \in Bit /\ sndtog \in Bit
  /\ rcvToggle \in [Ep -> Bit] /\ sndToggle \in [Ep -> Bit]
  /\ Len(fifo) <= 2
  /\ call \in Calls \cup {NoCall} /\ token \in {"SETUP", "IN", "HS"}
  /\ left \in 0 .. Word - 1 /\ nread \in Nat
  /\ rcode \in Code
  /\ retries \in 0 .. RetryLimit /\ naks \in Nat
  /\ expired \in BOOLEAN /\ clean \in BOOLEAN /\ late \in BOOLEAN /\ failed \in BOOLEAN

(* The bulk packets that inTransfer returned are the packets of the device, each once and in
   order, whatever transfers failed, were repeated or ran on other endpoints in between: the
   toggle that InTransfer writes, flips and saves stays in step.  (Not after a lost handshake,
   where the flip accepts the repetition, nor after a transfer that ended behind its
   deadline and leaves its data in the FIFO.) *)
BulkOnceInOrder ==
  lost = 0 /\ ~late => \A i \in DOMAIN taken : taken[i] = [of |-> 0, pos |-> i, len |-> MaxPkt]

(* What ctrlReq hands to the parser is the descriptor that this call asked for, from its
   start and without a gap, and a call that succeeds has read all of it. *)
ReadsOwnDescriptor ==
  call.op = "get" /\ lost = 0 /\ ~late =>
    /\ \A i \in DOMAIN given : given[i].of = calls /\ given[i].pos = (i - 1) * MaxPkt
    /\ pc = "idle" /\ rcode = "SUCCESS" =>
         given # <<>> /\ given[Len(given)].pos + given[Len(given)].len = call.size

(* A call that reports success after sending data has delivered all of it, once and in
   order.  The exceptions are those of the code: the deadline passed during the call, a
   transfer that ended behind its deadline left HXFRDNIRQ set for the next one, or an
   earlier call failed and left it open whether the device took the last packet. *)
AllSent == accepted = [i \in 1 .. (call.size + MaxPkt - 1) \div MaxPkt |-> (i - 1) * MaxPkt]
Sent(ops) == pc = "idle" /\ call.op \in ops /\ rcode = "SUCCESS" => AllSent
OutDelivered ==
  /\ ~overtime /\ ~late => Sent({"put"})
  /\ ~overtime /\ ~late /\ ~failed => Sent({"out"})

(* A request without any fault on the bus succeeds, except for data that fill their last
   packet but not the buffer: InTransfer then asks for a packet that the device does not have. *)
CleanRequestSucceeds ==
  pc = "idle" /\ call.op \in {"set", "get", "put"} /\ clean /\ ~late =>
    rcode = "SUCCESS" \/ (call.size % MaxPkt = 0 /\ call.size % call.nbytes # 0)

(* Every call comes to an end: the NAK and retry limits, the deadline, and the toggle error
   that cannot follow itself. *)
TransferEnds == (pc # "idle") ~> (pc = "idle")
=============================================================================
