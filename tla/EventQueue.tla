----------------------------- MODULE EventQueue -----------------------------
(***************************************************************************)
(* What RecvData promises its caller: the messages of the keyboard come    *)
(* out one per call, in order, each exactly once.  A call may come back    *)
(* empty-handed.  Only an unplugged keyboard or a released driver loses    *)
(* messages, what it loses are the newest ones, and a keyboard that is     *)
(* plugged in starts with nothing left over.                               *)
(***************************************************************************)
EXTENDS Integers, Sequences

CONSTANTS Messages,   (* what the keyboard can send                        *)
          Nothing     (* the call returned size 0                          *)

VARIABLES queue,      (* sent and not yet returned                         *)
          received,   (* what the last call returned                       *)
          plugged     (* the keyboard is on the bus                        *)

vars == <<queue, received, plugged>>

Init ==
  /\ queue = <<>>
  /\ received = Nothing
  /\ plugged = FALSE

Send(m) ==
  /\ plugged
  /\ queue' = Append(queue, m)
  /\ UNCHANGED <<received, plugged>>

Deliver ==
  /\ queue # <<>>
  /\ received' = Head(queue)
  /\ queue' = Tail(queue)
  /\ UNCHANGED plugged

ComeBackEmpty ==
  /\ received' = Nothing
  /\ UNCHANGED <<queue, plugged>>

Plug ==
  /\ queue = <<>>
  /\ plugged' = TRUE
  /\ UNCHANGED <<queue, received>>

Lose ==
  /\ plugged' = FALSE
  /\ \E n \in 0 .. Len(queue) : queue' = SubSeq(queue, 1, n)
  /\ UNCHANGED received

Next ==
  \/ \E m \in Messages : Send(m)
  \/ Deliver \/ ComeBackEmpty \/ Plug \/ Lose

Spec == Init /\ [][Next]_vars
=============================================================================
