----------------------------- MODULE AddressPool -----------------------------
(***************************************************************************)
(* The USB address pool (address.h): a table of devices, whose addresses   *)
(* name their place in the tree of hubs.  An address is three bit fields,  *)
(* hub | parent | num: num is the number of a hub or the port of a device, *)
(* parent the number of the hub above it.  The callers are the USB task    *)
(* and the class drivers, one thread.                                      *)
(*                                                                         *)
(* FreeAddressByIndex calls itself for the children of a hub; its calls    *)
(* are the frames of a stack here, each with its local variable i.         *)
(***************************************************************************)
EXTENDS Integers, Sequences

CONSTANTS
  Size,       (* MAX_DEVICES_ALLOWED - 1 entries that can be used, 15       *)
  HubLimit,   (* 7, the last number a hub can have                          *)
  MaxPort     (* 7, the last port of a hub                                  *)

ASSUME SizeAssumption == Size \in Nat \ {0}
ASSUME HubAssumption  == HubLimit \in Nat \ {0}
ASSUME PortAssumption == MaxPort \in Nat \ {0}

VARIABLES
  thePool,      (* [Entry -> Address]                                       *)
  hubCounter,
  stack,        (* the calls of FreeAddressByIndex, the last one runs       *)
  was           (* history: the pool and the entry that FreeAddress met     *)

vars == <<thePool, hubCounter, stack, was>>

Entry   == 1 .. Size
Address == [hub : BOOLEAN, parent : 0 .. HubLimit, num : Nat]
Addr(h, p, n) == [hub |-> h, parent |-> p, num |-> n]
None    == Addr(FALSE, 0, 0)
RootHub == Addr(TRUE, 0, 1)
Device  == Addr(FALSE, 0, 1)
Used(i) == thePool[i] # None
InUse   == {i \in Entry : Used(i)}
First(i, S) == i \in S /\ \A j \in S : i <= j

Init ==
  /\ thePool = [i \in Entry |-> None]
  /\ hubCounter = 0
  /\ stack = <<>>
  /\ was = [pool |-> thePool, at |-> 1]

Holding(a)      == {i \in Entry : thePool[i] = a}
Children(n, i)  == {j \in Entry : j >= i /\ thePool[j].parent = n}

(***************************************************************************)
(* AllocAddress.  It refuses a port that does not exist, a hub when no     *)
(* number is left, and everything when no entry is free.                   *)
(***************************************************************************)
(* Mutant: the numbers of hubs are not limited.                            *)
RefusedNoLimit(hub, port) == port > MaxPort \/ Holding(None) = {}
Refused(hub, port) == \/ port > MaxPort
                      \/ hub /\ hubCounter = HubLimit
                      \/ Holding(None) = {}

NewAddress(parent, hub, port) ==
  IF parent = None THEN IF hub THEN RootHub ELSE Device
                   ELSE Addr(hub, parent.num, IF hub THEN hubCounter + 1 ELSE port)

AllocAddress(parent, hub, port) ==
  /\ stack = <<>>
  /\ IF Refused(hub, port)
       THEN UNCHANGED <<thePool, hubCounter>>
       ELSE /\ \E i \in Entry :
                 /\ First(i, Holding(None))
                 /\ thePool' = [thePool EXCEPT ![i] = NewAddress(parent, hub, port)]
            /\ hubCounter' = IF hub THEN hubCounter + 1 ELSE hubCounter
  /\ UNCHANGED <<stack, was>>

(* What the callers ask for (external): one device at the root; under a    *)
(* hub that is in the pool, a hub or a device on a port that has none.     *)
AllocRoot ==
  /\ \A i \in InUse : thePool[i].parent # 0
  /\ \E hub \in BOOLEAN : AllocAddress(None, hub, 0)

AllocChild ==
  \E i \in InUse, hub \in BOOLEAN, port \in 1 .. MaxPort + 1 :
    /\ thePool[i].hub
    /\ ~hub => Holding(Addr(FALSE, thePool[i].num, port)) = {}
    /\ AllocAddress(thePool[i], hub, port)

(***************************************************************************)
(* FreeAddress: the root hub takes everything with it, an address that is  *)
(* not in the pool nothing.                                                *)
(***************************************************************************)
InitAllAddresses ==
  /\ thePool' = [i \in Entry |-> None]
  /\ hubCounter' = 0

(* Mutant: the variable i is shared by all calls.                          *)
FrameShared(i) == [at |-> i, i |-> i]
Frame(i) == [at |-> i, i |-> 1]
FreeAddress(a) ==
  /\ stack = <<>>
  /\ IF a = RootHub
       THEN InitAllAddresses /\ UNCHANGED <<stack, was>>
       ELSE /\ \E i \in Entry :
                 /\ First(i, Holding(a))
                 /\ stack' = <<Frame(i)>>
                 /\ was' = [pool |-> thePool, at |-> i]
            /\ UNCHANGED <<thePool, hubCounter>>

(* One turn of the loop of FreeAddressByIndex: the next child first; when  *)
(* there is none the entry itself, and its number if it is the last one.   *)
Top        == stack[Len(stack)]
Uda        == thePool[Top.at]
ChildrenLeft == Uda.hub /\ Children(Uda.num, Top.i) # {}
(* Mutant: every hub gives a number back.                                  *)
CounterAfterAny == IF Uda.hub THEN hubCounter - 1 ELSE hubCounter
CounterAfter == IF Uda.hub /\ hubCounter = Uda.num THEN hubCounter - 1 ELSE hubCounter

FreeChild ==
  /\ stack # <<>> /\ ChildrenLeft
  /\ \E c \in Entry :
       /\ First(c, Children(Uda.num, Top.i))
       /\ stack' = Append([stack EXCEPT ![Len(stack)].i = c], Frame(c))
  /\ UNCHANGED <<thePool, hubCounter, was>>

(* Mutant: only the number is cleared.                                     *)
InitEntryNumber(i) == [thePool EXCEPT ![i].num = 0]
InitEntry(i) == [thePool EXCEPT ![i] = None]

FreeEntry ==
  /\ stack # <<>> /\ ~ChildrenLeft
  /\ thePool' = InitEntry(Top.at)
  /\ hubCounter' = CounterAfter
  /\ stack' = SubSeq(stack, 1, Len(stack) - 1)
  /\ UNCHANGED was

Next == \/ AllocRoot \/ AllocChild
        \/ \E i \in InUse : FreeAddress(thePool[i])
        \/ FreeChild \/ FreeEntry

Fairness == WF_vars(FreeChild) /\ WF_vars(FreeEntry)
Spec == Init /\ [][Next]_vars /\ Fairness

-----------------------------------------------------------------------------
TypeOK ==
  /\ thePool \in [Entry -> Address]
  /\ hubCounter \in 0 .. HubLimit
  /\ stack \in Seq([at : Entry, i : Entry])
  /\ was \in [pool : [Entry -> Address], at : Entry]

(* An address belongs to one entry: GetUsbDevicePtr and FreeAddress, which take the first
   entry that has it, meet the device that was meant. *)
UniqueAddresses ==
  \A i, j \in Entry : Used(i) /\ thePool[i] = thePool[j] => i = j

(* The number of a hub is its own, though numbers are given out by a counter that goes down
   when the last one is freed: no device under one hub is taken for one under another. *)
UniqueHubs ==
  \A i, j \in Entry : thePool[i].hub /\ thePool[j].hub /\ thePool[i].num = thePool[j].num => i = j

(* No entry outlives its hub, also not while a tree of hubs is being freed. *)
NoOrphans ==
  \A i \in Entry : thePool[i].parent # 0 =>
    \E j \in Entry : thePool[j].hub /\ thePool[j].num = thePool[i].parent

(* When FreeAddress is done, it has freed the entry and all that is below it and nothing
   else. *)
Freed == {i \in Entry : was.pool[i] # None /\ ~Used(i)}
Below(i) == \E j \in Freed : was.pool[j].hub /\ was.pool[j].num = was.pool[i].parent
FreesTheSubtree ==
  [][stack # <<>> /\ stack' = <<>> =>
      /\ (Freed)' # {} /\ was.at \in (Freed)'
      /\ \A i \in Entry : /\ i \notin (Freed)' => thePool'[i] = was.pool[i]
                          /\ was.pool[i] # None /\ i # was.at => (i \in (Freed)' <=> (Below(i))')]_vars

(* FreeAddress comes to an end: a hub is never its own ancestor. *)
FreeEnds == (stack # <<>>) ~> (stack = <<>>)
=============================================================================
