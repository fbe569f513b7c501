------------------------- MODULE Enumeration_proofs -------------------------
(***************************************************************************)
(* Proofs about what a device meets when it is attached: AddressPool, for  *)
(* every size of the pool and every limit of ports and hubs, and           *)
(* EndpointSearch, for all well-formed devices.  The two share nothing.    *)
(***************************************************************************)
EXTENDS AddressPool, EndpointSearch, SequenceTheorems, FiniteSetTheorems, TLAPS

(***************************************************************************)
(* The address pool.                                                       *)
(***************************************************************************)
(* Hub numbers are counted, and a hub below another one is younger; while any
   number is given out the root hub is there. *)
Numbered ==
  /\ \A i \in Entry : thePool[i].hub => thePool[i].num \in 1 .. hubCounter
  /\ \A i \in Entry : thePool[i].hub /\ thePool[i].parent # 0 => thePool[i].parent < thePool[i].num
  /\ hubCounter # 0 => \E i \in Entry : thePool[i] = RootHub

(* The calls of FreeAddressByIndex walk down the tree: all but the last are
   hubs, each with a larger number, none is the root hub, and a call has no
   child left behind its i. *)
Frames == 1 .. Len(stack)
Walk ==
  /\ \A k \in Frames : Used(stack[k].at) /\ thePool[stack[k].at] # RootHub
  /\ \A k \in Frames : k < Len(stack) => thePool[stack[k].at].hub
  /\ \A k, l \in Frames : k < l /\ thePool[stack[l].at].hub =>
       thePool[stack[k].at].num < thePool[stack[l].at].num
  /\ \A k \in Frames : thePool[stack[k].at].hub =>
       \A j \in Entry : j < stack[k].i => thePool[j].parent # thePool[stack[k].at].num

IInv == TypeOK /\ UniqueAddresses /\ UniqueHubs /\ NoOrphans /\ Numbered /\ Walk

-----------------------------------------------------------------------------
(* The stack of calls: its top, a call that begins and one that ends.      *)
Call == [at : Entry, i : Entry]

LEMMA TopCall ==
  ASSUME TypeOK, stack # <<>>
  PROVE  /\ stack \in Seq(Call) /\ Len(stack) \in Nat \ {0} /\ Len(stack) \in Frames
         /\ Top = stack[Len(stack)] /\ Top.at \in Entry /\ Top.i \in Entry
         /\ Uda = thePool[Top.at]
         /\ \A k \in Frames : k \in Nat /\ k >= 1 /\ k <= Len(stack) /\ stack[k].at \in Entry
<1>1. stack \in Seq(Call)
  BY DEF TypeOK, Call
<1>2. Len(stack) \in Nat \ {0}
  BY <1>1, EmptySeq, LenProperties
<1>3. Len(stack) \in Frames
  BY <1>2 DEF Frames
<1>4. \A k \in Frames : stack[k] \in Call
  BY <1>1, ElementOfSeq DEF Frames
<1>5. \A k \in Frames : k \in Nat /\ k >= 1 /\ k <= Len(stack) /\ stack[k].at \in Entry
  BY <1>2, <1>4 DEF Frames, Call
<1>6. Top.at \in Entry /\ Top.i \in Entry
  BY <1>3, <1>4 DEF Top, Call
<1>7. QED
  BY <1>1, <1>2, <1>3, <1>5, <1>6 DEF Top, Uda

LEMMA PushCall ==
  ASSUME NEW S, NEW s \in Seq(S), s # <<>>, NEW d \in S, NEW f \in S
  PROVE  LET t == Append([s EXCEPT ![Len(s)] = d], f)
         IN  /\ t \in Seq(S) /\ Len(t) = Len(s) + 1
             /\ t[Len(s) + 1] = f /\ t[Len(s)] = d
             /\ \A k \in 1 .. Len(s) - 1 : t[k] = s[k]
<1> DEFINE r == [s EXCEPT ![Len(s)] = d]
<1>1. Len(s) \in Nat \ {0}
  BY EmptySeq, LenProperties
<1>2. Len(s) \in 1 .. Len(s)
  BY <1>1
<1>3. /\ r \in Seq(S) /\ Len(r) = Len(s)
      /\ \A k \in 1 .. Len(s) : r[k] = IF k = Len(s) THEN d ELSE s[k]
  BY <1>2, ExceptSeq
<1> HIDE DEF r
<1>4. /\ Append(r, f) \in Seq(S) /\ Len(Append(r, f)) = Len(r) + 1
      /\ \A k \in 1 .. Len(r) : Append(r, f)[k] = r[k]
      /\ Append(r, f)[Len(r) + 1] = f
  BY <1>3, AppendProperties
<1>5. \A k \in 1 .. Len(s) - 1 : k \in 1 .. Len(s) /\ k # Len(s)
  BY <1>1
<1>6. QED
  BY <1>1, <1>2, <1>3, <1>4, <1>5 DEF r

LEMMA PopCall ==
  ASSUME NEW S, NEW s \in Seq(S), s # <<>>
  PROVE  LET t == SubSeq(s, 1, Len(s) - 1)
         IN  /\ t \in Seq(S) /\ Len(t) = Len(s) - 1
             /\ \A k \in 1 .. Len(s) - 1 : t[k] = s[k]
<1>1. Len(s) \in Nat \ {0}
  BY EmptySeq, LenProperties
<1>2. \A k \in 1 .. Len(s) - 1 : s[k] \in S
  BY <1>1, ElementOfSeq
<1> DEFINE n == Len(s) - 1
<1>3. n \in Int /\ 1 \in Int /\ n - 1 + 1 = n
  BY <1>1
<1>4. \A k \in 1 .. n : k \in Int /\ 1 + k - 1 = k
  OBVIOUS
<1>5. /\ SubSeq(s, 1, n) \in Seq(S)
      /\ Len(SubSeq(s, 1, n)) = IF 1 <= n THEN n - 1 + 1 ELSE 0
      /\ \A k \in 1 .. n - 1 + 1 : SubSeq(s, 1, n)[k] = s[1 + k - 1]
  BY <1>2, <1>3, SubSeqProperties
<1>6. QED
  BY <1>1, <1>3, <1>4, <1>5

(* Consequences of the invariant used below: hubs have a number, and only  *)
(* entries in use have a parent.                                           *)
LEMMA HubsAreUsed ==
  ASSUME IInv, NEW i \in Entry
  PROVE  /\ thePool[i] \in Address
         /\ thePool[i].hub => thePool[i].num \in 1 .. hubCounter /\ Used(i)
         /\ thePool[i].parent # 0 => Used(i)
  BY DEF IInv, TypeOK, Numbered, Used, None, Addr, Address

(* While no call is running, an address that no entry has may be entered   *)
(* if its hub is there and a new hub gets the next number.                 *)
LEMMA EnterAddress ==
  ASSUME IInv, stack = <<>>, UNCHANGED <<stack, was>>,
         NEW i \in Entry, thePool[i] = None,
         NEW a \in Address, a # None, Holding(a) = {},
         thePool' = [thePool EXCEPT ![i] = a],
         hubCounter' = IF a.hub THEN hubCounter + 1 ELSE hubCounter,
         hubCounter' \in 0 .. HubLimit,
         a.hub => a.num = hubCounter + 1 /\ a.parent < a.num,
         a.parent # 0 => \E j \in Entry : thePool[j].hub /\ thePool[j].num = a.parent,
         a = RootHub \/ hubCounter' = 0 \/ \E j \in Entry : thePool[j] = RootHub
  PROVE  IInv'
<1>1. TypeOK'
  BY DEF IInv, TypeOK
<1>2. \A j \in Entry : thePool'[j] = IF j = i THEN a ELSE thePool[j]
  BY DEF IInv, TypeOK
<1>3. \A j \in Entry : thePool[j] # a
  BY DEF Holding
<1>4. UniqueAddresses'
  BY <1>2, <1>3 DEF IInv, UniqueAddresses, Used
<1>5. hubCounter \in 0 .. HubLimit /\ HubLimit \in Nat
  BY HubAssumption DEF IInv, TypeOK
<1>6. \A j \in Entry : thePool[j].hub => thePool[j].num \in 1 .. hubCounter
  BY HubsAreUsed
<1>7. UniqueHubs'
  BY <1>2, <1>5, <1>6 DEF IInv, UniqueHubs
<1>8. ~thePool[i].hub
  BY DEF None, Addr
<1>9. NoOrphans'
  BY <1>2, <1>8 DEF IInv, NoOrphans
<1>10. Numbered'
  <2>1. \A j \in Entry : thePool'[j].hub => thePool'[j].num \in 1 .. hubCounter'
    BY <1>2, <1>5, <1>6
  <2>2. \A j \in Entry : thePool'[j].hub /\ thePool'[j].parent # 0
                           => thePool'[j].parent < thePool'[j].num
    BY <1>2 DEF IInv, Numbered
  <2>3. hubCounter' # 0 => \E j \in Entry : thePool'[j] = RootHub
    <3>1. CASE a = RootHub
      BY <1>2, <3>1
    <3>2. ASSUME NEW j \in Entry, thePool[j] = RootHub
          PROVE  thePool'[j] = RootHub
      BY <1>2, <1>8, <3>2 DEF RootHub, Addr
    <3>3. QED
      BY <3>1, <3>2
  <2>4. QED
    BY <2>1, <2>2, <2>3 DEF Numbered
<1>11. Walk'
  BY DEF Walk, Frames
<1>12. QED
  BY <1>1, <1>4, <1>7, <1>9, <1>10, <1>11 DEF IInv

-----------------------------------------------------------------------------
LEMMA InvInit == Init => IInv
<1> SUFFICES ASSUME Init PROVE IInv
  OBVIOUS
<1> USE SizeAssumption, HubAssumption
<1>1. None \in Address /\ ~None.hub /\ None.parent = 0
  BY DEF None, Addr, Address
<1>2. thePool \in [Entry -> Address] /\ 1 \in Entry /\ 0 \in 0 .. HubLimit
  BY <1>1 DEF Init, Entry
<1>3. TypeOK
  BY <1>2 DEF Init, TypeOK
<1>4. UniqueAddresses /\ UniqueHubs /\ NoOrphans /\ Numbered
  BY <1>1 DEF Init, UniqueAddresses, UniqueHubs, NoOrphans, Numbered, Used
<1>5. Walk
  BY DEF Init, Walk, Frames
<1>6. QED
  BY <1>3, <1>4, <1>5 DEF IInv

(* At the root only an empty pool takes an address: a hub number in use    *)
(* would mean that the root hub is there, and a device without a hub above *)
(* it stands at the root.                                                  *)
LEMMA RootStep == IInv /\ AllocRoot => IInv'
<1> SUFFICES ASSUME IInv, AllocRoot PROVE IInv'
  OBVIOUS
<1>1. PICK hub \in BOOLEAN : AllocAddress(None, hub, 0)
  BY DEF AllocRoot
<1>2. CASE Refused(hub, 0)
  BY <1>1, <1>2 DEF AllocAddress, IInv, TypeOK, UniqueAddresses, UniqueHubs, NoOrphans,
                    Numbered, Walk, Frames, Used
<1>3. CASE ~Refused(hub, 0)
  <2>1. hubCounter = 0
    BY DEF IInv, Numbered, AllocRoot, InUse, Used, RootHub, None, Addr
  <2>2. \A j \in Entry : ~thePool[j].hub
    BY <2>1, HubsAreUsed
  <2>3. \A j \in Entry : thePool[j].parent = 0
    BY <2>2 DEF IInv, NoOrphans
  <2>4. \A j \in Entry : thePool[j] = None
    BY <2>3 DEF AllocRoot, InUse, Used
  <2> DEFINE a == NewAddress(None, hub, 0)
  <2>5. PICK i \in Entry : thePool[i] = None /\ thePool' = [thePool EXCEPT ![i] = a]
    BY <1>1, <1>3 DEF AllocAddress, First, Holding
  <2>6. /\ a \in Address /\ a # None /\ a.parent = 0 /\ a.hub = hub
        /\ hub => a = RootHub /\ a.num = 1
    <3>1. CASE hub = TRUE
      <4>1. a = RootHub
        BY <3>1 DEF NewAddress
      <4>2. /\ RootHub \in Address /\ RootHub # None
            /\ RootHub.hub = TRUE /\ RootHub.parent = 0 /\ RootHub.num = 1
        BY HubAssumption DEF RootHub, None, Addr, Address
      <4>3. QED
        BY <3>1, <4>1, <4>2, Zenon
    <3>2. CASE hub = FALSE
      <4>1. a = Device
        BY <3>2 DEF NewAddress
      <4>2. /\ Device \in Address /\ Device # None
            /\ Device.hub = FALSE /\ Device.parent = 0
        BY HubAssumption DEF Device, None, Addr, Address
      <4>3. QED
        BY <3>2, <4>1, <4>2, Zenon
    <3>3. QED
      BY <3>1, <3>2
  <2>7. Holding(a) = {}
    BY <2>4, <2>6 DEF Holding
  <2>8. stack = <<>> /\ UNCHANGED <<stack, was>>
    BY <1>1 DEF AllocAddress
  <2>9. hubCounter' = IF a.hub THEN hubCounter + 1 ELSE hubCounter
    BY <1>1, <1>3, <2>6 DEF AllocAddress
  <2>10. hubCounter' \in 0 .. HubLimit
    BY <2>1, <2>9, HubAssumption
  <2>11. a = RootHub \/ hubCounter' = 0
    BY <2>1, <2>6, <2>9
  <2>12. a.hub => a.num = hubCounter + 1 /\ a.parent < a.num
    BY <2>1, <2>6
  <2> HIDE DEF a
  <2>13. QED
    BY <2>5, <2>6, <2>7, <2>8, <2>9, <2>10, <2>11, <2>12, EnterAddress
<1>4. QED
  BY <1>2, <1>3

(* Under a hub, a new hub gets a number that is larger than all others.    *)
LEMMA ChildStep == IInv /\ AllocChild => IInv'
<1> SUFFICES ASSUME IInv, AllocChild PROVE IInv'
  OBVIOUS
<1>1. PICK k \in InUse, hub \in BOOLEAN, port \in 1 .. MaxPort + 1 :
        /\ thePool[k].hub
        /\ ~hub => Holding(Addr(FALSE, thePool[k].num, port)) = {}
        /\ AllocAddress(thePool[k], hub, port)
  BY DEF AllocChild
<1>2. CASE Refused(hub, port)
  BY <1>1, <1>2 DEF AllocAddress, IInv, TypeOK, UniqueAddresses, UniqueHubs, NoOrphans,
                    Numbered, Walk, Frames, Used
<1>3. CASE ~Refused(hub, port)
  <2> DEFINE p == thePool[k].num
             n == IF hub THEN hubCounter + 1 ELSE port
             a == Addr(hub, p, n)
  <2>1. k \in Entry /\ thePool[k] # None
    BY DEF InUse, Used
  <2>2. hubCounter \in 0 .. HubLimit /\ HubLimit \in Nat /\ MaxPort \in Nat
    BY HubAssumption, PortAssumption DEF IInv, TypeOK
  <2>3. p \in 1 .. hubCounter
    BY <1>1, <2>1, HubsAreUsed
  <2>4. a \in Address /\ a.hub = hub /\ a.parent = p /\ a.num = n /\ a # None
    <3>1. n \in Nat /\ p \in 0 .. HubLimit
      BY <2>2, <2>3
    <3>2. p # 0
      BY <2>2, <2>3
    <3>3. QED
      BY <3>1, <3>2 DEF Addr, Address, None
  <2>5. PICK i \in Entry : thePool[i] = None /\ thePool' = [thePool EXCEPT ![i] = a]
    BY <1>1, <1>3, <2>1 DEF AllocAddress, First, Holding, NewAddress
  <2>6. Holding(a) = {}
    <3>1. CASE hub
      <4>1. \A j \in Entry : thePool[j].hub => thePool[j].num # hubCounter + 1
        BY <2>2, HubsAreUsed
      <4>2. QED
        BY <3>1, <2>4, <4>1 DEF Holding
    <3>2. QED
      BY <3>1, <1>1 DEF Holding
  <2>7. stack = <<>> /\ UNCHANGED <<stack, was>>
    BY <1>1 DEF AllocAddress
  <2>8. hubCounter' = IF a.hub THEN hubCounter + 1 ELSE hubCounter
    BY <1>1, <1>3, <2>4 DEF AllocAddress
  <2>9. hubCounter' \in 0 .. HubLimit
    BY <1>3, <2>2, <2>4, <2>8 DEF Refused
  <2>10. a.hub => a.num = hubCounter + 1 /\ a.parent < a.num
    BY <2>2, <2>3, <2>4
  <2>11. \E j \in Entry : thePool[j] = RootHub
    <3>1. hubCounter # 0
      BY <2>2, <2>3
    <3>2. QED
      BY <3>1 DEF IInv, Numbered
  <2>12. \E j \in Entry : thePool[j].hub /\ thePool[j].num = a.parent
    BY <1>1, <2>1, <2>4
  <2> HIDE DEF a
  <2>13. QED
    BY <2>4, <2>5, <2>6, <2>7, <2>8, <2>9, <2>10, <2>11, <2>12, EnterAddress
<1>4. QED
  BY <1>2, <1>3

-----------------------------------------------------------------------------
LEMMA FreeStep == ASSUME NEW i \in InUse
                  PROVE  IInv /\ FreeAddress(thePool[i]) => IInv'
<1> SUFFICES ASSUME IInv, FreeAddress(thePool[i]) PROVE IInv'
  OBVIOUS
<1>1. CASE thePool[i] = RootHub
  <2>1. thePool' = [j \in Entry |-> None] /\ hubCounter' = 0 /\ stack' = <<>> /\ was' = was
    BY <1>1 DEF FreeAddress, InitAllAddresses
  <2>2. None \in Address /\ ~None.hub /\ None.parent = 0
    BY HubAssumption DEF None, Addr, Address
  <2>3. TypeOK'
    BY <2>1, <2>2, HubAssumption DEF IInv, TypeOK
  <2>4. UniqueAddresses' /\ UniqueHubs' /\ NoOrphans' /\ Numbered'
    BY <2>1, <2>2 DEF UniqueAddresses, UniqueHubs, NoOrphans, Numbered, Used
  <2>5. Walk'
    BY <2>1 DEF Walk, Frames
  <2>6. QED
    BY <2>3, <2>4, <2>5 DEF IInv
<1>2. CASE thePool[i] # RootHub
  <2>1. PICK k \in Entry : /\ First(k, Holding(thePool[i]))
                           /\ stack' = <<Frame(k)>>
                           /\ was' = [pool |-> thePool, at |-> k]
    BY <1>2 DEF FreeAddress
  <2>2. UNCHANGED <<thePool, hubCounter>>
    BY <1>2 DEF FreeAddress
  <2>3. thePool[k] = thePool[i] /\ Used(k)
    BY <2>1 DEF First, Holding, InUse, Used
  <2>4. 1 \in Entry /\ Frame(k) = [at |-> k, i |-> 1]
    BY SizeAssumption DEF Entry, Frame
  <2>5. stack' \in Seq([at : Entry, i : Entry]) /\ Len(stack') = 1 /\ stack'[1] = Frame(k)
    BY <2>1, <2>4
  <2>6. TypeOK'
    BY <2>1, <2>2, <2>5 DEF IInv, TypeOK
  <2>7. Walk'
    <3>1. \A l \in Frames' : l = 1
      BY <2>5 DEF Frames
    <3>2. \A j \in Entry : ~(j < 1)
      BY SizeAssumption DEF Entry
    <3>3. QED
      BY <1>2, <2>2, <2>3, <2>4, <2>5, <3>1, <3>2 DEF Walk, Used
  <2>8. QED
    BY <2>2, <2>6, <2>7 DEF IInv, UniqueAddresses, UniqueHubs, NoOrphans, Numbered, Used
<1>3. QED
  BY <1>1, <1>2

(* A call begins for the next child of the entry on top.                   *)
LEMMA CallBegins ==
  ASSUME IInv, FreeChild
  PROVE  LET L == Len(stack) IN
         \E c \in Entry :
           /\ First(c, Children(Uda.num, Top.i)) /\ thePool[c].parent = Uda.num
           /\ stack \in Seq(Call) /\ L \in Nat \ {0} /\ L \in Frames
           /\ Top = stack[L] /\ Top.i \in Entry /\ stack[L].at \in Entry
           /\ Uda = thePool[stack[L].at] /\ Uda.hub
           /\ \A k \in Frames : k \in Nat /\ k >= 1 /\ k <= L /\ stack[k].at \in Entry
           /\ stack' \in Seq(Call) /\ Len(stack') = L + 1
           /\ stack'[L + 1].at = c /\ stack'[L + 1].i = 1
           /\ stack'[L].at = stack[L].at /\ stack'[L].i = c
           /\ \A k \in 1 .. L - 1 : stack'[k] = stack[k]
<1> DEFINE L == Len(stack)
<1>1. PICK c \in Entry :
        /\ First(c, Children(Uda.num, Top.i))
        /\ stack' = Append([stack EXCEPT ![Len(stack)].i = c], Frame(c))
  BY DEF FreeChild
<1>2. UNCHANGED <<thePool, hubCounter, was>> /\ Uda.hub /\ stack # <<>>
  BY DEF FreeChild, ChildrenLeft
<1>3. /\ stack \in Seq(Call) /\ L \in Nat \ {0} /\ L \in Frames
      /\ Top = stack[L] /\ Top.at \in Entry /\ Top.i \in Entry
      /\ Uda = thePool[Top.at]
      /\ \A k \in Frames : k \in Nat /\ k >= 1 /\ k <= L /\ stack[k].at \in Entry
  BY <1>2, TopCall DEF IInv
<1>4. Uda = thePool[stack[L].at] /\ stack[L].at \in Entry
  BY <1>3
<1>5. Frame(c) = [at |-> c, i |-> 1] /\ Frame(c) \in Call
  BY SizeAssumption DEF Frame, Entry, Call
<1>6. /\ stack' \in Seq(Call) /\ Len(stack') = L + 1
      /\ stack'[L + 1] = Frame(c)
      /\ stack'[L].at = stack[L].at /\ stack'[L].i = c
      /\ \A k \in 1 .. L - 1 : stack'[k] = stack[k]
  <2> DEFINE d == [stack[L] EXCEPT !.i = c]
  <2>1. stack[L] \in Call
    BY <1>3, ElementOfSeq DEF Frames
  <2>2. d \in Call /\ d.at = stack[L].at /\ d.i = c
    BY <2>1 DEF Call
  <2>3. stack' = Append([stack EXCEPT ![L] = d], Frame(c))
    BY <1>1
  <2> HIDE DEF d
  <2>4. QED
    BY <1>2, <1>3, <1>5, <2>2, <2>3, PushCall
<1>7. thePool[c].parent = Uda.num
  BY <1>1 DEF First, Children
<1>8. stack'[L + 1].at = c /\ stack'[L + 1].i = 1
  BY <1>5, <1>6
<1>9. QED
  BY <1>1, <1>2, <1>3, <1>4, <1>6, <1>7, <1>8

(* The call for a child: it is younger than all hubs of the calls above.   *)
LEMMA FreeChildStep == IInv /\ FreeChild => IInv'
<1> SUFFICES ASSUME IInv, FreeChild PROVE IInv'
  OBVIOUS
<1> DEFINE L == Len(stack)
<1>1. UNCHANGED <<thePool, hubCounter, was>>
  BY DEF FreeChild
<1>2. PICK c \in Entry :
        /\ First(c, Children(Uda.num, Top.i)) /\ thePool[c].parent = Uda.num
        /\ stack \in Seq(Call) /\ L \in Nat \ {0} /\ L \in Frames
        /\ Top = stack[L] /\ Top.i \in Entry /\ stack[L].at \in Entry
        /\ Uda = thePool[stack[L].at] /\ Uda.hub
        /\ \A k \in Frames : k \in Nat /\ k >= 1 /\ k <= L /\ stack[k].at \in Entry
        /\ stack' \in Seq(Call) /\ Len(stack') = L + 1
        /\ stack'[L + 1].at = c /\ stack'[L + 1].i = 1
        /\ stack'[L].at = stack[L].at /\ stack'[L].i = c
        /\ \A k \in 1 .. L - 1 : stack'[k] = stack[k]
  BY CallBegins
<1>3. TypeOK'
  BY <1>1, <1>2 DEF IInv, TypeOK, Call
<1>4. Uda.num \in 1 .. hubCounter /\ hubCounter \in Nat
  BY <1>1, <1>2, HubsAreUsed DEF IInv, TypeOK
<1>5. \A k \in Frames : k < L => thePool[stack[k].at].num < Uda.num
  <2>1. thePool[stack[L].at].hub
    BY <1>1, <1>2
  <2>2. \A k, l \in Frames : k < l /\ thePool[stack[l].at].hub =>
          thePool[stack[k].at].num < thePool[stack[l].at].num
    BY DEF IInv, Walk
  <2>3. QED
    BY <1>2, <2>1, <2>2
<1>6. thePool[c].parent # 0 /\ Used(c) /\ thePool[c] # RootHub
  BY <1>2, <1>4, HubsAreUsed DEF RootHub, Addr
<1>7. thePool[c].hub => Uda.num < thePool[c].num
  BY <1>2, <1>6 DEF IInv, Numbered
<1>8. \A j \in Entry : j < c => thePool[j].parent # Uda.num
  <2>1. \A j \in Entry : j < Top.i => thePool[j].parent # Uda.num
    <3>1. thePool[stack[L].at].hub
      BY <1>1, <1>2
    <3>2. \A j \in Entry : j < stack[L].i => thePool[j].parent # thePool[stack[L].at].num
      BY <1>2, <3>1 DEF IInv, Walk
    <3>3. QED
      BY <1>2, <3>2
  <2>2. \A j \in Entry : j >= Top.i /\ thePool[j].parent = Uda.num => c <= j
    BY <1>2 DEF First, Children
  <2>3. QED
    BY <1>2, <2>1, <2>2 DEF Entry
<1>9. \A k \in Frames' : k = L + 1 \/ (k \in Frames /\ stack'[k].at = stack[k].at)
  BY <1>2 DEF Frames
<1>10. \A k \in Frames' : \/ k = L + 1 \/ k = L
                          \/ k \in Frames /\ k < L /\ stack'[k] = stack[k]
  BY <1>2 DEF Frames
<1>11. \A k \in Frames : thePool[stack[k].at].num \in Nat
  BY <1>2 DEF IInv, TypeOK, Address
<1>12. Walk'
  <2>1. \A k \in Frames' : Used(stack'[k].at) /\ thePool[stack'[k].at] # RootHub
    BY <1>2, <1>6, <1>9 DEF IInv, Walk
  <2>2. \A k \in Frames' : k < L + 1 => thePool[stack'[k].at].hub
    BY <1>1, <1>2, <1>10 DEF IInv, Walk
  <2>3. ASSUME NEW k \in Frames', NEW l \in Frames', k < l, thePool[stack'[l].at].hub
        PROVE  thePool[stack'[k].at].num < thePool[stack'[l].at].num
    <3>1. CASE l = L + 1
      <4>1. thePool[stack'[l].at] = thePool[c]
        BY <1>2, <3>1
      <4>2. k \in Frames /\ stack'[k].at = stack[k].at
        BY <1>9, <2>3, <3>1
      <4>3. thePool[stack[k].at].num <= Uda.num
        <5>1. k = L \/ k < L
          BY <1>2, <4>2
        <5>2. QED
          BY <1>2, <1>4, <1>5, <1>11, <4>2, <5>1
      <4>4. thePool[c].num \in Nat
        BY DEF IInv, TypeOK, Address
      <4>5. QED
        BY <1>4, <1>7, <1>11, <2>3, <4>1, <4>2, <4>3, <4>4
    <3>2. CASE l # L + 1
      <4>1. l \in Frames /\ stack'[l].at = stack[l].at
        BY <1>9, <3>2
      <4>2. k \in Frames /\ stack'[k].at = stack[k].at
        BY <1>2, <1>9, <2>3, <4>1 DEF Frames
      <4>3. QED
        BY <2>3, <4>1, <4>2 DEF IInv, Walk
    <3>3. QED
      BY <3>1, <3>2
  <2>4. ASSUME NEW k \in Frames', thePool[stack'[k].at].hub, NEW j \in Entry, j < stack'[k].i
        PROVE  thePool[j].parent # thePool[stack'[k].at].num
    <3>1. CASE k = L + 1
      BY <1>2, <2>4, <3>1 DEF Entry
    <3>2. CASE k = L
      BY <1>2, <1>8, <2>4, <3>2
    <3>3. CASE k \in Frames /\ stack'[k] = stack[k]
      BY <2>4, <3>3 DEF IInv, Walk
    <3>4. QED
      BY <1>10, <3>1, <3>2, <3>3
  <2>5. QED
    BY <1>1, <1>2, <2>1, <2>2, <2>3, <2>4 DEF Walk, Used
<1>13. QED
  BY <1>1, <1>2, <1>3, <1>12 DEF IInv, UniqueAddresses, UniqueHubs, NoOrphans, Numbered, Used

(* The end of a call: its entry is freed, no child is left, neither behind *)
(* i nor before it, and the entries of the other calls stay.               *)
LEMMA CallEnds ==
  ASSUME IInv, FreeEntry
  PROVE  LET L == Len(stack)  e == Top.at IN
         /\ stack \in Seq(Call) /\ L \in Nat \ {0} /\ L \in Frames
         /\ e = stack[L].at /\ e \in Entry /\ Uda = thePool[e] /\ Used(e)
         /\ \A k \in Frames : k \in Nat /\ k >= 1 /\ k <= L /\ stack[k].at \in Entry
         /\ stack' \in Seq(Call) /\ Len(stack') = L - 1
         /\ \A j \in Entry : thePool'[j] = IF j = e THEN None ELSE thePool[j]
         /\ Uda.hub => \A j \in Entry : thePool[j].parent # Uda.num
         /\ \A k \in Frames' : /\ k \in Frames /\ k < L /\ stack'[k] = stack[k]
                               /\ stack[k].at \in Entry /\ stack[k].at # e
                               /\ thePool'[stack[k].at] = thePool[stack[k].at]
<1> DEFINE L == Len(stack)
           e == Top.at
<1>1. stack # <<>> /\ ~ChildrenLeft /\ thePool' = [thePool EXCEPT ![e] = None]
      /\ stack' = SubSeq(stack, 1, L - 1)
  BY DEF FreeEntry, InitEntry
<1>2. stack \in Seq(Call) /\ L \in Nat \ {0}
  BY <1>1, TopCall DEF IInv
<1>3. /\ L \in Frames /\ Top = stack[L] /\ e \in Entry /\ Top.i \in Entry
      /\ Uda = thePool[e]
      /\ \A k \in Frames : k \in Nat /\ k >= 1 /\ k <= L /\ stack[k].at \in Entry
  BY <1>1, TopCall DEF IInv
<1>4. /\ stack' \in Seq(Call) /\ Len(stack') = L - 1
      /\ \A k \in 1 .. L - 1 : stack'[k] = stack[k]
  BY <1>1, <1>2, PopCall
<1>5. \A j \in Entry : thePool'[j] = IF j = e THEN None ELSE thePool[j]
  BY <1>1 DEF IInv, TypeOK
<1>6. Uda.hub => \A j \in Entry : thePool[j].parent # Uda.num
  <2>1. ASSUME Uda.hub, NEW j \in Entry, thePool[j].parent = Uda.num
        PROVE  FALSE
    <3>1. ~(j < Top.i)
      BY <1>3, <2>1 DEF IInv, Walk
    <3>2. ~(j >= Top.i)
      BY <1>1, <2>1 DEF ChildrenLeft, Children
    <3>3. QED
      BY <1>3, <3>1, <3>2 DEF Entry
  <2>2. QED
    BY <2>1
<1>7. ASSUME NEW k \in Frames'
      PROVE  /\ k \in Frames /\ k < L /\ stack'[k] = stack[k]
             /\ stack[k].at \in Entry /\ stack[k].at # e
             /\ thePool'[stack[k].at] = thePool[stack[k].at]
  <2>1. k \in Frames /\ k < L /\ stack'[k] = stack[k] /\ stack[k].at \in Entry
    BY <1>2, <1>3, <1>4, <1>7 DEF Frames
  <2>2. thePool[stack[k].at].hub
    BY <2>1 DEF IInv, Walk
  <2>3. Uda.hub => thePool[stack[k].at].num < Uda.num
    BY <1>3, <2>1 DEF IInv, Walk
  <2>4. thePool[stack[k].at].num \in Nat
    BY <2>1 DEF IInv, TypeOK, Address
  <2>5. stack[k].at # e
    BY <1>3, <2>1, <2>2, <2>3, <2>4
  <2>6. QED
    BY <1>5, <2>1, <2>5
<1>8. Used(e)
  BY <1>3 DEF IInv, Walk
<1>9. QED
  BY <1>2, <1>3, <1>4, <1>5, <1>6, <1>7, <1>8

LEMMA FreeEntryStep == IInv /\ FreeEntry => IInv'
<1> SUFFICES ASSUME IInv, FreeEntry PROVE IInv'
  OBVIOUS
<1> DEFINE L == Len(stack)
           e == Top.at
<1>1. /\ thePool' = [thePool EXCEPT ![e] = None] /\ hubCounter' = CounterAfter /\ was' = was
  BY DEF FreeEntry, InitEntry
<1>2. /\ L \in Frames /\ e = stack[L].at /\ e \in Entry /\ Uda = thePool[e]
      /\ stack' \in Seq(Call)
      /\ Uda.hub => \A j \in Entry : thePool[j].parent # Uda.num
      /\ \A j \in Entry : thePool'[j] = IF j = e THEN None ELSE thePool[j]
  BY CallEnds
<1>3. \A k \in Frames' : /\ k \in Frames /\ k < L /\ stack'[k] = stack[k]
                         /\ stack[k].at \in Entry /\ stack[k].at # e
                         /\ thePool'[stack[k].at] = thePool[stack[k].at]
  BY CallEnds
<1>4. None \in Address /\ ~None.hub /\ None.parent = 0
  BY HubAssumption DEF None, Addr, Address
<1>5. hubCounter \in 0 .. HubLimit /\ HubLimit \in Nat
  BY HubAssumption DEF IInv, TypeOK
<1>6. \A j \in Entry : thePool[j].hub => thePool[j].num \in 1 .. hubCounter
  BY HubsAreUsed
<1>7. hubCounter' = (IF Uda.hub /\ hubCounter = Uda.num THEN hubCounter - 1 ELSE hubCounter)
  BY <1>1 DEF CounterAfter
<1>8. TypeOK'
  <2>1. hubCounter' \in 0 .. HubLimit
    BY <1>2, <1>5, <1>6, <1>7
  <2>2. QED
    BY <1>1, <1>2, <1>4, <2>1 DEF IInv, TypeOK, Call
<1>9. UniqueAddresses'
  BY <1>2 DEF IInv, UniqueAddresses, Used
<1>10. UniqueHubs'
  BY <1>2, <1>4 DEF IInv, UniqueHubs
<1>11. NoOrphans'
  <2>1. SUFFICES ASSUME NEW j \in Entry, thePool'[j].parent # 0
                 PROVE  \E h \in Entry : thePool'[h].hub /\ thePool'[h].num = thePool'[j].parent
    BY DEF NoOrphans
  <2>2. thePool'[j] = thePool[j]
    BY <1>2, <1>4, <2>1
  <2>3. PICK h \in Entry : thePool[h].hub /\ thePool[h].num = thePool[j].parent
    BY <2>1, <2>2 DEF IInv, NoOrphans
  <2>4. h # e
    BY <1>2, <2>3
  <2>5. QED
    BY <1>2, <2>2, <2>3, <2>4
<1>12. Numbered'
  <2>1. ASSUME NEW j \in Entry, thePool'[j].hub
        PROVE  thePool'[j].num \in 1 .. hubCounter'
    <3>1. j # e /\ thePool'[j] = thePool[j]
      BY <1>2, <1>4, <2>1
    <3>2. Uda.hub => thePool[j].num # Uda.num
      BY <1>2, <2>1, <3>1 DEF IInv, UniqueHubs
    <3>3. thePool[j].num \in 1 .. hubCounter
      BY <1>6, <2>1, <3>1
    <3>4. QED
      BY <1>5, <1>7, <3>1, <3>2, <3>3
  <2>2. \A j \in Entry : thePool'[j].hub /\ thePool'[j].parent # 0
                           => thePool'[j].parent < thePool'[j].num
    BY <1>2, <1>4 DEF IInv, Numbered
  <2>3. thePool[e] # RootHub
    BY <1>2 DEF IInv, Walk
  <2>4. hubCounter' # 0 => hubCounter # 0
    BY <1>2, <1>5, <1>6, <1>7
  <2>5. hubCounter' # 0 => \E j \in Entry : thePool'[j] = RootHub
    BY <1>2, <2>3, <2>4 DEF IInv, Numbered
  <2>6. QED
    BY <2>1, <2>2, <2>5 DEF Numbered
<1>13. Walk'
  <2>1. \A k \in Frames' : Used(stack[k].at)' /\ thePool'[stack'[k].at] # RootHub
    BY <1>3 DEF IInv, Walk, Used
  <2>2. \A k \in Frames' : thePool'[stack'[k].at].hub
    BY <1>3 DEF IInv, Walk
  <2>3. \A k, l \in Frames' : k < l /\ thePool'[stack'[l].at].hub =>
          thePool'[stack'[k].at].num < thePool'[stack'[l].at].num
    BY <1>3 DEF IInv, Walk
  <2>4. ASSUME NEW k \in Frames', NEW j \in Entry, j < stack'[k].i
        PROVE  thePool'[j].parent # thePool'[stack'[k].at].num
    <3>1. thePool[stack[k].at].hub /\ thePool[stack[k].at].num # 0
      BY <1>3, <1>5, <1>6, <2>2
    <3>2. thePool[j].parent # thePool[stack[k].at].num
      BY <1>3, <2>4, <3>1 DEF IInv, Walk
    <3>3. QED
      BY <1>2, <1>4, <1>3, <3>1, <3>2
  <2>5. QED
    BY <2>1, <2>2, <2>3, <2>4 DEF Walk
<1>14. QED
  BY <1>8, <1>9, <1>10, <1>11, <1>12, <1>13 DEF IInv

-----------------------------------------------------------------------------
LEMMA InvStep == IInv /\ [Next]_vars => IInv'
<1> SUFFICES ASSUME IInv, [Next]_vars PROVE IInv'
  OBVIOUS
<1>1. CASE AllocRoot
  BY <1>1, RootStep
<1>2. CASE AllocChild
  BY <1>2, ChildStep
<1>3. ASSUME NEW i \in InUse, FreeAddress(thePool[i])
      PROVE  IInv'
  BY <1>3, FreeStep
<1>4. CASE FreeChild
  BY <1>4, FreeChildStep
<1>5. CASE FreeEntry
  BY <1>5, FreeEntryStep
<1>6. CASE UNCHANGED vars
  BY <1>6 DEF vars, IInv, TypeOK, UniqueAddresses, UniqueHubs, NoOrphans, Numbered, Walk,
              Frames, Used
<1>7. QED
  BY <1>1, <1>2, <1>3, <1>4, <1>5, <1>6 DEF Next

THEOREM InvHolds == Spec => []IInv
<1>1. QED
  BY InvInit, InvStep, PTL DEF Spec

(* The table, the counter and the calls keep their types.                  *)
THEOREM TypeCorrect == Spec => []TypeOK
<1>1. IInv => TypeOK
  BY DEF IInv
<1>2. QED
  BY <1>1, InvHolds, PTL

(* No address is given out twice, whatever order hubs and devices come and
   go in, also between two calls of FreeAddressByIndex.                    *)
THEOREM AddressesAreUnique == Spec => []UniqueAddresses
<1>1. IInv => UniqueAddresses
  BY DEF IInv
<1>2. QED
  BY <1>1, InvHolds, PTL

(* Two hubs never have one number: the counter goes down only when the
   youngest hub is freed.                                                  *)
THEOREM HubsAreUnique == Spec => []UniqueHubs
<1>1. IInv => UniqueHubs
  BY DEF IInv
<1>2. QED
  BY <1>1, InvHolds, PTL

(* Every device's hub is in the pool, in every state of a removal.         *)
THEOREM ParentsArePresent == Spec => []NoOrphans
<1>1. IInv => NoOrphans
  BY DEF IInv
<1>2. QED
  BY <1>1, InvHolds, PTL

-----------------------------------------------------------------------------
(***************************************************************************)
(* What FreeAddress frees.  Subtrees are closures, but no induction over   *)
(* the tree is needed: it is enough that an entry which is free has its    *)
(* hub among those freed or on the stack (Followed), and that a hub which  *)
(* is free has nothing below it (Emptied).                                 *)
(***************************************************************************)
Parent(j, i) == was.pool[j].hub /\ was.pool[j].num = was.pool[i].parent

Kept     == stack[1].at = was.at /\ \A i \in Entry : Used(i) => thePool[i] = was.pool[i]
Calls    == \A k \in Frames : k > 1 => Parent(stack[k - 1].at, stack[k].at)
Followed == \A i \in Freed : \/ \E j \in Freed : Parent(j, i)
                            \/ \E k \in Frames : Parent(stack[k].at, i)
Emptied  == \A j \in Freed, i \in Entry : Parent(j, i) => ~Used(i)

Freeing == stack # <<>> => Kept /\ Calls /\ Followed /\ Emptied

(* FreeAddress has freed nothing yet when its first call begins.           *)
LEMMA FreeingBegins ==
  ASSUME IInv, NEW i \in InUse, FreeAddress(thePool[i])
  PROVE  Freeing'
<1>1. CASE thePool[i] = RootHub
  BY <1>1 DEF FreeAddress, Freeing
<1>2. CASE thePool[i] # RootHub
  <2>1. PICK k \in Entry : stack' = <<Frame(k)>> /\ was' = [pool |-> thePool, at |-> k]
    BY <1>2 DEF FreeAddress
  <2>2. UNCHANGED thePool
    BY <1>2 DEF FreeAddress
  <2>3. Len(stack') = 1 /\ stack'[1].at = k
    BY <2>1 DEF Frame
  <2>4. \A l \in Frames' : ~(l > 1)
    BY <2>3 DEF Frames
  <2>5. (Freed)' = {}
    BY <2>1, <2>2 DEF Freed, Used
  <2>6. QED
    BY <2>1, <2>2, <2>3, <2>4, <2>5 DEF Freeing, Kept, Calls, Followed, Emptied, Used
<1>3. QED
  BY <1>1, <1>2

(* A call for a child follows its hub.                                     *)
LEMMA FreeingDescends == IInv /\ Freeing /\ FreeChild => Freeing'
<1> SUFFICES ASSUME IInv, Freeing, FreeChild PROVE Freeing'
  OBVIOUS
<1> DEFINE L == Len(stack)
<1>1. UNCHANGED <<thePool, was>> /\ stack # <<>>
  BY DEF FreeChild
<1>2. PICK c \in Entry :
        /\ thePool[c].parent = Uda.num
        /\ L \in Nat \ {0} /\ stack[L].at \in Entry
        /\ Uda = thePool[stack[L].at] /\ Uda.hub
        /\ Len(stack') = L + 1 /\ stack'[L + 1].at = c
        /\ stack'[L].at = stack[L].at
        /\ \A k \in 1 .. L - 1 : stack'[k] = stack[k]
  BY CallBegins
<1>3. Kept /\ Calls /\ Followed /\ Emptied
  BY <1>1 DEF Freeing
<1>4. \A k \in 1 .. L : stack'[k].at = stack[k].at
  <2>1. \A k \in 1 .. L : k \in 1 .. L - 1 \/ k = L
    BY <1>2
  <2>2. QED
    BY <1>2, <2>1
<1>5. (Freed)' = Freed
  BY <1>1 DEF Freed, Used
<1>6. Kept'
  BY <1>1, <1>2, <1>3, <1>4 DEF Kept, Used
<1>7. Calls'
  <2>1. Parent(stack[L].at, c)
    <3>1. Uda.num # 0
      BY <1>2, HubsAreUsed
    <3>2. Used(c) /\ Used(stack[L].at)
      BY <1>2, <3>1, HubsAreUsed
    <3>3. QED
      BY <1>2, <1>3, <3>2 DEF Kept, Parent
  <2>2. ASSUME NEW k \in Frames', k > 1
        PROVE  Parent(stack'[k - 1].at, stack'[k].at)
    <3>1. CASE k = L + 1
      BY <1>2, <2>1, <3>1
    <3>2. CASE k # L + 1
      <4>1. k \in 1 .. L /\ k - 1 \in 1 .. L
        BY <1>2, <2>2, <3>2 DEF Frames
      <4>2. QED
        BY <1>3, <1>4, <2>2, <4>1 DEF Calls, Frames
    <3>3. QED
      BY <3>1, <3>2
  <2>3. QED
    BY <1>1, <2>2 DEF Calls, Parent
<1>8. Followed'
  <2>1. \A k \in Frames : k \in Frames' /\ stack'[k].at = stack[k].at
    BY <1>2, <1>4 DEF Frames
  <2>2. QED
    BY <1>1, <1>3, <1>5, <2>1 DEF Followed, Parent
<1>9. Emptied'
  BY <1>1, <1>3, <1>5 DEF Emptied, Parent, Used
<1>10. QED
  BY <1>6, <1>7, <1>8, <1>9 DEF Freeing

(* The entry of a call that ends has no child in the pool; its own hub is  *)
(* the entry of the call below, unless it is the one that FreeAddress met. *)
LEMMA FreeingReturns ==
  ASSUME IInv, Freeing, FreeEntry
  PROVE  LET e == Top.at IN
         /\ was' = was /\ (Freed)' = Freed \cup {e} /\ Emptied'
         /\ \A i \in Entry : Used(i)' => thePool'[i] = was.pool[i]
         /\ \A i \in Entry : was.pool[i] # None /\ i \notin (Freed)' => Used(i)'
         /\ was.at \in (Freed)' <=> Len(stack) = 1
         /\ Len(stack) > 1 => Freeing'
         /\ \A i \in (Freed)' : \/ i = was.at
                                \/ \E j \in (Freed)' : Parent(j, i)
                                \/ Len(stack) > 1
<1> DEFINE L == Len(stack)
           e == Top.at
<1>1. was' = was /\ stack # <<>>
  BY DEF FreeEntry
<1>2. /\ L \in Nat \ {0} /\ L \in Frames
      /\ e = stack[L].at /\ e \in Entry /\ Uda = thePool[e] /\ Used(e)
      /\ Len(stack') = L - 1
      /\ \A j \in Entry : thePool'[j] = IF j = e THEN None ELSE thePool[j]
      /\ Uda.hub => \A j \in Entry : thePool[j].parent # Uda.num
  BY CallEnds
<1>3. \A k \in Frames' : k \in Frames /\ k < L /\ stack'[k] = stack[k] /\ stack[k].at # e
  BY CallEnds
<1>4. Kept /\ Calls /\ Followed /\ Emptied
  BY <1>1 DEF Freeing
<1>5. (Freed)' = Freed \cup {e}
  BY <1>1, <1>2, <1>4 DEF Freed, Used, Kept
<1>6. \A i \in Entry : Used(i)' => thePool'[i] = was.pool[i]
  BY <1>2, <1>4 DEF Used, Kept
<1>7. \A i \in Entry : was.pool[i] # None /\ i \notin (Freed)' => Used(i)'
  BY <1>1 DEF Freed
<1>8. Emptied'
  <2>1. ASSUME NEW i \in Entry, Parent(e, i), Used(i)
        PROVE  FALSE
    <3>1. thePool[e] = was.pool[e] /\ thePool[i] = was.pool[i]
      BY <1>2, <1>4, <2>1 DEF Kept
    <3>2. QED
      BY <1>2, <2>1, <3>1 DEF Parent
  <2>2. ASSUME NEW j \in (Freed)', NEW i \in Entry, Parent(j, i)
        PROVE  ~Used(i)'
    <3>1. ~Used(i)
      BY <1>4, <1>5, <2>1, <2>2 DEF Emptied
    <3>2. QED
      BY <1>2, <3>1 DEF Used
  <2>3. QED
    BY <1>1, <2>2 DEF Emptied, Parent
<1>9. \A k \in Frames : k < L => k \in Frames'
  BY <1>2 DEF Frames
<1>10. was.at = stack[1].at /\ 1 \in Frames
  BY <1>2, <1>4 DEF Kept, Frames
<1>11. Used(was.at) /\ was.at \notin Freed
  BY <1>10 DEF IInv, Walk, Freed
<1>12. was.at \in (Freed)' <=> L = 1
  <2>1. CASE L = 1
    BY <1>2, <1>5, <1>10, <2>1
  <2>2. CASE L # 1
    <3>1. 1 \in Frames'
      BY <1>2, <2>2 DEF Frames
    <3>2. QED
      BY <1>3, <1>5, <1>10, <1>11, <2>2, <3>1
  <2>3. QED
    BY <2>1, <2>2
<1>13. ASSUME NEW i \in (Freed)', i # was.at
       PROVE  (\E j \in (Freed)' : Parent(j, i)) \/ (\E k \in Frames' : Parent(stack[k].at, i))
  <2>1. CASE i \in Freed
    <3>1. CASE \E j \in Freed : Parent(j, i)
      BY <1>5, <3>1
    <3>2. ASSUME NEW k \in Frames, Parent(stack[k].at, i)
          PROVE  (\E j \in (Freed)' : Parent(j, i)) \/ k \in Frames'
      <4>1. k = L \/ k < L
        BY <1>2 DEF Frames
      <4>2. QED
        BY <1>2, <1>5, <1>9, <3>2, <4>1
    <3>3. QED
      BY <1>4, <2>1, <3>1, <3>2 DEF Followed
  <2>2. CASE i = e
    <3>1. L > 1 /\ L - 1 \in Frames'
      BY <1>2, <1>10, <1>13, <2>2 DEF Frames
    <3>2. Parent(stack[L - 1].at, i)
      BY <1>2, <1>4, <2>2, <3>1 DEF Calls
    <3>3. QED
      BY <3>1, <3>2
  <2>3. QED
    BY <1>5, <2>1, <2>2
<1>14. ASSUME L > 1 PROVE Freeing'
  <2>1. 1 \in Frames'
    BY <1>2, <1>14 DEF Frames
  <2>2. Kept'
    BY <1>1, <1>3, <1>6, <1>10, <2>1 DEF Kept
  <2>3. Calls'
    <3>1. \A k \in Frames' : k > 1 => k - 1 \in Frames'
      BY <1>2 DEF Frames
    <3>2. QED
      BY <1>1, <1>3, <1>4, <3>1 DEF Calls, Parent
  <2>4. was.at \notin (Freed)'
    BY <1>12, <1>14
  <2>5. Followed'
    BY <1>1, <1>3, <1>13, <2>4 DEF Followed, Parent
  <2>6. QED
    BY <1>8, <2>2, <2>3, <2>5 DEF Freeing
<1>15. ASSUME NEW i \in (Freed)', i # was.at, ~(L > 1)
       PROVE  \E j \in (Freed)' : Parent(j, i)
  <2>1. Frames' = {}
    BY <1>2, <1>15 DEF Frames
  <2>2. QED
    BY <1>13, <1>15, <2>1
<1>16. QED
  BY <1>1, <1>5, <1>6, <1>7, <1>8, <1>12, <1>14, <1>15

LEMMA FreeingStep == IInv /\ Freeing /\ [Next]_vars => Freeing'
<1> SUFFICES ASSUME IInv, Freeing, [Next]_vars PROVE Freeing'
  OBVIOUS
<1>1. CASE AllocRoot \/ AllocChild
  <2>1. stack = <<>> /\ stack' = stack
    BY <1>1 DEF AllocRoot, AllocChild, AllocAddress
  <2>2. QED
    BY <2>1 DEF Freeing
<1>2. ASSUME NEW i \in InUse, FreeAddress(thePool[i])
      PROVE  Freeing'
  BY <1>2, FreeingBegins
<1>3. CASE FreeChild
  BY <1>3, FreeingDescends
<1>4. CASE FreeEntry
  <2>1. CASE Len(stack) > 1
    BY <1>4, <2>1, FreeingReturns
  <2>2. CASE ~(Len(stack) > 1)
    <3>1. stack' \in Seq(Call) /\ Len(stack') = 0
      BY <1>4, <2>2, CallEnds
    <3>2. stack' = <<>>
      BY <3>1, EmptySeq
    <3>3. QED
      BY <3>2 DEF Freeing
  <2>3. QED
    BY <2>1, <2>2
<1>5. CASE UNCHANGED vars
  BY <1>5 DEF vars, Freeing, Kept, Calls, Followed, Emptied, Frames, Parent, Freed, Used
<1>6. QED
  BY <1>1, <1>2, <1>3, <1>4, <1>5 DEF Next

(***************************************************************************)
(* FreeAddressByIndex (address.h) frees the entry it was called for, what  *)
(* hangs below it and nothing else, however deep the tree of hubs is and   *)
(* wherever its entries lie in the table.                                  *)
(***************************************************************************)
THEOREM SubtreeIsFreed == Spec => FreesTheSubtree
<1> DEFINE Done == /\ (Freed)' # {} /\ was.at \in (Freed)'
                   /\ \A i \in Entry :
                        /\ i \notin (Freed)' => thePool'[i] = was.pool[i]
                        /\ was.pool[i] # None /\ i # was.at => (i \in (Freed)' <=> (Below(i))')
<1>1. Init => Freeing
  BY DEF Init, Freeing
<1>2. ASSUME IInv, Freeing, [Next]_vars, stack # <<>>, stack' = <<>>
      PROVE  Done
  <2>1. FreeEntry
    <3>1. ~FreeChild
      <4>1. ASSUME FreeChild PROVE FALSE
        <5>1. Len(stack') = Len(stack) + 1 /\ Len(stack) \in Nat
          BY <1>2, <4>1, CallBegins
        <5>2. Len(stack') = 0
          BY <1>2
        <5>3. QED
          BY <5>1, <5>2
      <4>2. QED
        BY <4>1
    <3>2. QED
      BY <1>2, <3>1 DEF Next, AllocRoot, AllocChild, AllocAddress, FreeAddress, vars
  <2>2. Len(stack) = 1
    <3>1. Len(stack') = Len(stack) - 1 /\ Len(stack) \in Nat
      BY <1>2, <2>1, CallEnds
    <3>2. Len(stack') = 0
      BY <1>2
    <3>3. QED
      BY <3>1, <3>2
  <2>3. /\ was' = was /\ Emptied'
        /\ \A i \in Entry : Used(i)' => thePool'[i] = was.pool[i]
        /\ \A i \in Entry : was.pool[i] # None /\ i \notin (Freed)' => Used(i)'
        /\ was.at \in (Freed)'
        /\ \A i \in (Freed)' : i # was.at => \E j \in (Freed)' : Parent(j, i)
    BY <1>2, <2>1, <2>2, FreeingReturns
  <2>4. ASSUME NEW i \in Entry, i \notin (Freed)'
        PROVE  thePool'[i] = was.pool[i]
    <3>1. CASE was.pool[i] = None
      BY <2>3, <3>1 DEF Used
    <3>2. CASE was.pool[i] # None
      BY <2>3, <2>4, <3>2
    <3>3. QED
      BY <3>1, <3>2
  <2>5. \A i \in Entry : (Below(i))' <=> \E j \in (Freed)' : Parent(j, i)
    BY <2>3 DEF Below, Parent
  <2>6. ASSUME NEW i \in Entry, was.pool[i] # None, i # was.at
        PROVE  i \in (Freed)' <=> (Below(i))'
    <3>1. i \in (Freed)' => (Below(i))'
      BY <2>3, <2>5, <2>6
    <3>2. ASSUME NEW j \in (Freed)', Parent(j, i)
          PROVE  i \in (Freed)'
      BY <2>3, <2>6, <3>2 DEF Emptied, Parent
    <3>3. QED
      BY <2>5, <3>1, <3>2
  <2>7. QED
    BY <2>3, <2>4, <2>6
<1>3. IInv /\ Freeing /\ [Next]_vars => [stack # <<>> /\ stack' = <<>> => Done]_vars
  BY <1>2
<1>4. IInv /\ Freeing /\ [Next]_vars => Freeing'
  BY FreeingStep
<1>5. QED
  BY <1>1, <1>3, <1>4, InvHolds, PTL DEF Spec, FreesTheSubtree

-----------------------------------------------------------------------------
(***************************************************************************)
(* The search for endpoints.  Position: which bytes of a descriptor are in *)
(* the parser's buffer, and how many it waits for.  Known: what the parser *)
(* holds of the Parsed descriptors.  Pending: the search has not gone past *)
(* the interface that it must come to, and how far it is there.            *)
(***************************************************************************)
Prefix(d, m) == [x \in 1 .. m |-> <<d, x>>]
Current  == Config[place[1]]
Parsed   == IF varBuffer = <<>> /\ place[2] # 0 THEN place[1] ELSE place[1] - 1
Clearing == stateParseDescr = "body" /\ Current.type = "interface"

(* The last interface of those that are parsed.                            *)
Recent(j) == /\ j \in Interfaces(Config) /\ j <= Parsed
             /\ \A x \in Interfaces(Config) : x <= j \/ x > Parsed

SearchTypes ==
  /\ SearchTypeOK
  /\ pc # "idle" => device \in Devices
  /\ pc = "conf" => conf \in 1 .. Len(device) + 1
  /\ pc = "parse" => conf \in 1 .. Len(device)
  /\ pc \in {"conf", "parse"} => bNumEP = 1
  /\ epInfo = [x \in Direction |-> epInfo[x]]

Position ==
  /\ place[1] \in 1 .. Len(Config) /\ place[2] \in 0 .. Current.len
  /\ piece => ~AtEnd(place)
  /\ \/ /\ stateParseDescr = "header" /\ varBuffer = <<>> /\ countDown = 2
        /\ place = <<1, 0>> \/ place[2] = Current.len
     \/ /\ stateParseDescr = "header" /\ place[2] \in {1, 2}
        /\ varBuffer = Prefix(place[1], place[2]) /\ countDown = 2 - place[2]
     \/ /\ stateParseDescr = "body" /\ place[2] >= 2 /\ countDown = Current.len - place[2]
        /\ varBuffer = Prefix(place[1], IF Current.type = "other" THEN 2 ELSE place[2])

Known ==
  /\ Parsed >= 1 => confValue = Config[1].info
  /\ Clearing => ~isGoodInterface
  /\ (\E j \in Interfaces(Config) : j <= Parsed) => \E j \in Interfaces(Config) : Recent(j)
  /\ \A j \in Interfaces(Config) : Recent(j) =>
       (isGoodInterface <=> ~Clearing /\ (isMidiSearch => Config[j].info))

(* What the search has of the endpoints of interface j.                    *)
Got(j) == {b \in Bulk(Config, j) : b <= Parsed}

BeforeJ(j) ==
  /\ nEPs <= 1
  /\ \A x \in Interfaces(Config) :
       Recent(x) /\ Config[x].info => (nEPs = 0 <=> Got(x) = {})
FromJ(j) ==
  /\ nEPs = 0 <=> Got(j) = {}
  /\ nEPs = 2 <=> Got(j) = Bulk(Config, j)
  /\ \A b \in Got(j) : epInfo[Config[b].info.dir].addr = Config[b].info.addr

Pending ==
  \A n \in DOMAIN device : \A j \in DOMAIN device[n] : Awaited(n, j) =>
    /\ isMidiSearch /\ conf <= n
    /\ pc = "parse" /\ conf < n => nEPs = 0
    /\ pc = "parse" /\ conf = n /\ Parsed < j => BeforeJ(j)
    /\ pc = "parse" /\ conf = n /\ Parsed >= j => FromJ(j)

SearchInv ==
  /\ SearchTypes
  /\ pc = "parse" => Position /\ Known
  /\ pc \in {"conf", "parse"} => Pending
  /\ MidiPairTaken

-----------------------------------------------------------------------------
(* The parser's buffer holds the bytes of a descriptor in their order.     *)
LEMMA PrefixGrows ==
  ASSUME NEW d, NEW m \in Nat
  PROVE  /\ Len(Prefix(d, m)) = m /\ (Prefix(d, m) = <<>> <=> m = 0)
         /\ \A x \in 1 .. m : Prefix(d, m)[x] = <<d, x>>
         /\ Append(Prefix(d, m), <<d, m + 1>>) = Prefix(d, m + 1)
<1> DEFINE S == {d} \X Nat
           r == Append(Prefix(d, m), <<d, m + 1>>)
<1>1. \A n \in Nat : /\ Prefix(d, n) \in Seq(S) /\ Len(Prefix(d, n)) = n
                     /\ \A x \in 1 .. n : Prefix(d, n)[x] = <<d, x>>
  <2> TAKE n \in Nat
  <2>1. \A x \in 1 .. n : <<d, x>> \in S
    OBVIOUS
  <2>2. Prefix(d, n) \in [1 .. n -> S]
    BY <2>1 DEF Prefix
  <2>3. Prefix(d, n) \in Seq(S)
    BY <2>2, SeqDef
  <2>4. Len(Prefix(d, n)) = n
    BY <2>2, <2>3, LenProperties
  <2> QED BY <2>3, <2>4 DEF Prefix
<1>2. <<d, m + 1>> \in S
  OBVIOUS
<1> HIDE DEF S
<1>3. Prefix(d, m) = <<>> <=> m = 0
  BY <1>1, EmptySeq
<1>4. /\ r \in Seq(S) /\ Len(r) = m + 1 /\ r[m + 1] = <<d, m + 1>>
      /\ \A x \in 1 .. m : r[x] = <<d, x>>
  <2>1. /\ r \in Seq(S) /\ Len(r) = Len(Prefix(d, m)) + 1
        /\ \A x \in 1 .. Len(Prefix(d, m)) : r[x] = Prefix(d, m)[x]
        /\ r[Len(Prefix(d, m)) + 1] = <<d, m + 1>>
    BY <1>1, <1>2, AppendProperties
  <2> HIDE DEF r
  <2> QED BY <1>1, <2>1
<1>5. /\ Prefix(d, m + 1) \in Seq(S) /\ Len(Prefix(d, m + 1)) = m + 1
      /\ \A x \in 1 .. m + 1 : Prefix(d, m + 1)[x] = <<d, x>>
  <2>1. m + 1 \in Nat
    OBVIOUS
  <2> QED BY <1>1, <2>1, Zenon
<1>6. \A x \in 1 .. m + 1 : r[x] = Prefix(d, m + 1)[x]
  <2>1. \A x \in 1 .. m + 1 : x \in 1 .. m \/ x = m + 1
    OBVIOUS
  <2> QED BY <1>4, <1>5, <2>1, Zenon
<1> HIDE DEF r
<1>7. r = Prefix(d, m + 1)
  BY <1>4, <1>5, <1>6, SeqEqual
<1> QED BY <1>1, <1>3, <1>7 DEF r

(* The configuration that is being parsed is a proper one.                 *)
LEMMA ConfigIsProper ==
  ASSUME SearchTypes, pc = "parse"
  PROVE  /\ device \in Devices /\ Len(device) \in Nat /\ DOMAIN device = 1 .. Len(device)
         /\ conf \in DOMAIN device /\ WellFormed(Config)
<1>1. device \in Devices /\ conf \in 1 .. Len(device)
  BY DEF SearchTypes
<1>2. /\ Len(device) \in Nat /\ DOMAIN device = 1 .. Len(device)
      /\ \A n \in DOMAIN device : WellFormed(device[n])
  BY <1>1, DevicesAssumption, Zenon DEF DevicesAssumption
<1> QED BY <1>1, <1>2, Zenon DEF Config

(* No descriptor is too short for its length and type, or too long for its *)
(* length to be a byte.                                                    *)
LEMMA Lengths ==
  ASSUME NEW x, Descriptor(x)
  PROVE  /\ x.len \in 2 .. 255 /\ VarBuffer \in 3 .. 255
         /\ x.type # "other" => x.len \in 3 .. VarBuffer
<1>1. VarBuffer \in 3 .. 255
  BY BufferAssumption DEF BufferAssumption
<1>2. /\ x.type # "other" => x.len \in 3 .. VarBuffer
      /\ x.type = "other" => x.len \in 2 .. 255
  BY DEF Descriptor
<1>3. x.len \in 2 .. 255
  BY <1>1, <1>2
<1> QED BY <1>1, <1>2, <1>3, Zenon

(* Its descriptor at the place of the parser.                              *)
LEMMA CurrentDescriptor ==
  ASSUME SearchTypes, pc = "parse", Position
  PROVE  /\ Len(Config) \in Nat \ {0} /\ DOMAIN Config = 1 .. Len(Config)
         /\ place[1] \in 1 .. Len(Config) /\ place[2] \in 0 .. Current.len
         /\ Descriptor(Current) /\ Current.len \in 2 .. 255 /\ VarBuffer \in 3 .. 255
         /\ Current.type # "other" => Current.len \in 3 .. VarBuffer
<1>1. WellFormed(Config)
  BY ConfigIsProper
<1>2. /\ Len(Config) \in Nat \ {0} /\ DOMAIN Config = 1 .. Len(Config)
      /\ \A d \in DOMAIN Config : Descriptor(Config[d])
  BY <1>1 DEF WellFormed
<1>3. place[1] \in 1 .. Len(Config) /\ place[2] \in 0 .. Current.len
  BY DEF Position
<1>4. Descriptor(Current)
  BY <1>2, <1>3 DEF Current
<1> QED BY <1>2, <1>3, <1>4, Lengths, Zenon

(***************************************************************************)
(* When a value is complete, the buffer says what the descriptor is, and   *)
(* at its end what its fields are.                                         *)
(***************************************************************************)
LEMMA Understood ==
  ASSUME SearchTypes, pc = "parse", Position, countDown = 0
  PROVE  /\ DscrType = Current.type
         /\ stateParseDescr = "header" =>
              /\ DscrLen = Current.len /\ place[2] = 2
              /\ varBuffer = Prefix(place[1], 2)
         /\ stateParseDescr = "body" =>
              /\ place[2] = Current.len /\ varBuffer # <<>>
              /\ Current.type # "other" => Info = Current.info
<1>1. /\ place[1] \in 1 .. Len(Config) /\ place[2] \in 0 .. Current.len
      /\ Current.len \in 2 .. 255 /\ (Current.type # "other" => Current.len >= 3)
  BY CurrentDescriptor
<1>2. \A m \in Nat : m >= 2 => /\ Prefix(place[1], m)[1] = <<place[1], 1>>
                               /\ Prefix(place[1], m)[2] = <<place[1], 2>>
                               /\ m >= 3 => Prefix(place[1], m)[3] = <<place[1], 3>>
                               /\ Prefix(place[1], m) # <<>>
  <2> TAKE m \in Nat
  <2>1. /\ Prefix(place[1], m) = <<>> <=> m = 0
        /\ \A x \in 1 .. m : Prefix(place[1], m)[x] = <<place[1], x>>
    BY PrefixGrows, Zenon
  <2>2. m >= 2 => 1 \in 1 .. m /\ 2 \in 1 .. m /\ m # 0 /\ (m >= 3 => 3 \in 1 .. m)
    OBVIOUS
  <2> QED BY <2>1, <2>2, Zenon
<1>3. CASE stateParseDescr = "header"
  <2>1. place[2] = 2 /\ varBuffer = Prefix(place[1], 2)
    BY <1>3 DEF Position
  <2>2. varBuffer[1] = <<place[1], 1>> /\ varBuffer[2] = <<place[1], 2>>
    BY <1>2, <2>1
  <2>3. DscrLen = Current.len /\ DscrType = Current.type
    BY <2>2 DEF DscrLen, DscrType, Says, Current
  <2> QED BY <1>3, <2>1, <2>3
<1>4. CASE stateParseDescr = "body"
  <2>1. /\ place[2] = Current.len
        /\ varBuffer = Prefix(place[1], IF Current.type = "other" THEN 2 ELSE place[2])
    <3>1. \A l \in 2 .. 255 : \A k \in 0 .. l : 0 = l - k => k = l
      OBVIOUS
    <3>2. countDown = Current.len - place[2] => place[2] = Current.len
      BY <1>1, <3>1, Zenon
    <3> QED BY <1>4, <3>2, Zenon DEF Position
  <2>2. varBuffer[2] = <<place[1], 2>> /\ varBuffer # <<>>
    BY <1>1, <1>2, <2>1
  <2>3. DscrType = Current.type
    BY <2>2 DEF DscrType, Says, Current
  <2>4. Current.type # "other" => varBuffer[3] = <<place[1], 3>>
    BY <1>1, <1>2, <2>1
  <2>5. Current.type # "other" => Info = Current.info
    BY <2>4 DEF Info, Says, Current
  <2> QED BY <1>4, <2>1, <2>2, <2>3, <2>5
<1>5. stateParseDescr \in {"header", "body"}
  BY DEF SearchTypes, SearchTypeOK
<1> QED BY <1>3, <1>4, <1>5

(* The next byte is there: the piece has more.                             *)
LEMMA NextPlace ==
  ASSUME SearchTypes, pc = "parse", Position, piece
  PROVE  /\ place[2] < Current.len => NextByte = <<place[1], place[2] + 1>>
         /\ place[2] = Current.len => NextByte = <<place[1] + 1, 1>>
         /\ NextByte[1] \in 1 .. Len(Config) /\ NextByte[2] \in 1 .. Config[NextByte[1]].len
<1>1. /\ place[1] \in 1 .. Len(Config) /\ place[2] \in 0 .. Current.len
      /\ Current.len \in 2 .. 255 /\ Len(Config) \in Nat /\ DOMAIN Config = 1 .. Len(Config)
  BY CurrentDescriptor
<1>2. place[1] # Len(Config) \/ place[2] # Current.len
  BY DEF Position, AtEnd, Current
<1>3. CASE place[2] < Current.len
  <2>1. NextByte = <<place[1], place[2] + 1>>
    BY <1>3 DEF NextByte, Current
  <2>2. \A l \in 2 .. 255 : \A k \in 0 .. l : k < l => k + 1 \in 1 .. l /\ k # l
    OBVIOUS
  <2>3. place[2] + 1 \in 1 .. Current.len /\ place[2] # Current.len
    BY <1>1, <1>3, <2>2, Zenon
  <2> QED BY <1>1, <1>3, <2>1, <2>3 DEF Current
<1>4. CASE place[2] = Current.len
  <2>1. NextByte = <<place[1] + 1, 1>> /\ ~(place[2] < Current.len)
    <3>1. \A l \in 2 .. 255 : ~(l < l)
      OBVIOUS
    <3>2. ~(place[2] < Current.len)
      BY <1>1, <1>4, <3>1, Zenon
    <3> QED BY <3>2 DEF NextByte, Current
  <2>2. place[1] + 1 \in 1 .. Len(Config)
    BY <1>1, <1>2, <1>4
  <2>3. Config[place[1] + 1].len \in 2 .. 255
    <3>1. WellFormed(Config)
      BY ConfigIsProper
    <3>2. Descriptor(Config[place[1] + 1])
      BY <1>1, <2>2, <3>1 DEF WellFormed
    <3> QED BY <3>2, Lengths, Zenon
  <2>4. 1 \in 1 .. Config[place[1] + 1].len
    BY <2>3
  <2> QED BY <1>4, <2>1, <2>2, <2>4
<1>5. \A l \in 2 .. 255 : \A k \in 0 .. l : k < l \/ k = l
  OBVIOUS
<1> QED BY <1>1, <1>3, <1>4, <1>5, Zenon

(* One byte taken: the place and the rest of the piece.                    *)
LEMMA Counted ==
  ASSUME SearchTypes, pc = "parse", Position, Count, UNCHANGED <<device, conf>>
  PROVE  /\ place' = NextByte /\ Config' = Config /\ Current' = Config[NextByte[1]]
         /\ place'[1] \in 1 .. Len(Config) /\ place'[2] \in 1 .. Current'.len
         /\ piece' \in BOOLEAN /\ (piece' => ~AtEnd(place)')
         /\ piece /\ countDown > 0 /\ countDown' = countDown - 1
<1>1. piece /\ countDown > 0 /\ countDown' = countDown - 1 /\ place' = NextByte
  BY DEF Count
<1>2. Config' = Config
  BY DEF Config
<1>3. Current' = Config[NextByte[1]]
  BY <1>1, <1>2 DEF Current
<1>4. place'[1] \in 1 .. Len(Config) /\ place'[2] \in 1 .. Current'.len
  BY <1>1, <1>3, NextPlace
<1>5. piece' \in BOOLEAN /\ (piece' => ~AtEnd(NextByte))
  <2>1. piece' \in IF AtEnd(NextByte) THEN {FALSE} ELSE BOOLEAN
    BY DEF Count
  <2> QED BY <2>1, Zenon
<1>6. AtEnd(NextByte) <=> AtEnd(place)'
  BY <1>1, <1>2 DEF AtEnd
<1> QED BY <1>1, <1>2, <1>3, <1>4, <1>5, <1>6, Zenon

(***************************************************************************)
(* A step of the parser that completes no descriptor changes neither what  *)
(* is known of the configuration nor how far the search is.                *)
(***************************************************************************)
LEMMA Unparsed ==
  ASSUME SearchTypes, pc = "parse", Known, Pending, pc' = "parse", Parsed' = Parsed,
         UNCHANGED <<device, conf, isMidiSearch, epInfo, nEPs, confValue>>,
         \A x \in BOOLEAN : (isGoodInterface <=> ~Clearing /\ x)
                              => (isGoodInterface' <=> ~Clearing' /\ x)
  PROVE  Known' /\ Pending'
<1>1. Config' = Config
  BY DEF Config
<1>2. \A j : Recent(j)' <=> Recent(j)
  BY <1>1 DEF Recent, Interfaces
<1>3. \A j : Got(j)' = Got(j) /\ Bulk(Config, j)' = Bulk(Config, j)
  BY <1>1 DEF Got, Bulk, Interfaces
<1>4. Known'
  <2>1. /\ (Parsed >= 1 => confValue = Config[1].info)'
        /\ ((\E j \in Interfaces(Config) : j <= Parsed)
              => \E j \in Interfaces(Config) : Recent(j))'
    BY <1>1, <1>2 DEF Known, Interfaces
  <2>2. ASSUME NEW j \in Interfaces(Config), Recent(j)
        PROVE  isGoodInterface' <=> ~Clearing' /\ (isMidiSearch' => Config[j].info)
    <3>1. isGoodInterface <=> ~Clearing /\ (isMidiSearch => Config[j].info)
      BY <2>2 DEF Known
    <3>2. (isMidiSearch => Config[j].info) \in BOOLEAN
      OBVIOUS
    <3>3. isGoodInterface' <=> ~Clearing' /\ (isMidiSearch => Config[j].info)
      BY <3>1, <3>2, Zenon
    <3> QED BY <3>3
  <2>3. Interfaces(Config)' = Interfaces(Config)
    BY <1>1 DEF Interfaces
  <2>4. Clearing' => ~isGoodInterface'
    <3>1. isGoodInterface \in BOOLEAN /\ (Clearing => ~isGoodInterface)
      BY DEF SearchTypes, SearchTypeOK, Known
    <3> QED BY <3>1, Zenon
  <2> QED BY <1>1, <1>2, <2>1, <2>2, <2>3, <2>4, Zenon DEF Known
<1>5. Pending'
  <2>1. \A j : BeforeJ(j)' <=> BeforeJ(j)
    BY <1>1, <1>2, <1>3 DEF BeforeJ, Interfaces
  <2>2. \A j : FromJ(j)' <=> FromJ(j)
    BY <1>1, <1>3 DEF FromJ
  <2>3. \A n, j : Awaited(n, j)' <=> Awaited(n, j)
    BY DEF Awaited, Pairs, Midi, Twins, Bulk, Interfaces
  <2> QED BY <2>1, <2>2, <2>3 DEF Pending
<1> QED BY <1>4, <1>5

(* The parser is between two bytes or descriptors: its invariant.          *)
Parsing == SearchTypes /\ pc = "parse" /\ Position /\ Known /\ Pending

LEMMA DeliverStep ==
  ASSUME Parsing, Deliver
  PROVE  Parsing'
<1>1. /\ ~AtEnd(place) /\ piece' = TRUE
      /\ UNCHANGED <<device, pc, isMidiSearch, conf, bNumEP, bConfNum, epInfo, place, stateParseDescr,
                     varBuffer, countDown, isGoodInterface, nEPs, confValue>>
  BY DEF Deliver, search, parser
<1>2. SearchTypes'
  BY <1>1 DEF Parsing, SearchTypes, SearchTypeOK
<1>3. Config' = Config /\ Current' = Current
  BY <1>1 DEF Config, Current
<1>4. Position'
  BY <1>1, <1>3 DEF Parsing, Position, AtEnd, Prefix
<1>5. Parsed' = Parsed /\ Clearing' = Clearing
  BY <1>1, <1>3 DEF Parsed, Clearing
<1>6. Known' /\ Pending'
  BY <1>1, <1>5, Unparsed DEF Parsing
<1> QED BY <1>1, <1>2, <1>4, <1>6 DEF Parsing

(* A byte of the length and the type.                                      *)
LEMMA HeaderStep ==
  ASSUME Parsing, Header
  PROVE  Parsing'
<1>1. /\ stateParseDescr = "header" /\ Count /\ varBuffer' = Append(varBuffer, NextByte)
      /\ UNCHANGED <<device, pc, isMidiSearch, conf, bNumEP, bConfNum, epInfo, stateParseDescr,
                     isGoodInterface, nEPs, confValue>>
  BY DEF Header, search
<1>2. /\ place' = NextByte /\ Config' = Config
      /\ place'[1] \in 1 .. Len(Config) /\ place'[2] \in 1 .. Current'.len
      /\ piece' \in BOOLEAN /\ (piece' => ~AtEnd(place)')
      /\ piece /\ countDown > 0 /\ countDown' = countDown - 1
  BY <1>1, Counted DEF Parsing
<1>3. /\ place[1] \in 1 .. Len(Config) /\ Len(Config) \in Nat
      /\ Current.len \in 2 .. 255 /\ VarBuffer \in 3 .. 255
  BY CurrentDescriptor, Lengths DEF Parsing
<1>4. /\ place'[2] \in {1, 2} /\ countDown' = 2 - place'[2]
      /\ varBuffer' = Prefix(place'[1], place'[2]) /\ Parsed' = Parsed
  <2>1. CASE varBuffer = <<>> /\ countDown = 2 /\ (place = <<1, 0>> \/ place[2] = Current.len)
    <3>1. \E d \in Nat : NextByte = <<d, 1>> /\ Parsed = d - 1
      <4>1. CASE place = <<1, 0>>
        <5>1. \A l \in 2 .. 255 : 0 < l
          OBVIOUS
        <5>2. place[1] = 1 /\ place[2] = 0 /\ 0 < Current.len
          BY <1>3, <4>1, <5>1
        <5>3. NextByte = <<1, 0 + 1>>
          BY <1>2, <5>2, NextPlace DEF Parsing
        <5> QED BY <5>2, <5>3 DEF Parsed
      <4>2. CASE place[2] = Current.len
        <5>1. NextByte = <<place[1] + 1, 1>>
          BY <1>2, <4>2, NextPlace DEF Parsing
        <5>2. place[2] # 0
          <6>1. \A l \in 2 .. 255 : l # 0
            OBVIOUS
          <6> QED BY <1>3, <4>2, <6>1, Zenon
        <5>3. Parsed = place[1]
          BY <2>1, <5>2, Zenon DEF Parsed
        <5> QED BY <1>3, <5>1, <5>3
      <4> QED BY <2>1, <4>1, <4>2
    <3>2. PICK d \in Nat : NextByte = <<d, 1>> /\ Parsed = d - 1
      BY <3>1
    <3>3. /\ Append(Prefix(d, 0), <<d, 0 + 1>>) = Prefix(d, 0 + 1) /\ Prefix(d, 0) = <<>>
          /\ Prefix(d, 1) # <<>>
      BY PrefixGrows
    <3>4. varBuffer' = Prefix(d, 1)
      BY <1>1, <2>1, <3>2, <3>3
    <3>5. place'[1] = d /\ place'[2] = 1
      BY <1>2, <3>2
    <3>6. Parsed' = d - 1
      BY <3>3, <3>4, <3>5 DEF Parsed
    <3>7. countDown' = 1
      BY <1>2, <2>1
    <3> QED BY <3>2, <3>4, <3>5, <3>6, <3>7
  <2>2. CASE /\ place[2] \in {1, 2} /\ varBuffer = Prefix(place[1], place[2])
             /\ countDown = 2 - place[2]
    <3>1. place[2] = 1 /\ countDown = 1
      BY <1>2, <2>2
    <3>2. NextByte = <<place[1], 2>>
      <4>1. \A l \in 2 .. 255 : 1 < l
        OBVIOUS
      <4>2. place[2] < Current.len
        BY <1>3, <3>1, <4>1, Zenon
      <4>3. NextByte = <<place[1], place[2] + 1>>
        BY <1>2, <4>2, NextPlace, Zenon DEF Parsing
      <4> QED BY <3>1, <4>3
    <3>3. /\ Append(Prefix(place[1], 1), <<place[1], 1 + 1>>) = Prefix(place[1], 1 + 1)
          /\ Prefix(place[1], 1) # <<>> /\ Prefix(place[1], 2) # <<>>
      BY PrefixGrows
    <3>4. varBuffer' = Prefix(place[1], 2) /\ place'[1] = place[1] /\ place'[2] = 2
      BY <1>1, <1>2, <2>2, <3>1, <3>2, <3>3
    <3>5. Parsed' = Parsed
      BY <2>2, <3>1, <3>3, <3>4 DEF Parsed
    <3> QED BY <1>2, <3>1, <3>4, <3>5
  <2> QED BY <1>1, <2>1, <2>2, Zenon DEF Parsing, Position
<1>5. Position'
  <2>1. place'[2] \in 0 .. Current'.len
    BY <1>2, <1>4
  <2> QED BY <1>1, <1>2, <1>4, <2>1 DEF Position
<1>6. SearchTypes'
  <2>1. Len(varBuffer') <= VarBuffer
    <3>1. place'[2] \in Nat
      BY <1>4
    <3>2. Len(varBuffer') = place'[2]
      BY <1>4, <3>1, PrefixGrows
    <3> QED BY <1>3, <1>4, <3>2
  <2> QED BY <1>1, <1>2, <2>1 DEF Parsing, SearchTypes, SearchTypeOK
<1>7. ~Clearing /\ ~Clearing'
  BY <1>1 DEF Clearing
<1>8. Known' /\ Pending'
  BY <1>1, <1>4, <1>7, Unparsed DEF Parsing
<1> QED BY <1>1, <1>5, <1>6, <1>8 DEF Parsing

(* Length and type are known; what is left of the descriptor is counted.   *)
LEMMA HeaderDoneStep ==
  ASSUME Parsing, HeaderDone
  PROVE  Parsing'
<1>1. /\ stateParseDescr = "header" /\ countDown = 0 /\ stateParseDescr' = "body"
      /\ countDown' = BodyLen /\ isGoodInterface' = StillGood
      /\ UNCHANGED <<device, pc, isMidiSearch, conf, bNumEP, bConfNum, epInfo, place, piece,
                     varBuffer, nEPs, confValue>>
  BY DEF HeaderDone, search, stream
<1>2. /\ DscrType = Current.type /\ DscrLen = Current.len /\ place[2] = 2
      /\ varBuffer = Prefix(place[1], 2)
  BY <1>1, Understood DEF Parsing
<1>3. Config' = Config /\ Current' = Current
  BY <1>1 DEF Config, Current
<1>4. Current.len \in 2 .. 255 /\ place[1] \in 1 .. Len(Config)
  BY CurrentDescriptor DEF Parsing
<1>5. BodyLen = Current.len - 2
  <2> DEFINE l == Current.len
  <2>1. BodyLen = (l - 2) % (IF Current.type = "other" THEN 65536 ELSE 256)
    BY <1>2 DEF BodyLen
  <2>2. l \in 2 .. 255
    BY <1>4
  <2> HIDE DEF l
  <2>3. BodyLen = l - 2
    BY <2>1, <2>2
  <2> QED BY <2>3 DEF l
<1>6. Position'
  <2>1. place[2] \in 0 .. Current.len /\ place[2] >= 2
    <3>1. \A l \in 2 .. 255 : 2 \in 0 .. l /\ 2 >= 2
      OBVIOUS
    <3> QED BY <1>2, <1>4, <3>1, Zenon
  <2>2. varBuffer = Prefix(place[1], IF Current.type = "other" THEN 2 ELSE place[2])
    BY <1>2
  <2>3. piece' => ~AtEnd(place)'
    BY <1>1, <1>3 DEF AtEnd, Parsing, Position
  <2> QED BY <1>1, <1>2, <1>3, <1>4, <1>5, <2>1, <2>2, <2>3 DEF Position, Prefix
<1>7. SearchTypes'
  <2>1. isGoodInterface' \in BOOLEAN
    BY <1>1 DEF StillGood
  <2> QED BY <1>1, <2>1 DEF Parsing, SearchTypes, SearchTypeOK
<1>8. Parsed' = Parsed
  BY <1>1 DEF Parsed
<1>9. \A x \in BOOLEAN : (isGoodInterface <=> ~Clearing /\ x)
                           => (isGoodInterface' <=> ~Clearing' /\ x)
  <2>1. ~Clearing /\ (Clearing' <=> Current.type = "interface")
    BY <1>1, <1>3 DEF Clearing
  <2>2. isGoodInterface' <=> isGoodInterface /\ Current.type # "interface"
    BY <1>1, <1>2 DEF StillGood
  <2> QED BY <2>1, <2>2, Zenon
<1>10. Known' /\ Pending'
  BY <1>1, <1>8, <1>9, Unparsed DEF Parsing
<1> QED BY <1>1, <1>6, <1>7, <1>10 DEF Parsing

(* A byte of the fields, or of what is skipped.                            *)
LEMMA BodyStep ==
  ASSUME Parsing, Body
  PROVE  Parsing'
<1>1. /\ stateParseDescr = "body" /\ Count
      /\ varBuffer' = IF DscrType = "other" THEN varBuffer ELSE Append(varBuffer, NextByte)
      /\ UNCHANGED <<device, pc, isMidiSearch, conf, bNumEP, bConfNum, epInfo, stateParseDescr,
                     isGoodInterface, nEPs, confValue>>
  BY DEF Body, search
<1>2. /\ place' = NextByte /\ Config' = Config
      /\ place'[1] \in 1 .. Len(Config) /\ place'[2] \in 1 .. Current'.len
      /\ piece' \in BOOLEAN /\ (piece' => ~AtEnd(place)')
      /\ piece /\ countDown > 0 /\ countDown' = countDown - 1
  BY <1>1, Counted DEF Parsing
<1>3. /\ place[1] \in 1 .. Len(Config) /\ place[2] \in 0 .. Current.len /\ place[2] >= 2
      /\ Current.len \in 2 .. 255 /\ VarBuffer \in 3 .. 255
      /\ countDown = Current.len - place[2]
      /\ varBuffer = Prefix(place[1], IF Current.type = "other" THEN 2 ELSE place[2])
      /\ Current.type # "other" => Current.len \in 3 .. VarBuffer
  BY <1>1, CurrentDescriptor, Zenon DEF Parsing, Position
<1>4. place[2] \in Nat /\ place[2] < Current.len /\ countDown' = Current.len - (place[2] + 1)
  <2>1. \A l \in 2 .. 255 : \A k \in 0 .. l :
          k \in Nat /\ (l - k > 0 => k < l) /\ l - k - 1 = l - (k + 1)
    OBVIOUS
  <2> QED BY <1>2, <1>3, <2>1, Zenon
<1>5. NextByte = <<place[1], place[2] + 1>>
  BY <1>2, <1>4, NextPlace DEF Parsing
<1>6. place'[1] = place[1] /\ place'[2] = place[2] + 1 /\ Current' = Current
  BY <1>2, <1>5 DEF Current
<1>7. DscrType = Current.type
  <2>1. \A m \in Nat : m >= 2 => 2 \in 1 .. m
    OBVIOUS
  <2>2. \A m \in Nat : m >= 2 => Prefix(place[1], m)[2] = <<place[1], 2>>
    BY <2>1, PrefixGrows, Zenon
  <2>3. varBuffer[2] = <<place[1], 2>>
    BY <1>3, <1>4, <2>2
  <2> QED BY <2>3 DEF DscrType, Says, Current
<1>8. varBuffer' = Prefix(place'[1], IF Current'.type = "other" THEN 2 ELSE place'[2])
  <2>1. CASE Current.type = "other"
    BY <1>1, <1>3, <1>6, <1>7, <2>1
  <2>2. CASE Current.type # "other"
    <3>1. Append(Prefix(place[1], place[2]), <<place[1], place[2] + 1>>)
            = Prefix(place[1], place[2] + 1)
      BY <1>4, PrefixGrows
    <3> QED BY <1>1, <1>3, <1>5, <1>6, <1>7, <2>2, <3>1
  <2> QED BY <2>1, <2>2
<1>9. Position'
  <2>1. place'[2] \in 0 .. Current'.len /\ place'[2] >= 2
    BY <1>2, <1>3, <1>6
  <2>2. countDown' = Current'.len - place'[2]
    BY <1>4, <1>6
  <2> QED BY <1>1, <1>2, <1>8, <2>1, <2>2, Zenon DEF Position
<1>10. SearchTypes'
  <2>1. Len(varBuffer') <= VarBuffer
    <3>1. \A k \in Nat : k + 1 \in Nat
      OBVIOUS
    <3>2. Len(Prefix(place[1], 2)) = 2 /\ Len(Prefix(place[1], place[2] + 1)) = place[2] + 1
      <4>1. 2 \in Nat
        OBVIOUS
      <4> QED BY <1>4, <3>1, <4>1, PrefixGrows, Zenon
    <3>3. \A v \in 3 .. 255 : 2 <= v /\ \A l \in 3 .. v : \A k \in Nat : k < l => k + 1 <= v
      OBVIOUS
    <3> QED BY <1>3, <1>4, <1>6, <1>8, <3>2, <3>3, Zenon
  <2> QED BY <1>1, <1>2, <2>1 DEF Parsing, SearchTypes, SearchTypeOK
<1>11. Parsed' = Parsed /\ Clearing' = Clearing
  <2>1. varBuffer # <<>> /\ varBuffer' # <<>>
    <3>1. \A m \in Nat : m >= 2 => Prefix(place[1], m) # <<>>
      BY PrefixGrows
    <3> QED BY <1>3, <1>4, <1>6, <1>8, <3>1
  <2> QED BY <1>1, <1>6, <2>1 DEF Parsed, Clearing
<1>12. Known' /\ Pending'
  BY <1>1, <1>11, Unparsed DEF Parsing
<1> QED BY <1>1, <1>9, <1>10, <1>12 DEF Parsing

(***************************************************************************)
(* A descriptor is complete: one of the four kinds has its effect.         *)
(***************************************************************************)
Kinds ==
  \/ /\ Current.type = "interface"
     /\ IF isMidiSearch => Current.info THEN isGoodInterface' = TRUE /\ nEPs' = FoundSoFar
                                        ELSE UNCHANGED <<isGoodInterface, nEPs>>
     /\ UNCHANGED <<epInfo, confValue>>
  \/ /\ Current.type = "endpoint"
     /\ IF isGoodInterface /\ nEPs < 2 /\ Current.info.bulk
        THEN /\ epInfo' = [epInfo EXCEPT ![Current.info.dir] =
                             [addr |-> Current.info.addr, size |-> Least(Current.info.size, PacketMax)]]
             /\ nEPs' = nEPs + 1
        ELSE UNCHANGED <<epInfo, nEPs>>
     /\ UNCHANGED <<isGoodInterface, confValue>>
  \/ /\ Current.type \in {"configuration", "other"}
     /\ Current.type = "configuration" => confValue' = Current.info
     /\ Current.type = "other" => UNCHANGED confValue
     /\ UNCHANGED <<epInfo, isGoodInterface, nEPs>>

LEMMA Completed ==
  ASSUME Parsing, BodyDone
  PROVE  /\ Kinds /\ Config' = Config /\ Current' = Current
         /\ place[1] \in 1 .. Len(Config) /\ place[2] = Current.len /\ Current.len \in 2 .. 255
         /\ Parsed = place[1] - 1 /\ Parsed' = place[1]
         /\ stateParseDescr = "body" /\ stateParseDescr' = "header"
         /\ varBuffer' = <<>> /\ countDown' = 2
         /\ UNCHANGED <<device, pc, isMidiSearch, conf, bNumEP, bConfNum, place, piece>>
<1>1. /\ stateParseDescr = "body" /\ countDown = 0 /\ stateParseDescr' = "header"
      /\ varBuffer' = <<>> /\ countDown' = 2
      /\ UNCHANGED <<device, pc, isMidiSearch, conf, bNumEP, bConfNum, place, piece>>
  BY DEF BodyDone, search, stream
<1>2. /\ DscrType = Current.type /\ place[2] = Current.len /\ varBuffer # <<>>
      /\ Current.type # "other" => Info = Current.info
  BY <1>1, Understood DEF Parsing
<1>3. Kinds
  <2>1. Interface \/ Endpoint \/ Configuration \/ Skipped
    BY DEF BodyDone
  <2> QED BY <1>2, <2>1 DEF Kinds, Interface, Endpoint, Configuration, Skipped
<1>4. Config' = Config /\ Current' = Current
  BY <1>1 DEF Config, Current
<1>5. place[1] \in 1 .. Len(Config) /\ Current.len \in 2 .. 255
  BY CurrentDescriptor DEF Parsing
<1>6. Parsed = place[1] - 1
  BY <1>2 DEF Parsed
<1>7. Parsed' = place[1]
  <2>1. \A l \in 2 .. 255 : l # 0
    OBVIOUS
  <2>2. place'[2] # 0
    BY <1>1, <1>2, <1>5, <2>1, Zenon
  <2> QED BY <1>1, <2>2, Zenon DEF Parsed
<1> QED BY <1>1, <1>2, <1>3, <1>4, <1>5, <1>6, <1>7

(* The interface that the next descriptor belongs to.                      *)
LEMMA RecentNow ==
  ASSUME Parsing, BodyDone
  PROVE  /\ Current.type = "interface" => \A j : Recent(j)' <=> j = place[1]
         /\ Current.type # "interface" => \A j : Recent(j)' <=> Recent(j)
<1> DEFINE D == place[1]
           I == Interfaces(Config)
<1>1. /\ Config' = Config /\ D \in 1 .. Len(Config) /\ Parsed = D - 1 /\ Parsed' = D
      /\ Len(Config) \in Nat /\ DOMAIN Config = 1 .. Len(Config)
  BY Completed, CurrentDescriptor DEF Parsing
<1>2. I \subseteq 1 .. Len(Config) /\ (D \in I <=> Current.type = "interface")
  BY <1>1 DEF Interfaces, Current
<1>3. \A j : Recent(j) <=> j \in I /\ j <= D - 1 /\ \A x \in I : x <= j \/ x > D - 1
  BY <1>1 DEF Recent
<1>4. \A j : Recent(j)' <=> j \in I /\ j <= D /\ \A x \in I : x <= j \/ x > D
  BY <1>1 DEF Recent, Interfaces
<1> HIDE DEF I, D
<1>5. CASE D \in I
  <2>1. \A j \in I : (j <= D /\ \A x \in I : x <= j \/ x > D) <=> j = D
    BY <1>1, <1>2, <1>5
  <2>2. \A j : Recent(j)' <=> j = D
    BY <1>4, <1>5, <2>1, Zenon
  <2> QED BY <1>2, <1>5, <2>2 DEF D
<1>6. CASE D \notin I
  <2>1. \A x \in I : x # D /\ (x <= D <=> x <= D - 1) /\ (x > D <=> x > D - 1)
    BY <1>1, <1>2, <1>6
  <2>2. \A j : Recent(j)' <=> Recent(j)
    BY <1>3, <1>4, <2>1, Zenon
  <2> QED BY <1>2, <1>6, <2>2
<1> QED BY <1>5, <1>6

LEMMA KnownNow ==
  ASSUME Parsing, BodyDone
  PROVE  Known'
<1> DEFINE D == place[1]
           I == Interfaces(Config)
<1>1. /\ Config' = Config /\ D \in 1 .. Len(Config) /\ Parsed = D - 1 /\ Parsed' = D /\ Kinds
      /\ stateParseDescr = "body" /\ stateParseDescr' = "header" /\ isMidiSearch' = isMidiSearch
      /\ Len(Config) \in Nat /\ DOMAIN Config = 1 .. Len(Config) /\ Current = Config[D]
  BY Completed, CurrentDescriptor DEF Parsing, Current
<1>2. WellFormed(Config)
  BY ConfigIsProper DEF Parsing
<1>3. I \subseteq 1 .. Len(Config) /\ (D \in I <=> Current.type = "interface")
  BY <1>1 DEF Interfaces, Current
<1>4. Interfaces(Config)' = I /\ ~Clearing'
  BY <1>1 DEF Interfaces, Clearing
<1>5. confValue' = Config[1].info
  <2>1. Current.type = "configuration" <=> D = 1
    BY <1>1, <1>2 DEF WellFormed
  <2>2. D # 1 => confValue = Config[1].info
    BY <1>1 DEF Parsing, Known
  <2> QED BY <1>1, <2>1, <2>2 DEF Kinds
<1>6. (\E j \in I : j <= D) => \E j \in I : Recent(j)'
  <2>1. CASE D \in I
    BY <1>3, <2>1, RecentNow, Zenon
  <2>2. CASE D \notin I
    <3>1. \A j \in I : j <= D => j <= Parsed
      BY <1>1, <1>3, <2>2
    <3>2. (\E j \in I : j <= Parsed) => \E j \in I : Recent(j)
      BY DEF Parsing, Known
    <3> QED BY <1>3, <2>2, <3>1, <3>2, RecentNow, Zenon
  <2> QED BY <2>1, <2>2
<1>7. ASSUME NEW j \in I, Recent(j)'
      PROVE  isGoodInterface' <=> (isMidiSearch => Config[j].info)
  <2>1. CASE D \in I
    <3>1. j = D /\ Current.type = "interface"
      BY <1>3, <1>7, <2>1, RecentNow, Zenon
    <3>2. ~isGoodInterface
      BY <1>1, <3>1 DEF Parsing, Known, Clearing
    <3>3. IF isMidiSearch => Current.info THEN isGoodInterface' = TRUE
                                          ELSE isGoodInterface' = isGoodInterface
      BY <1>1, <3>1 DEF Kinds
    <3> QED BY <1>1, <3>1, <3>2, <3>3
  <2>2. CASE D \notin I
    <3>1. Recent(j) /\ Current.type # "interface"
      BY <1>3, <1>7, <2>2, RecentNow, Zenon
    <3>2. isGoodInterface <=> (isMidiSearch => Config[j].info)
      BY <3>1 DEF Parsing, Known, Clearing
    <3>3. isGoodInterface' = isGoodInterface
      BY <1>1, <3>1 DEF Kinds
    <3> QED BY <3>2, <3>3
  <2> QED BY <2>1, <2>2
<1> HIDE DEF I, D
<1> QED BY <1>1, <1>4, <1>5, <1>6, <1>7, Zenon DEF Known

(* A set of two elements, and one of one.                                  *)
LEMMA TwoElements ==
  ASSUME NEW S, IsFiniteSet(S), Cardinality(S) = 2
  PROVE  \E a, b \in S : a # b /\ S = {a, b}
<1>1. S # {}
  BY FS_EmptySet
<1>2. PICK a \in S : TRUE
  BY <1>1
<1>3. IsFiniteSet(S \ {a}) /\ Cardinality(S \ {a}) = 1
  BY <1>2, FS_RemoveElement
<1>4. PICK b : S \ {a} = {b}
  BY <1>3, FS_Singleton
<1> QED BY <1>2, <1>4

LEMMA BulkSizes ==
  ASSUME NEW c, WellFormed(c), NEW j
  PROVE  /\ Bulk(c, j) \subseteq 1 .. Len(c)
         /\ Cardinality(Bulk(c, j)) = 2 =>
              \E a, b \in Bulk(c, j) : a # b /\ Bulk(c, j) = {a, b}
         /\ Cardinality(Bulk(c, j)) = 1 => \E b : Bulk(c, j) = {b}
<1>1. DOMAIN c = 1 .. Len(c) /\ Len(c) \in Nat
  BY DEF WellFormed
<1>2. Bulk(c, j) \subseteq 1 .. Len(c)
  BY <1>1 DEF Bulk
<1>3. IsFiniteSet(Bulk(c, j))
  <2>1. 1 \in Int /\ Len(c) \in Int
    BY <1>1
  <2> QED BY <1>2, <2>1, FS_Interval, FS_Subset
<1> QED BY <1>2, <1>3, TwoElements, FS_Singleton

(* An endpoint belongs to the interface that was parsed last, and the      *)
(* parser knows whether that is one it looks at.                           *)
LEMMA EndpointBelongs ==
  ASSUME Parsing, BodyDone, Current.type = "endpoint"
  PROVE  \E x \in Interfaces(Config) :
           /\ Recent(x)
           /\ isGoodInterface <=> (isMidiSearch => Config[x].info)
           /\ Current.info.bulk <=> place[1] \in Bulk(Config, x)
           /\ \A j \in Interfaces(Config) : place[1] \in Bulk(Config, j) => j = x
<1> DEFINE D == place[1]
           I == Interfaces(Config)
<1>1. /\ D \in 1 .. Len(Config) /\ Parsed = D - 1 /\ ~Clearing
      /\ Len(Config) \in Nat /\ DOMAIN Config = 1 .. Len(Config) /\ Current = Config[D]
  BY Completed, CurrentDescriptor DEF Parsing, Current, Clearing
<1>2. WellFormed(Config)
  BY ConfigIsProper DEF Parsing
<1>3. I \subseteq 1 .. Len(Config) /\ D \notin I
  BY <1>1 DEF Interfaces
<1>4. \E j \in I : j < D
  BY <1>1, <1>2 DEF WellFormed, Interfaces
<1>5. PICK x \in I : Recent(x)
  <2>1. \E j \in I : j <= Parsed
    BY <1>1, <1>3, <1>4
  <2> QED BY <2>1 DEF Parsing, Known
<1>6. x <= D - 1 /\ \A k \in I : k <= x \/ k > D - 1
  BY <1>1, <1>5 DEF Recent
<1>7. x < D /\ \A k \in I : k <= x \/ k > D
  <2> HIDE DEF I, D
  <2> QED BY <1>1, <1>3, <1>6
<1>8. isGoodInterface <=> (isMidiSearch => Config[x].info)
  BY <1>1, <1>5 DEF Parsing, Known
<1>9. \A j : D \in Bulk(Config, j) <=>
        /\ Config[D].type = "endpoint" /\ Config[D].info.bulk /\ D > j
        /\ \A k \in I : k <= j \/ k > D
  BY <1>1 DEF Bulk
<1>10. Current.info.bulk <=> D \in Bulk(Config, x)
  <2>1. D > x
    <3> HIDE DEF I, D
    <3> QED BY <1>1, <1>3, <1>7
  <2> QED BY <1>1, <1>7, <1>9, <2>1, Zenon
<1>11. ASSUME NEW j \in I, D \in Bulk(Config, j)
       PROVE  j = x
  <2>1. D > j /\ \A k \in I : k <= j \/ k > D
    BY <1>9, <1>11, Zenon
  <2> HIDE DEF I, D
  <2> QED BY <1>1, <1>3, <1>7, <2>1
<1> QED BY <1>5, <1>8, <1>10, <1>11

(* What the search has of an interface grows by the bulk endpoint that was *)
(* parsed.                                                                 *)
LEMMA GotNow ==
  ASSUME Parsing, BodyDone, NEW j
  PROVE  /\ Bulk(Config, j)' = Bulk(Config, j) /\ place[1] \notin Got(j)
         /\ Got(j) \subseteq Bulk(Config, j)
         /\ Got(j)' = Got(j) \cup (Bulk(Config, j) \cap {place[1]})
<1> DEFINE D == place[1]
           B == Bulk(Config, j)
<1>1. /\ Config' = Config /\ D \in 1 .. Len(Config) /\ Parsed = D - 1 /\ Parsed' = D
      /\ Len(Config) \in Nat
  BY Completed, CurrentDescriptor DEF Parsing
<1>2. B \subseteq 1 .. Len(Config)
  BY ConfigIsProper, BulkSizes DEF Parsing
<1>3. Bulk(Config, j)' = B
  BY <1>1 DEF Bulk, Interfaces
<1>4. Got(j) = {b \in B : b <= D - 1} /\ Got(j)' = {b \in B : b <= D}
  BY <1>1, <1>3 DEF Got
<1> HIDE DEF B, D
<1>5. \A b \in B : b <= D <=> b <= D - 1 \/ b = D
  BY <1>1, <1>2
<1>6. ~(D <= D - 1)
  BY <1>1
<1>7. D \notin Got(j) /\ Got(j) \subseteq B /\ Got(j)' = Got(j) \cup (B \cap {D})
  BY <1>4, <1>5, <1>6
<1> QED BY <1>3, <1>7 DEF B, D

(* A configuration without a MIDI interface that would do: its endpoints   *)
(* are not counted.                                                        *)
LEMMA EarlierNow ==
  ASSUME Parsing, BodyDone, isMidiSearch, Midi(Config) = {}, nEPs = 0
  PROVE  nEPs' = 0
<1>1. Kinds
  BY Completed
<1>2. CASE Current.type = "endpoint"
  <2>1. PICK x \in Interfaces(Config) :
          /\ isGoodInterface <=> Config[x].info
          /\ Current.info.bulk <=> place[1] \in Bulk(Config, x)
    BY <1>2, EndpointBelongs
  <2>2. ~(isGoodInterface /\ Current.info.bulk)
    BY <2>1 DEF Midi
  <2> QED BY <1>1, <1>2, <2>2 DEF Kinds
<1>3. CASE Current.type = "interface"
  BY <1>1, <1>3 DEF Kinds, FoundSoFar
<1>4. CASE Current.type \notin {"endpoint", "interface"}
  BY <1>1, <1>4 DEF Kinds
<1> QED BY <1>2, <1>3, <1>4

(* Nothing of an interface is found before its own descriptor ends.        *)
LEMMA NothingYet ==
  ASSUME Parsing, BodyDone, NEW j, j = place[1]
  PROVE  Got(j)' = {}
<1>1. /\ j \in 1 .. Len(Config) /\ Len(Config) \in Nat /\ Parsed' = j
      /\ DOMAIN Config = 1 .. Len(Config)
  BY Completed, CurrentDescriptor DEF Parsing
<1>2. \A b \in Bulk(Config, j) : b \in 1 .. Len(Config) /\ b > j
  BY <1>1 DEF Bulk
<1>3. Got(j)' = {b \in Bulk(Config, j) : b <= j}
  BY <1>1, GotNow DEF Got
<1>4. \A b \in 1 .. Len(Config) : b > j => ~(b <= j)
  BY <1>1
<1> QED BY <1>2, <1>3, <1>4

(* In front of the interface j no two endpoints are found.                 *)
LEMMA BeforeNow ==
  ASSUME Parsing, BodyDone, isMidiSearch, NEW j \in Nat, place[1] < j, BeforeJ(j),
         \A k \in Midi(Config) : k < j => Cardinality(Bulk(Config, k)) = 1
  PROVE  BeforeJ(j)'
<1> DEFINE D == place[1]
           I == Interfaces(Config)
<1>1. /\ Kinds /\ Config' = Config /\ D \in 1 .. Len(Config) /\ Parsed = D - 1
      /\ Len(Config) \in Nat /\ DOMAIN Config = 1 .. Len(Config) /\ Current = Config[D]
  BY Completed, CurrentDescriptor DEF Parsing, Current
<1>2. I \subseteq 1 .. Len(Config) /\ (D \in I <=> Current.type = "interface")
  BY <1>1 DEF Interfaces
<1>3. Interfaces(Config)' = I /\ nEPs \in 0 .. 2 /\ nEPs <= 1
  BY <1>1 DEF Interfaces, BeforeJ, Parsing, SearchTypes, SearchTypeOK
<1>4. CASE Current.type = "interface"
  <2>1. PICK d \in I : d = place[1]
    BY <1>2, <1>4
  <2>2. \A x \in I : Recent(x)' <=> x = d
    BY <1>4, <2>1, RecentNow
  <2>3. Got(d)' = {}
    BY <2>1, NothingYet
  <2>4. nEPs' <= 1 /\ (Config[d].info => nEPs' = 0)
    BY <1>1, <1>3, <1>4, <2>1 DEF Kinds, FoundSoFar
  <2>5. \A x \in I : Recent(x)' /\ Config[x].info => nEPs' = 0 /\ Got(x)' = {}
    BY <2>2, <2>3, <2>4, Zenon
  <2> HIDE DEF I
  <2> QED BY <1>1, <1>3, <2>4, <2>5, Zenon DEF BeforeJ
<1>5. CASE Current.type = "endpoint"
  <2>1. PICK y \in I : /\ Recent(y) /\ (isGoodInterface <=> Config[y].info)
                       /\ Current.info.bulk <=> D \in Bulk(Config, y)
    BY <1>5, EndpointBelongs
  <2>2. y < j
    <3>1. y <= D - 1
      BY <1>1, <2>1 DEF Recent
    <3> HIDE DEF I
    <3> QED BY <1>1, <1>2, <3>1
  <2>3. Config[y].info => (nEPs = 0 <=> Got(y) = {})
    BY <2>1 DEF BeforeJ
  <2>4. \A x \in I : Recent(x)' => x = y
    <3>1. \A x \in I : Recent(x) => x <= y /\ y <= x
      <4>1. y <= D - 1 /\ \A x \in I : x <= y \/ x > D - 1
        BY <1>1, <2>1 DEF Recent
      <4>2. \A x \in I : Recent(x) => x <= D - 1 /\ (y <= x \/ y > D - 1)
        BY <1>1, <2>1 DEF Recent
      <4> HIDE DEF I
      <4>3. \A p, q \in 1 .. Len(Config) : p <= q => ~(p > q)
        OBVIOUS
      <4>4. \A p \in 1 .. Len(Config) : p <= D - 1 => ~(p > D - 1)
        BY <1>1
      <4> QED BY <1>2, <2>1, <4>1, <4>2, <4>4
    <3>2. \A x \in I : x <= y /\ y <= x => x = y
      <4> HIDE DEF I
      <4> QED BY <1>2
    <3> QED BY <1>5, <3>1, <3>2, RecentNow
  <2>5. CASE isGoodInterface /\ Current.info.bulk
    <3>1. D \in Bulk(Config, y) /\ y \in Midi(Config)
      BY <2>1, <2>5 DEF Midi
    <3>2. PICK b : Bulk(Config, y) = {b}
      BY <2>2, <3>1, ConfigIsProper, BulkSizes DEF Parsing
    <3>3. Got(y) = {} /\ D \in Got(y)'
      BY <3>1, <3>2, GotNow
    <3>4. nEPs = 0
      BY <2>1, <2>3, <2>5, <3>3
    <3>5. nEPs' = 1
      BY <1>1, <1>5, <2>5, <3>4 DEF Kinds
    <3> QED BY <1>1, <1>3, <2>4, <3>3, <3>5 DEF BeforeJ
  <2>6. CASE ~(isGoodInterface /\ Current.info.bulk)
    <3>1. nEPs' = nEPs
      BY <1>1, <1>5, <2>6 DEF Kinds
    <3>2. Config[y].info => Got(y)' = Got(y)
      BY <2>1, <2>6, GotNow
    <3> QED BY <1>1, <1>3, <2>3, <2>4, <3>1, <3>2 DEF BeforeJ
  <2> QED BY <2>5, <2>6
<1>6. CASE Current.type \notin {"endpoint", "interface"}
  <2>1. nEPs' = nEPs
    BY <1>1, <1>6 DEF Kinds
  <2>2. \A x : D \notin Bulk(Config, x)
    BY <1>1, <1>6 DEF Bulk
  <2>3. \A x : Got(x)' = Got(x)
    BY <2>2, GotNow
  <2> QED BY <1>1, <1>3, <1>6, <2>1, <2>3, RecentNow DEF BeforeJ
<1> QED BY <1>4, <1>5, <1>6

(* Interface j itself: the count starts at 0.                              *)
LEMMA StartNow ==
  ASSUME Parsing, BodyDone, NEW j, j = place[1], Awaited(conf, j), BeforeJ(j)
  PROVE  FromJ(j)'
<1>1. Kinds /\ Config' = Config /\ j \in 1 .. Len(Config) /\ Current = Config[j]
  BY Completed DEF Current
<1>2. j \in Midi(Config)
  BY DEF Awaited, Pairs, Config
<1>3. Current.type = "interface" /\ Current.info /\ Bulk(Config, j) # {}
  BY <1>1, <1>2 DEF Midi, Interfaces
<1>4. nEPs' = 0
  BY <1>1, <1>3 DEF Kinds, FoundSoFar, BeforeJ, Parsing, SearchTypes, SearchTypeOK
<1>5. Got(j)' = {} /\ Bulk(Config, j)' = Bulk(Config, j)
  BY NothingYet, GotNow
<1> QED BY <1>1, <1>3, <1>4, <1>5 DEF FromJ

(***************************************************************************)
(* Behind interface j the parser takes its two endpoints, one for each     *)
(* direction, and then no other.                                           *)
(***************************************************************************)
LEMMA FromNow ==
  ASSUME Parsing, BodyDone, isMidiSearch, NEW j, Awaited(conf, j), j < place[1], FromJ(j)
  PROVE  FromJ(j)'
<1> DEFINE D == place[1]
           I == Interfaces(Config)
           B == Bulk(Config, j)
           Taken(b, e) == e[Config[b].info.dir].addr = Config[b].info.addr
<1>1. /\ Kinds /\ Config' = Config /\ D \in 1 .. Len(Config) /\ Parsed = D - 1
      /\ Len(Config) \in Nat /\ DOMAIN Config = 1 .. Len(Config) /\ Current = Config[D]
  BY Completed, CurrentDescriptor DEF Parsing, Current
<1>2. j \in I /\ Config[j].info /\ Cardinality(B) = 2 /\ ~Twins(Config, j)
  BY DEF Awaited, Pairs, Midi, Config
<1>3. I \subseteq 1 .. Len(Config) /\ (D \in I <=> Current.type = "interface")
  BY <1>1 DEF Interfaces
<1>4. PICK a, b \in B : a # b /\ B = {a, b}
  BY <1>2, ConfigIsProper, BulkSizes DEF Parsing
<1>5. \A e \in B : /\ e \in 1 .. Len(Config) /\ Config[e].type = "endpoint"
                   /\ \A k \in I : k <= j \/ k > e
  BY <1>1 DEF Bulk
<1>6. /\ B' = B /\ D \notin Got(j) /\ Got(j) \subseteq B
      /\ Got(j)' = Got(j) \cup (B \cap {D})
  BY GotNow
<1>7. /\ nEPs \in 0 .. 2 /\ (nEPs = 0 <=> Got(j) = {}) /\ (nEPs = 2 <=> Got(j) = B)
      /\ \A e \in Got(j) : Taken(e, epInfo)
  BY DEF FromJ, Parsing, SearchTypes, SearchTypeOK
<1>8. SUFFICES /\ nEPs' = 0 <=> Got(j)' = {}
               /\ nEPs' = 2 <=> Got(j)' = B
               /\ \A e \in Got(j)' : Taken(e, epInfo')
  BY <1>1, <1>6 DEF FromJ
<1>9. CASE Got(j) = B
  <2>1. D \notin B /\ Got(j)' = Got(j)
    BY <1>6, <1>9
  <2>2. nEPs' = nEPs /\ epInfo' = epInfo
    BY <1>1, <1>7, <1>9 DEF Kinds, FoundSoFar
  <2> QED BY <1>7, <2>1, <2>2
<1>10. CASE Got(j) # B
  <2>1. PICK e \in B : e \notin Got(j)
    BY <1>6, <1>10
  <2>2. e \in 1 .. Len(Config) /\ e > D - 1
    <3>1. e \in 1 .. Len(Config) /\ ~(e <= D - 1)
      BY <1>1, <1>5, <2>1 DEF Got
    <3> HIDE DEF D, B
    <3> QED BY <1>1, <3>1
  <2>3. Current.type # "interface"
    <3>1. Current.type = "interface" => D \in I /\ (D <= j \/ D > e) /\ D # e
      BY <1>1, <1>3, <1>5
    <3>2. j \in 1 .. Len(Config) /\ j < D
      BY <1>2, <1>3
    <3> HIDE DEF D, I, B
    <3> QED BY <1>1, <2>2, <3>1, <3>2
  <2>4. CASE Current.type \notin {"interface", "endpoint"}
    <3>1. D \notin B
      BY <1>1, <1>5, <2>4
    <3>2. nEPs' = nEPs /\ epInfo' = epInfo
      BY <1>1, <2>4 DEF Kinds
    <3> QED BY <1>6, <1>7, <3>1, <3>2
  <2>5. CASE Current.type = "endpoint"
    <3>1. PICK x \in I : /\ Recent(x) /\ (isGoodInterface <=> Config[x].info)
                         /\ Current.info.bulk <=> D \in Bulk(Config, x)
      BY <2>5, EndpointBelongs
    <3>2. x = j
      <4>1. /\ x <= D - 1 /\ (j <= x \/ j > D - 1) /\ (x <= j \/ x > e)
        BY <1>1, <1>2, <1>5, <3>1 DEF Recent
      <4>2. x \in 1 .. Len(Config) /\ j \in 1 .. Len(Config) /\ j < D
        BY <1>2, <1>3, <3>1
      <4> HIDE DEF D, I, B
      <4> QED BY <1>1, <2>2, <4>1, <4>2
    <3>3. isGoodInterface /\ (Current.info.bulk <=> D \in B)
      BY <1>2, <3>1, <3>2
    <3>4. nEPs \in {0, 1}
      BY <1>7, <1>10
    <3>5. CASE ~Current.info.bulk
      <4>1. nEPs' = nEPs /\ epInfo' = epInfo
        BY <1>1, <2>5, <3>5 DEF Kinds
      <4> QED BY <1>6, <1>7, <3>3, <3>5, <4>1
    <3>6. CASE Current.info.bulk
      <4>1. D \in B /\ Got(j)' = Got(j) \cup {D}
        BY <1>6, <3>3, <3>6
      <4>2. /\ nEPs' = nEPs + 1
            /\ epInfo' = [epInfo EXCEPT ![Config[D].info.dir] =
                            [addr |-> Config[D].info.addr, size |-> Least(Config[D].info.size, PacketMax)]]
        BY <1>1, <2>5, <3>3, <3>4, <3>6 DEF Kinds
      <4>3. nEPs' # 0 /\ (nEPs' = 2 <=> nEPs = 1) /\ Got(j)' # {}
        BY <3>4, <4>1, <4>2
      <4>4. nEPs = 1 <=> Got(j)' = B
        <5> HIDE DEF B, D
        <5> QED BY <1>4, <1>6, <1>7, <3>4, <4>1
      <4>5. \A f \in Got(j) : Config[f].info.dir # Config[D].info.dir
        BY <1>2, <1>6, <4>1 DEF Twins
      <4>6. Config[D].info.dir \in Direction
        <5>1. Descriptor(Config[D])
          BY <1>1, CurrentDescriptor DEF Parsing
        <5> QED BY <1>1, <2>5, <5>1 DEF Descriptor
      <4>7. epInfo = [y \in Direction |-> epInfo[y]]
        BY DEF Parsing, SearchTypes
      <4>8. Taken(D, epInfo')
        BY <4>2, <4>6, <4>7
      <4>9. \A f \in Got(j) : Taken(f, epInfo')
        <5> TAKE f \in Got(j)
        <5>1. Config[f].info.dir \in Direction
          <6>1. f \in DOMAIN Config /\ Config[f].type = "endpoint"
            BY <1>1, <1>5, <1>6
          <6>2. Descriptor(Config[f])
            BY <6>1, ConfigIsProper DEF WellFormed, Parsing
          <6> QED BY <6>1, <6>2 DEF Descriptor
        <5>2. epInfo'[Config[f].info.dir] = epInfo[Config[f].info.dir]
          BY <4>2, <4>5, <4>7, <5>1
        <5> QED BY <1>7, <5>2
      <4> HIDE DEF Taken
      <4> QED BY <4>1, <4>3, <4>4, <4>8, <4>9
    <3> QED BY <3>5, <3>6
  <2> QED BY <2>3, <2>4, <2>5
<1> QED BY <1>9, <1>10

LEMMA BodyDoneStep ==
  ASSUME Parsing, BodyDone
  PROVE  Parsing'
<1>1. /\ Kinds /\ Config' = Config /\ Current' = Current
      /\ place[1] \in 1 .. Len(Config) /\ place[2] = Current.len /\ Current.len \in 2 .. 255
      /\ Parsed = place[1] - 1 /\ Parsed' = place[1]
      /\ stateParseDescr' = "header" /\ varBuffer' = <<>> /\ countDown' = 2
      /\ UNCHANGED <<device, pc, isMidiSearch, conf, bNumEP, bConfNum, place, piece>>
  BY Completed
<1>2. Position'
  <2>1. place'[2] \in 0 .. Current'.len
    BY <1>1, CurrentDescriptor DEF Parsing
  <2>2. piece' => ~AtEnd(place)'
    BY <1>1 DEF AtEnd, Parsing, Position
  <2> QED BY <1>1, <2>1, <2>2 DEF Position
<1>3. SearchTypes'
  <2>1. /\ isGoodInterface \in BOOLEAN /\ nEPs \in 0 .. 2
        /\ epInfo = [x \in Direction |-> epInfo[x]]
    BY DEF Parsing, SearchTypes, SearchTypeOK
  <2>2. isGoodInterface' \in BOOLEAN
    BY <1>1, <2>1 DEF Kinds
  <2>3. nEPs' \in 0 .. 2
    BY <1>1, <2>1 DEF Kinds, FoundSoFar
  <2>4. epInfo' = [x \in Direction |-> epInfo'[x]]
    BY <1>1, <2>1 DEF Kinds
  <2>5. Len(varBuffer') <= VarBuffer
    <3>1. VarBuffer \in 3 .. 255 /\ Len(<<>>) = 0
      BY BufferAssumption DEF BufferAssumption
    <3> QED BY <1>1, <3>1
  <2> QED BY <1>1, <2>2, <2>3, <2>4, <2>5 DEF Parsing, SearchTypes, SearchTypeOK
<1>4. Pending'
  <2> SUFFICES ASSUME NEW n \in DOMAIN device, NEW j \in DOMAIN device[n], Awaited(n, j)
               PROVE  /\ isMidiSearch /\ conf <= n
                      /\ conf < n => nEPs' = 0
                      /\ conf = n /\ place[1] < j => BeforeJ(j)'
                      /\ conf = n /\ place[1] >= j => FromJ(j)'
    <3>1. \A n, j : Awaited(n, j)' <=> Awaited(n, j)
      BY <1>1 DEF Awaited, Pairs, Midi, Twins, Bulk, Interfaces
    <3> QED BY <1>1, <3>1, Zenon DEF Pending
  <2>1. /\ isMidiSearch /\ conf <= n
        /\ conf < n => nEPs = 0
        /\ conf = n /\ Parsed < j => BeforeJ(j)
        /\ conf = n /\ Parsed >= j => FromJ(j)
    BY Zenon DEF Parsing, Pending
  <2>2. conf \in 1 .. Len(device) /\ DOMAIN device = 1 .. Len(device) /\ Len(device) \in Nat
    BY ConfigIsProper DEF Parsing
  <2>3. ASSUME conf < n
        PROVE  nEPs' = 0
    <3>1. conf \in 1 .. n - 1
      BY <2>2, <2>3
    <3>2. Midi(Config) = {}
      BY <3>1 DEF Awaited, Config
    <3> QED BY <2>1, <2>3, <3>2, EarlierNow
  <2>4. ASSUME conf = n
        PROVE  /\ place[1] < j => BeforeJ(j)'
               /\ place[1] >= j => FromJ(j)'
    <3>1. j \in 1 .. Len(Config) /\ Len(Config) \in Nat
      BY <2>4, CurrentDescriptor DEF Parsing, Config
    <3>2. \A k \in Midi(Config) : k < j => Cardinality(Bulk(Config, k)) = 1
      BY <2>4 DEF Awaited, Config
    <3>3. CASE place[1] < j
      <4>1. Parsed < j /\ ~(place[1] >= j) /\ j \in Nat
        BY <1>1, <3>1, <3>3
      <4>2. BeforeJ(j)'
        BY <2>1, <2>4, <3>2, <3>3, <4>1, BeforeNow
      <4> QED BY <4>1, <4>2
    <3>4. CASE place[1] = j
      <4>1. Parsed < j /\ ~(place[1] < j)
        BY <1>1, <3>1, <3>4
      <4>2. FromJ(j)'
        BY <2>1, <2>4, <3>4, <4>1, StartNow
      <4> QED BY <4>1, <4>2
    <3>5. CASE place[1] > j
      <4>1. Parsed >= j /\ ~(place[1] < j) /\ j < place[1]
        BY <1>1, <3>1, <3>5
      <4>2. FromJ(j)'
        BY <2>1, <2>4, <4>1, FromNow
      <4> QED BY <4>1, <4>2
    <3> QED BY <1>1, <3>1, <3>3, <3>4, <3>5
  <2> QED BY <2>1, <2>3, <2>4
<1>5. Known'
  BY KnownNow
<1> QED BY <1>1, <1>2, <1>3, <1>4, <1>5 DEF Parsing

(***************************************************************************)
(* The end of a configuration: all of it is parsed.                        *)
(***************************************************************************)
LEMMA EndStep ==
  ASSUME Parsing, MidiPairTaken, EndOfConfiguration
  PROVE  SearchInv'
<1>1. /\ ~piece /\ countDown > 0 /\ AtEnd(place) /\ bNumEP' = bNumEP + nEPs
      /\ IF bNumEP' > 1 THEN bConfNum' = confValue /\ pc' = "found" /\ UNCHANGED conf
                        ELSE conf' = conf + 1 /\ pc' = "conf" /\ UNCHANGED bConfNum
      /\ UNCHANGED <<device, isMidiSearch, epInfo, place, piece, stateParseDescr, varBuffer,
                     countDown, isGoodInterface, nEPs, confValue>>
  BY DEF EndOfConfiguration, Waits, stream, parser
<1>2. /\ nEPs \in 0 .. 2 /\ bNumEP = 1 /\ conf \in 1 .. Len(device) /\ device \in Devices
      /\ Len(device) \in Nat /\ DOMAIN device = 1 .. Len(device)
  BY ConfigIsProper DEF Parsing, SearchTypes, SearchTypeOK
<1>3. bNumEP' = 1 + nEPs /\ bNumEP' \in 1 .. 3 /\ (bNumEP' > 1 <=> nEPs # 0)
  BY <1>1, <1>2
<1>4. Parsed = Len(Config)
  <2>1. place[1] = Len(Config) /\ place[2] = Current.len /\ Current.len \in 2 .. 255
    BY <1>1, CurrentDescriptor DEF AtEnd, Parsing, Current
  <2>2. varBuffer = <<>>
    <3>1. CASE stateParseDescr = "header" /\ place[2] \in {1, 2} /\ countDown = 2 - place[2]
      <4>1. place[2] = 1
        BY <1>1, <3>1
      <4>2. \A l \in 2 .. 255 : l # 1
        OBVIOUS
      <4> QED BY <2>1, <4>1, <4>2, Zenon
    <3>2. CASE countDown = Current.len - place[2]
      <4>1. \A l \in 2 .. 255 : ~(l - l > 0)
        OBVIOUS
      <4> QED BY <1>1, <2>1, <3>2, <4>1, Zenon
    <3> QED BY <3>1, <3>2, Zenon DEF Parsing, Position
  <2>3. \A l \in 2 .. 255 : l # 0
    OBVIOUS
  <2>4. place[2] # 0
    BY <2>1, <2>3, Zenon
  <2> QED BY <2>1, <2>2, <2>4 DEF Parsed
<1>5. ASSUME NEW n \in DOMAIN device, NEW j \in DOMAIN device[n], Awaited(n, j)
      PROVE  /\ isMidiSearch /\ conf <= n
             /\ conf < n => nEPs = 0
             /\ conf = n => /\ nEPs = 2 /\ confValue = Config[1].info
                            /\ \A d \in Bulk(Config, j) : epInfo[Config[d].info.dir].addr = Config[d].info.addr
  <2>1. /\ isMidiSearch /\ conf <= n
        /\ conf < n => nEPs = 0
        /\ conf = n /\ Parsed >= j => FromJ(j)
    BY <1>5, Zenon DEF Parsing, Pending
  <2>2. ASSUME conf = n
        PROVE  /\ nEPs = 2 /\ confValue = Config[1].info
               /\ \A d \in Bulk(Config, j) : epInfo[Config[d].info.dir].addr = Config[d].info.addr
    <3>1. j \in 1 .. Len(Config) /\ Len(Config) \in Nat \ {0}
      BY <2>2, CurrentDescriptor DEF Parsing, Config
    <3>2. Parsed >= j /\ Parsed >= 1
      BY <1>4, <3>1
    <3>3. \A b \in Bulk(Config, j) : b <= Parsed
      <4>1. Bulk(Config, j) \subseteq 1 .. Len(Config)
        BY ConfigIsProper, BulkSizes DEF Parsing
      <4>2. \A b \in 1 .. Len(Config) : b <= Len(Config)
        BY <3>1
      <4> QED BY <1>4, <4>1, <4>2, Zenon
    <3>4. Got(j) = Bulk(Config, j)
      BY <3>3 DEF Got
    <3> QED BY <2>1, <2>2, <3>2, <3>4 DEF FromJ, Parsing, Known
  <2> QED BY <2>1, <2>2
<1>6. \A n, j : Awaited(n, j)' <=> Awaited(n, j)
  BY <1>1 DEF Awaited, Pairs, Midi, Twins, Bulk, Interfaces
<1>7. SearchTypes'
  <2>1. conf' \in 1 .. Len(device) + 1
    BY <1>1, <1>2
  <2>2. pc' \in {"conf", "found"} /\ (pc' = "conf" => bNumEP' = 1)
    BY <1>1, <1>2, <1>3
  <2> QED BY <1>1, <1>2, <1>3, <2>1, <2>2 DEF Parsing, SearchTypes, SearchTypeOK
<1>8. CASE nEPs # 0
  <2>1. pc' = "found" /\ bConfNum' = confValue /\ conf' = conf
    BY <1>1, <1>3, <1>8
  <2>2. ASSUME NEW n \in DOMAIN device, NEW j \in DOMAIN device[n], Awaited(n, j)
        PROVE  conf = n
    <3>1. conf <= n /\ ~(conf < n)
      BY <1>5, <1>8, <2>2
    <3> QED BY <1>2, <3>1
  <2>3. MidiPairTaken'
    <3> SUFFICES ASSUME NEW n \in DOMAIN device, NEW j \in DOMAIN device[n], Awaited(n, j)
                 PROVE  /\ pc' = "found" /\ isMidiSearch /\ bConfNum' = device[n][1].info
                        /\ \A d \in Bulk(device[n], j) :
                             epInfo[device[n][d].info.dir].addr = device[n][d].info.addr
      <4>1. \A n, j : Bulk(device[n], j)' = Bulk(device[n], j)
        BY <1>1 DEF Bulk, Interfaces
      <4> QED BY <1>1, <1>6, <4>1 DEF MidiPairTaken
    <3> QED BY <1>5, <2>1, <2>2 DEF Config
  <2> QED BY <1>7, <2>1, <2>3 DEF SearchInv
<1>9. CASE nEPs = 0
  <2>1. pc' = "conf" /\ conf' = conf + 1
    BY <1>1, <1>3, <1>9
  <2>2. ASSUME NEW n \in DOMAIN device, NEW j \in DOMAIN device[n], Awaited(n, j)
        PROVE  isMidiSearch /\ conf + 1 <= n
    <3>1. isMidiSearch /\ conf <= n /\ conf # n
      BY <1>5, <1>9, <2>2
    <3> QED BY <1>2, <3>1
  <2>3. Pending'
    BY <1>1, <1>6, <2>1, <2>2 DEF Pending
  <2> QED BY <1>7, <2>1, <2>3 DEF SearchInv, MidiPairTaken
<1> QED BY <1>8, <1>9

(* The search for one device after another.                                *)
LEMMA SearchStep ==
  ASSUME SearchInv, SearchNext
  PROVE  SearchInv'
<1> USE DEF SearchInv
<1>1. CASE Attach
  <2>1. /\ device' \in Devices /\ isMidiSearch' = TRUE /\ conf' = 1 /\ bNumEP' = 1 /\ pc' = "conf"
        /\ UNCHANGED <<epInfo, place, piece, stateParseDescr, varBuffer, countDown,
                       isGoodInterface, nEPs, confValue>>
    BY <1>1 DEF Attach, stream, parser
  <2>2. Len(device') \in Nat /\ DOMAIN device' = 1 .. Len(device')
    BY <2>1, DevicesAssumption DEF DevicesAssumption
  <2>3. SearchTypes'
    BY <2>1, <2>2 DEF SearchTypes, SearchTypeOK
  <2>4. Pending'
    BY <2>1, <2>2 DEF Pending
  <2> QED BY <2>1, <2>3, <2>4 DEF MidiPairTaken
<1>2. CASE Detach
  BY <1>2 DEF Detach, search, stream, parser, SearchTypes, SearchTypeOK, MidiPairTaken
<1>3. CASE AskConfiguration
  <2>1. /\ pc = "conf" /\ conf <= Len(device) /\ pc' = "parse" /\ place' = <<1, 0>>
        /\ piece' = FALSE /\ stateParseDescr' = "header" /\ varBuffer' = <<>> /\ countDown' = 2
        /\ isGoodInterface' \in BOOLEAN /\ nEPs' = 0
        /\ UNCHANGED <<device, isMidiSearch, conf, bNumEP, bConfNum, epInfo, confValue>>
    BY <1>3 DEF AskConfiguration, search
  <2>2. device \in Devices /\ Len(device) \in Nat /\ conf \in 1 .. Len(device)
    BY <2>1, DevicesAssumption DEF DevicesAssumption, SearchTypes
  <2>3. SearchTypes'
    <3>1. Len(<<>>) <= VarBuffer
      BY BufferAssumption DEF BufferAssumption
    <3>2. {isMidiSearch, isGoodInterface, piece}' \subseteq BOOLEAN
      BY <2>1 DEF SearchTypes, SearchTypeOK
    <3>3. nEPs' \in 0 .. 2 /\ bNumEP' \in 1 .. 3 /\ bNumEP' = 1
      BY <2>1 DEF SearchTypes, SearchTypeOK
    <3>4. epInfo' = [x \in Direction |-> epInfo'[x]]
      BY <2>1 DEF SearchTypes
    <3> QED BY <2>1, <2>2, <3>1, <3>2, <3>3, <3>4 DEF SearchTypes, SearchTypeOK
  <2>4. /\ Parsed' = 0 /\ ~Clearing' /\ Config' = Config
    BY <2>1 DEF Parsed, Clearing, Config
  <2>5. WellFormed(Config)
    BY <2>2, DevicesAssumption DEF DevicesAssumption, Config
  <2>6. Interfaces(Config) \subseteq 1 .. Len(Config) /\ Len(Config) \in Nat \ {0}
    BY <2>5 DEF WellFormed, Interfaces
  <2>7. Position'
    <3>1. Descriptor(Config[1])
      BY <2>5, <2>6 DEF WellFormed
    <3>2. Config[1].len \in 2 .. 255
      BY <3>1, Lengths
    <3>3. \A l \in 2 .. 255 : 0 \in 0 .. l
      OBVIOUS
    <3>4. 0 \in 0 .. Config[1].len /\ 1 \in 1 .. Len(Config)
      <4>1. \A n \in Nat \ {0} : 1 \in 1 .. n
        OBVIOUS
      <4> QED BY <2>6, <3>2, <3>3, <4>1, Zenon
    <3>5. Current' = Config[1]
      BY <2>1, <2>4 DEF Current
    <3> QED BY <2>1, <2>4, <3>4, <3>5 DEF Position
  <2>8. \A j \in 1 .. Len(Config) : ~(j <= 0) /\ 0 < j
    OBVIOUS
  <2>9. Known'
    BY <2>4, <2>6, <2>8 DEF Known, Recent, Interfaces
  <2>10. Pending'
    <3>1. \A j : BeforeJ(j)'
      BY <2>1, <2>4, <2>6, <2>8 DEF BeforeJ, Recent, Interfaces
    <3>2. \A n, j : Awaited(n, j)' <=> Awaited(n, j)
      BY <2>1 DEF Awaited, Pairs, Midi, Twins, Bulk, Interfaces
    <3>3. \A n, j : conf = n /\ j \in DOMAIN device[n] => Parsed' < j /\ ~(Parsed' >= j)
      <4>1. DOMAIN Config = 1 .. Len(Config) /\ \A j \in 1 .. Len(Config) : ~(0 >= j)
        BY <2>5 DEF WellFormed
      <4> QED BY <2>4, <2>8, <4>1 DEF Config
    <3> QED BY <2>1, <3>1, <3>2, <3>3 DEF Pending
  <2> QED BY <2>1, <2>3, <2>7, <2>9, <2>10 DEF MidiPairTaken
<1>4. CASE RequestFails
  BY <1>4 DEF RequestFails, search, stream, parser, SearchTypes, SearchTypeOK, MidiPairTaken
<1>5. CASE EndOfConfiguration
  BY <1>5, EndStep DEF Parsing, EndOfConfiguration
<1>6. CASE NoConfiguration
  <2>1. /\ pc = "conf" /\ conf > Len(device)
        /\ IF isMidiSearch THEN isMidiSearch' = FALSE /\ conf' = 1 /\ UNCHANGED pc
                           ELSE pc' = "rejected" /\ UNCHANGED <<isMidiSearch, conf>>
        /\ UNCHANGED <<device, bNumEP, bConfNum, epInfo, place, piece, stateParseDescr, varBuffer,
                       countDown, isGoodInterface, nEPs, confValue>>
    BY <1>6 DEF NoConfiguration, stream, parser
  <2>2. device \in Devices /\ Len(device) \in Nat /\ DOMAIN device = 1 .. Len(device)
    BY <2>1, DevicesAssumption DEF DevicesAssumption, SearchTypes
  <2>3. \A n \in DOMAIN device : \A j \in DOMAIN device[n] : ~Awaited(n, j)
    <3>1. \A n \in DOMAIN device : ~(conf <= n)
      BY <2>1, <2>2 DEF SearchTypes
    <3> QED BY <2>1, <3>1 DEF Pending
  <2>4. \A n, j : Awaited(n, j)' <=> Awaited(n, j)
    BY <2>1 DEF Awaited, Pairs, Midi, Twins, Bulk, Interfaces
  <2>5. SearchTypes'
    <3>1. {isMidiSearch, isGoodInterface, piece}' \subseteq BOOLEAN
      BY <2>1 DEF SearchTypes, SearchTypeOK
    <3>2. pc' \in {"conf", "rejected"} /\ (pc' = "conf" => conf' \in 1 .. Len(device) + 1)
      BY <2>1, <2>2
    <3>3. bNumEP = 1 /\ Len(varBuffer) <= VarBuffer /\ nEPs \in 0 .. 2 /\ bNumEP \in 1 .. 3
          /\ stateParseDescr \in {"header", "body"} /\ epInfo = [x \in Direction |-> epInfo[x]]
      BY <2>1 DEF SearchTypes, SearchTypeOK
    <3> QED BY <2>1, <2>2, <3>1, <3>2, <3>3 DEF SearchTypes, SearchTypeOK
  <2>6. Pending' /\ MidiPairTaken'
    BY <2>1, <2>3, <2>4 DEF Pending, MidiPairTaken
  <2>7. pc' # "parse"
    BY <2>1
  <2> QED BY <2>5, <2>6, <2>7
<1>7. CASE Deliver \/ Header \/ HeaderDone \/ Body \/ BodyDone
  <2>1. pc = "parse"
    BY <1>7 DEF Deliver, Header, HeaderDone, Body, BodyDone
  <2>2. Parsing
    BY <2>1 DEF Parsing
  <2>3. Parsing'
    BY <1>7, <2>2, DeliverStep, HeaderStep, HeaderDoneStep, BodyStep, BodyDoneStep
  <2> QED BY <2>3 DEF Parsing, MidiPairTaken
<1> QED BY <1>1, <1>2, <1>3, <1>4, <1>5, <1>6, <1>7 DEF SearchNext

(* The invariant of the search.                                            *)
THEOREM SearchInvariant == SearchSpec => []SearchInv
<1>1. SearchInit => SearchInv
  <2> SUFFICES ASSUME SearchInit PROVE SearchInv
    OBVIOUS
  <2>1. Len(varBuffer) <= VarBuffer
    BY BufferAssumption DEF SearchInit, BufferAssumption
  <2>2. SearchTypeOK
    <3>1. {isMidiSearch, isGoodInterface, piece} \subseteq BOOLEAN
      BY Zenon DEF SearchInit
    <3>2. 0 \in 0 .. 2 /\ 1 \in 1 .. 3
      OBVIOUS
    <3> QED BY <2>1, <3>1, <3>2, Zenon DEF SearchInit, SearchTypeOK
  <2>3. epInfo = [x \in Direction |-> epInfo[x]] /\ pc = "idle"
    BY DEF SearchInit
  <2>4. SearchTypes
    BY <2>2, <2>3 DEF SearchTypes
  <2> QED BY <2>3, <2>4 DEF SearchInv, MidiPairTaken
<1>2. SearchInv /\ UNCHANGED searchVars => SearchInv'
  <2> SUFFICES ASSUME SearchInv, UNCHANGED searchVars PROVE SearchInv'
    OBVIOUS
  <2>1. UNCHANGED <<device, pc, isMidiSearch, conf, bNumEP, bConfNum, epInfo, place, piece,
                    stateParseDescr, varBuffer, countDown, isGoodInterface, nEPs, confValue>>
    BY DEF searchVars, search, stream, parser
  <2>2. SearchTypes' /\ MidiPairTaken'
    <3>1. SearchTypes'
      BY <2>1 DEF SearchInv, SearchTypes, SearchTypeOK
    <3>2. \A n, j : (Awaited(n, j)' <=> Awaited(n, j)) /\ Bulk(device[n], j)' = Bulk(device[n], j)
      BY <2>1 DEF Awaited, Pairs, Midi, Twins, Bulk, Interfaces
    <3> QED BY <2>1, <3>1, <3>2 DEF SearchInv, MidiPairTaken
  <2>3. Config' = Config /\ Current' = Current /\ Parsed' = Parsed /\ Clearing' = Clearing
    BY <2>1 DEF Config, Current, Parsed, Clearing
  <2>4. Position' <=> Position
    BY <2>1, <2>3 DEF Position, AtEnd, Prefix
  <2>5. Known' <=> Known
    BY <2>1, <2>3 DEF Known, Recent, Interfaces
  <2>6. Pending' <=> Pending
    BY <2>1, <2>3 DEF Pending, BeforeJ, FromJ, Got, Recent, Awaited, Pairs, Midi, Twins, Bulk,
                      Interfaces
  <2> QED BY <2>1, <2>2, <2>4, <2>5, <2>6 DEF SearchInv
<1>3. SearchInv /\ [SearchNext]_searchVars => SearchInv'
  BY <1>2, SearchStep
<1> QED BY <1>1, <1>3, PTL DEF SearchSpec

(***************************************************************************)
(* No descriptor is written past the parser's buffer.                      *)
(***************************************************************************)
THEOREM SearchTypeCorrect == SearchSpec => []SearchTypeOK
<1>1. SearchInv => SearchTypeOK
  BY DEF SearchInv, SearchTypes
<1> QED BY <1>1, SearchInvariant, PTL

(***************************************************************************)
(* The MIDI endpoints of a device are found in its first proper interface. *)
(***************************************************************************)
THEOREM PairIsTaken == SearchSpec => []MidiPairTaken
<1>1. SearchInv => MidiPairTaken
  BY DEF SearchInv
<1> QED BY <1>1, SearchInvariant, PTL
=============================================================================
