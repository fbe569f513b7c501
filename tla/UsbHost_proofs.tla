--------------------------- MODULE UsbHost_proofs ---------------------------
(* The safety invariants of UsbHost for any pool, any number of retries and    *)
(* any changes of the bus.                                                     *)
EXTENDS UsbHost, TLAPS

NoneUsed == \A e \in Entry : pool[e] = "free"
OneUsed(who) == \E e \in Entry : /\ pool[e] \in who
                                 /\ \A f \in Entry : f # e => pool[f] = "free"
Pools == [Entry -> {"free", "plain", "driver"}]

(* The driver's address says how much of the pool is in use, and the state of  *)
(* the task whether it polls, as long as no SE1 was seen: the ILLEGAL state is *)
(* the one way to a new device that passes Release by.                         *)
Settled ==
  /\ vbusState # "SE1" /\ usb_task_state # "ILLEGAL" /\ pc # "default"
  /\ bAddress = 0 => NoneUsed
  /\ bAddress = 1 => OneUsed({"plain", "driver"})
  /\ bPollEnable => bAddress = 1 /\ OneUsed({"driver"})
  /\ bPollEnable <=> usb_task_state = "RUNNING"
  /\ bAddress = 1 <=> (bPollEnable \/ pc \in {"setaddr", "configure"})

Configuring == pc \in {"descriptor", "init", "setaddr", "configure", "default"}

Room == \E e \in Entry : pool[e] = "free"

IInv ==
  /\ TypeOK
  /\ Configuring => usb_task_state = "CONFIGURING"
  /\ pc = "default" => bAddress = 1
  /\ bAddress = 0 => Room
  /\ ~glitched => Settled
  /\ line = "J" => dev # NoDevice

-----------------------------------------------------------------------------
(* The pool.                                                                   *)

LEMMA EntryOne == 1 \in Entry
BY PoolAssumption DEF Entry

(* FreeAddress gives back one entry at most, and leaves room if it was called  *)
(* for the address that every entry has.                                       *)
LEMMA Freed ==
  ASSUME pool \in Pools, NEW a \in {0, 1}, FreeAddress(a)
  PROVE  /\ pool' \in Pools
         /\ a = 0 => pool' = pool
         /\ a = 1 => Room'
         /\ a = 1 /\ OneUsed({"plain", "driver"}) => NoneUsed'
<1>1. CASE a = 0 \/ \A e \in Entry : ~Used(e)
  <2>1. pool' = pool
    BY <1>1 DEF FreeAddress
  <2>2. a = 1 => Room'
    BY <2>1, <1>1, EntryOne DEF Used, Room
  <2>3. a = 1 /\ OneUsed({"plain", "driver"}) => NoneUsed'
    BY <2>1, <1>1 DEF OneUsed, Used, NoneUsed
  <2> QED BY <2>1, <2>2, <2>3
<1>2. CASE ~(a = 0 \/ \A e \in Entry : ~Used(e))
  <2>1. PICK x \in Entry : FirstUsed(x) /\ pool' = [pool EXCEPT ![x] = "free"]
    BY <1>2 DEF FreeAddress
  <2>2. pool' \in Pools /\ pool'[x] = "free"
    BY <2>1 DEF Pools
  <2>3. OneUsed({"plain", "driver"}) => NoneUsed'
    <3> SUFFICES ASSUME OneUsed({"plain", "driver"}), NEW f \in Entry
                 PROVE  pool'[f] = "free"
      BY DEF NoneUsed
    <3>1. PICK e \in Entry : pool[e] \in {"plain", "driver"}
                             /\ \A g \in Entry : g # e => pool[g] = "free"
      BY DEF OneUsed
    <3>2. x = e
      BY <3>1, <2>1 DEF FirstUsed, Used
    <3> QED BY <3>1, <3>2, <2>1 DEF Pools
  <2> QED BY <2>2, <2>3, <1>2 DEF Room
<1> QED BY <1>1, <1>2

(* AllocAddress takes one free entry.                                          *)
LEMMA Allocated ==
  ASSUME pool \in Pools, AllocAddress
  PROVE  /\ pool' \in Pools
         /\ NoneUsed => OneUsed({"plain", "driver"})'
<1>1. PICK x \in Entry : pool' = [pool EXCEPT ![x] = "plain"]
  BY DEF AllocAddress
<1>2. pool' \in Pools /\ pool'[x] = "plain" /\ \A f \in Entry : f # x => pool'[f] = pool[f]
  BY <1>1 DEF Pools
<1> QED BY <1>2 DEF NoneUsed, OneUsed

(* setEpInfoEntry hangs the driver's table into an entry that was taken.       *)
LEMMA EndpointsSet ==
  ASSUME pool \in Pools, SetEpInfoEntry
  PROVE  /\ pool' \in Pools
         /\ OneUsed({"plain", "driver"}) => OneUsed({"driver"})' /\ OneUsed({"plain", "driver"})'
         /\ \A e \in Entry : pool[e] = "free" => pool'[e] = "free"
<1>1. PICK x \in Entry : FirstUsed(x) /\ pool' = [pool EXCEPT ![x] = "driver"]
  BY DEF SetEpInfoEntry
<1>2. pool' \in Pools /\ pool'[x] = "driver" /\ \A f \in Entry : f # x => pool'[f] = pool[f]
  BY <1>1 DEF Pools
<1>3. pool[x] # "free"
  BY <1>1 DEF FirstUsed, Used
<1>4. ASSUME OneUsed({"plain", "driver"})
      PROVE  OneUsed({"driver"})' /\ OneUsed({"plain", "driver"})'
  <2>1. PICK e \in Entry : \A g \in Entry : g # e => pool[g] = "free"
    BY <1>4 DEF OneUsed
  <2>2. x = e
    BY <2>1, <1>3
  <2> QED BY <2>1, <2>2, <1>2 DEF OneUsed
<1> QED BY <1>2, <1>3, <1>4

(* DefaultAddressing whose SET_ADDRESS fails takes an entry and frees one.     *)
LEMMA Swapped ==
  ASSUME pool \in Pools, NEW e \in Entry, NEW f \in Entry,
         pool' = [[pool EXCEPT ![e] = "plain"] EXCEPT ![f] = "free"]
  PROVE  pool' \in Pools
BY DEF Pools

-----------------------------------------------------------------------------
(* Types, taken apart.                                                         *)
LEMMA TypeFacts ==
  ASSUME TypeOK
  PROVE  /\ line \in {"SE0", "J", "SE1"} /\ vbusState \in {"SE0", "J", "SE1"}
         /\ condet \in BOOLEAN /\ frame \in BOOLEAN /\ sofka \in BOOLEAN
         /\ busrst \in BOOLEAN /\ expired \in BOOLEAN /\ bPollEnable \in BOOLEAN
         /\ glitched \in BOOLEAN /\ pool \in Pools /\ bAddress \in {0, 1}
         /\ usb_task_state \in States
BY DEF TypeOK, Pools

LEMMA TypeMade ==
  ASSUME line \in {"SE0", "J", "SE1"}, vbusState \in {"SE0", "J", "SE1"},
         dev \in [kind : Kind, addr : {0, 1}, conf : BOOLEAN] \cup {NoDevice},
         changes \in 0 .. MaxChanges,
         condet \in BOOLEAN, frame \in BOOLEAN, sofka \in BOOLEAN,
         busrst \in BOOLEAN, expired \in BOOLEAN, bPollEnable \in BOOLEAN,
         glitched \in BOOLEAN, usb_task_state \in States,
         pc \in {"irq", "clear", "task", "descriptor", "init", "setaddr", "configure", "default"},
         retries \in 0 .. MaxRetries, pool \in Pools, bAddress \in {0, 1},
         seen \in Kind \cup {"none"}
  PROVE  TypeOK
BY DEF TypeOK, Pools

(* A reset leaves a device what it was; so does a new address.                 *)
Device == [kind : Kind, addr : {0, 1}, conf : BOOLEAN] \cup {NoDevice}
LEMMA Devices ==
  ASSUME NEW d \in Device
  PROVE  /\ Reset(d) \in Device
         /\ d.addr \in {0, 1}
         /\ d # NoDevice => [d EXCEPT !.addr = 1] \in Device
         /\ d # NoDevice => [d EXCEPT !.conf = TRUE] \in Device
<1>1. CASE d = NoDevice
  <2>1. d \in [kind : {"none"}, addr : {0}, conf : {FALSE}]
    BY <1>1 DEF NoDevice
  <2>2. Reset(d) = d /\ d.addr = 0
    BY <2>1 DEF Reset
  <2> QED BY <1>1, <2>2 DEF Device
<1>2. CASE d \in [kind : Kind, addr : {0, 1}, conf : BOOLEAN]
  BY <1>2 DEF Reset, Device
<1> QED BY <1>1, <1>2 DEF Device

-----------------------------------------------------------------------------
LEMMA InitHolds == Init => IInv
<1> SUFFICES ASSUME Init PROVE IInv
  OBVIOUS
<1>1. line \in {"SE0", "J"} /\ dev \in Device /\ (line = "J" => dev # NoDevice)
  <2>1. CASE line = "SE0" /\ dev = NoDevice
    BY <2>1 DEF Device
  <2>2. CASE line = "J" /\ \E k \in Kind : dev = Fresh(k)
    <3>1. PICK k \in Kind : dev = Fresh(k)
      BY <2>2
    <3>2. Fresh(k) \in Device /\ Fresh(k) # NoDevice
      <4>1. Fresh(k).kind # NoDevice.kind
        BY DEF Fresh, NoDevice, Kind
      <4> QED BY <4>1 DEF Fresh, Device
    <3> QED BY <2>2, <3>1, <3>2
  <2> QED BY <2>1, <2>2 DEF Init
<1>2. pool \in Pools /\ NoneUsed /\ Room
  BY EntryOne DEF Init, Pools, NoneUsed, Room
<1>3. TypeOK
  <2>1. 0 \in 0 .. MaxChanges /\ 0 \in 0 .. MaxRetries
    BY ChangesAssumption, RetryAssumption
  <2> QED BY <1>1, <1>2, <2>1, TypeMade DEF Init, Device, States, Detached
<1> QED BY <1>1, <1>2, <1>3 DEF Init, IInv, Settled, Configuring

(* The cable, the chip and the clock move nothing that the invariant is about  *)
(* but the device itself.                                                      *)
LEMMA OutsideStep == IInv /\ (Cable \/ StartFrame \/ EndReset \/ Expire) => IInv'
<1> SUFFICES ASSUME IInv, Cable \/ StartFrame \/ EndReset \/ Expire PROVE IInv'
  OBVIOUS
<1>1. UNCHANGED <<vbusState, usb_task_state, pc, retries, pool, bAddress, bPollEnable,
                  seen, glitched>>
  BY DEF Cable, Plug, Unplug, Glitch, Recover, Change, StartFrame, EndReset, Expire,
         driver, task, ghost
<1>2. TypeOK
  BY DEF IInv
<1>3. /\ line' \in {"SE0", "J", "SE1"} /\ dev' \in Device /\ changes' \in 0 .. MaxChanges
      /\ (line' = "J" => dev' # NoDevice)
  <2>1. CASE Cable
    <3>1. changes' \in 0 .. MaxChanges
      BY <2>1, <1>2, ChangesAssumption
      DEF TypeOK, Cable, Plug, Unplug, Glitch, Recover, Change
    <3>2. CASE Plug
      BY <3>1, <3>2 DEF Plug, Change, Fresh, Kind, NoDevice, Device
    <3>3. CASE Unplug \/ Glitch \/ Recover
      BY <3>1, <3>3, <1>2 DEF Unplug, Glitch, Recover, Change, Device, TypeOK
    <3> QED BY <2>1, <3>2, <3>3 DEF Cable
  <2>2. CASE StartFrame \/ EndReset \/ Expire
    BY <2>2, <1>2 DEF IInv, TypeOK, Device, StartFrame, EndReset, Expire, cable
  <2> QED BY <2>1, <2>2
<1>4. /\ condet' \in BOOLEAN /\ frame' \in BOOLEAN /\ sofka' \in BOOLEAN
      /\ busrst' \in BOOLEAN /\ expired' \in BOOLEAN
  BY <1>2, TypeFacts
  DEF Cable, Plug, Unplug, Glitch, Recover, Change, StartFrame, EndReset, Expire, chip, task
<1>5. TypeOK'
  BY <1>1, <1>2, <1>3, <1>4 DEF TypeOK, Device
<1> QED BY <1>1, <1>3, <1>5 DEF IInv, Settled, Configuring, Room, NoneUsed, OneUsed

(* Reading HIRQ and probing the bus: SE1 is seen and remembered together.      *)
LEMMA IrqStep == IInv /\ (Irq \/ ClearIrq) => IInv'
<1> SUFFICES ASSUME IInv, Irq \/ ClearIrq PROVE IInv'
  OBVIOUS
<1>1. UNCHANGED <<line, dev, changes, frame, busrst, usb_task_state, expired, retries, pool,
                  bAddress, bPollEnable, seen>> /\ pc' \in {"clear", "task"}
      /\ pc \in {"irq", "clear"}
  BY DEF Irq, ClearIrq, cable, driver, ghost
<1>2. TypeOK
  BY DEF IInv
<1>3. /\ vbusState' \in {"SE0", "J", "SE1"} /\ sofka' \in BOOLEAN /\ glitched' \in BOOLEAN
      /\ condet' \in BOOLEAN
      /\ ~glitched' => ~glitched /\ (vbusState' = vbusState \/ vbusState' # "SE1")
  <2>1. CASE Irq /\ condet
    <3>1. /\ vbusState' = line /\ condet' = condet
          /\ sofka' = (IF line = "J" THEN TRUE ELSE IF line = "SE0" THEN FALSE ELSE sofka)
          /\ glitched' = (glitched \/ line = "SE1")
      BY <2>1 DEF Irq, Busprobe
    <3>2. sofka' \in BOOLEAN /\ condet' \in BOOLEAN
      BY <1>2, <3>1, TypeFacts
    <3>3. ~glitched' => ~glitched /\ vbusState' # "SE1"
      BY <3>1
    <3> QED BY <1>2, <3>1, <3>2, <3>3, TypeFacts
  <2>2. CASE Irq /\ ~condet
    BY <2>2, <1>2, TypeFacts DEF Irq
  <2>3. CASE ClearIrq
    BY <2>3, <1>2, TypeFacts DEF ClearIrq, ghost
  <2> QED BY <2>1, <2>2, <2>3
<1>4. TypeOK'
  BY <1>1, <1>2, <1>3 DEF TypeOK
<1>5. ~glitched' => Settled'
  BY <1>1, <1>3 DEF IInv, Settled, NoneUsed, OneUsed
<1> QED BY <1>1, <1>4, <1>5 DEF IInv, Configuring, Room

(* Release leaves no address, and nothing in the pool if no SE1 was seen.      *)
LEMMA Released ==
  ASSUME IInv, Release
  PROVE  /\ bAddress' = 0 /\ bPollEnable' = FALSE /\ pool' \in Pools /\ Room'
         /\ ~glitched => NoneUsed'
<1>1. bAddress \in {0, 1} /\ pool \in Pools
  BY TypeFacts DEF IInv
<1>2. FreeAddress(bAddress)
  BY DEF Release
<1>3. /\ pool' \in Pools
      /\ bAddress = 0 => pool' = pool
      /\ bAddress = 1 => Room'
      /\ bAddress = 1 /\ OneUsed({"plain", "driver"}) => NoneUsed'
  BY <1>1, <1>2, Freed
<1>4. CASE bAddress = 0
  BY <1>3, <1>4 DEF Release, IInv, Settled, Room, NoneUsed
<1>5. CASE bAddress = 1
  BY <1>3, <1>5 DEF Release, IInv, Settled
<1> QED BY <1>1, <1>4, <1>5

(* The switch of USB::Task.                                                    *)
LEMMA SwitchStep == IInv /\ TaskStep => IInv'
<1> SUFFICES ASSUME IInv, TaskStep PROVE IInv'
  OBVIOUS
<1>0. TypeOK
  BY DEF IInv
<1>1. /\ pc = "task" /\ UNCHANGED <<line, changes, condet, frame, vbusState, seen, glitched>>
  BY DEF TaskStep, ghost
<1>2. ~glitched => VbusSwitch # "ILLEGAL"
  BY DEF IInv, Settled, VbusSwitch
<1>3. VbusSwitch = "RUNNING" => usb_task_state = "RUNNING"
  BY DEF VbusSwitch
<1>7. VbusSwitch \in {"WAIT_RESET_COMPLETE", "WAIT_SOF", "WAIT_RESET"} =>
        usb_task_state = VbusSwitch
  BY DEF VbusSwitch
<1>4. dev' \in Device /\ (line' = "J" => dev' # NoDevice)
  <2>1. dev \in Device /\ (line = "J" => dev # NoDevice) /\ Reset(dev) \in Device
    BY <1>0, Devices DEF IInv, TypeOK, Device
  <2>2. Reset(dev) = NoDevice => dev = NoDevice
    <3>1. CASE dev = NoDevice
      BY <3>1
    <3>2. CASE dev \in [kind : Kind, addr : {0, 1}, conf : BOOLEAN]
      <4>1. Reset(dev).kind # NoDevice.kind
        BY <3>2 DEF Reset, NoDevice, Kind
      <4> QED BY <4>1
    <3> QED BY <2>1, <3>1, <3>2 DEF Device
  <2>3. dev' \in {dev, Reset(dev)}
    BY DEF TaskStep, InitializeState, SitState, SettleState, ResetCompleteState, WaitSofState,
           WaitResetState
  <2> QED BY <1>1, <2>1, <2>2, <2>3
<1>5. CASE InitializeState
  <2>1. UNCHANGED <<busrst, sofka, expired, retries>> /\ pc' = "irq"
        /\ usb_task_state' = "WAIT_FOR_DEVICE"
    BY <1>5 DEF InitializeState
  <2>2. /\ bAddress' = 0 /\ bPollEnable' = FALSE /\ pool' \in Pools /\ Room'
        /\ ~glitched => NoneUsed'
    BY <1>5, Released DEF InitializeState
  <2>3. TypeOK'
    BY <1>0, <1>1, <1>4, <2>1, <2>2 DEF TypeOK, Pools, Device, States, Detached
  <2> QED BY <1>1, <1>4, <2>1, <2>2, <2>3 DEF IInv, Configuring, Settled
<1>6. CASE ~InitializeState
  <2>1. UNCHANGED <<retries, pool, bAddress, bPollEnable>>
    BY <1>6 DEF TaskStep, SitState, SettleState, ResetCompleteState, WaitSofState,
                WaitResetState, driver
  <2>2. /\ usb_task_state' \in States
        /\ ~glitched => usb_task_state' # "ILLEGAL"
        /\ usb_task_state' = "RUNNING" => usb_task_state = "RUNNING"
        /\ pc' \in {"irq", "descriptor"}
        /\ pc' = "descriptor" => usb_task_state' = "CONFIGURING"
    BY <1>2, <1>3, <1>6, <1>7
    DEF TaskStep, SitState, SettleState, ResetCompleteState, WaitSofState,
        WaitResetState, States, Detached
  <2>3. usb_task_state = "RUNNING" =>
          usb_task_state' = "RUNNING" \/ vbusState \in {"SE0", "SE1"}
    BY <1>6 DEF TaskStep, SitState, SettleState, ResetCompleteState, WaitSofState,
                WaitResetState, VbusSwitch, Detached
  <2>4. usb_task_state = "RUNNING" /\ vbusState = "SE0" => FALSE
    BY <1>6 DEF TaskStep, SitState, SettleState, ResetCompleteState, WaitSofState,
                WaitResetState, VbusSwitch, Detached
  <2>5. busrst' \in BOOLEAN /\ sofka' \in BOOLEAN /\ expired' \in BOOLEAN
    <3>1. busrst \in BOOLEAN /\ sofka \in BOOLEAN /\ expired \in BOOLEAN
      BY <1>0, TypeFacts
    <3>2. busrst' \in {busrst, TRUE} /\ sofka' \in {sofka, TRUE}
      BY <1>6 DEF TaskStep, SitState, SettleState, ResetCompleteState, WaitSofState,
                  WaitResetState
    <3>3. expired' \in BOOLEAN
      <4>1. CASE SettleState
        BY <3>1, <4>1 DEF SettleState
      <4>2. CASE SitState \/ ResetCompleteState \/ WaitSofState \/ WaitResetState
        BY <3>1, <4>2 DEF SitState, ResetCompleteState, WaitSofState, WaitResetState
      <4> QED BY <1>6, <4>1, <4>2 DEF TaskStep
    <3> QED BY <3>1, <3>2, <3>3
  <2>6. TypeOK'
    BY <1>0, <1>1, <1>4, <2>1, <2>2, <2>5 DEF TypeOK, Device
  <2>7. ~glitched' => Settled'
    <3> SUFFICES ASSUME ~glitched' PROVE Settled'
      OBVIOUS
    <3>1. Settled
      BY <1>1 DEF IInv
    <3>2. usb_task_state' = "RUNNING" <=> usb_task_state = "RUNNING"
      BY <2>2, <2>3, <2>4, <3>1, <1>0 DEF Settled, TypeOK
    <3> QED BY <1>1, <2>1, <2>2, <3>1, <3>2 DEF Settled, NoneUsed, OneUsed
  <2> QED BY <1>1, <1>4, <2>1, <2>2, <2>6, <2>7 DEF IInv, Configuring, Room
<1> QED BY <1>5, <1>6

-----------------------------------------------------------------------------
(* What the steps of AttemptConfig do to the device: it stays one.             *)
LEMMA DeviceKept ==
  ASSUME dev \in Device, line = "J" => dev # NoDevice,
         \/ dev' \in {dev, Reset(dev)}
         \/ line = "J" /\ dev' \in {[dev EXCEPT !.addr = 1], [dev EXCEPT !.conf = TRUE]}
  PROVE  dev' \in Device /\ (line = "J" => dev' # NoDevice)
<1>1. CASE dev = NoDevice
  <2>1. dev' = dev \/ dev' = Reset(dev)
    BY <1>1
  <2>2. line # "J" /\ dev' \in Device
    BY <1>1, <2>1, Devices
  <2> QED BY <2>2
<1>2. CASE dev # NoDevice
  <2>1. dev \in [kind : Kind, addr : {0, 1}, conf : BOOLEAN]
    BY <1>2 DEF Device
  <2>2. dev' \in [kind : Kind, addr : {0, 1}, conf : BOOLEAN]
    BY <2>1 DEF Reset
  <2>3. dev'.kind # NoDevice.kind
    BY <2>2 DEF NoDevice, Kind
  <2> QED BY <2>2, <2>3 DEF Device
<1> QED BY <1>1, <1>2

LEMMA GivenUp ==
  ASSUME GiveUpOrRetry, retries \in 0 .. MaxRetries
  PROVE  /\ retries' \in 0 .. MaxRetries
         /\ dev' \in {dev, Reset(dev)}
         /\ \/ pc' = "init" /\ usb_task_state' = usb_task_state
            \/ pc' = "irq" /\ usb_task_state' = "ERROR"
BY RetryAssumption DEF GiveUpOrRetry, Finish

(* Every step of the configuration is put together from what it does to the    *)
(* task, to the pool and to the driver.                                        *)
LEMMA Assembled ==
  ASSUME IInv, Configuring,
         UNCHANGED <<line, changes, chip, vbusState, expired, glitched>>,
         dev' \in Device, line = "J" => dev' # NoDevice,
         retries' \in 0 .. MaxRetries,
         seen' \in Kind \cup {"none"},
         pool' \in Pools, bAddress' \in {0, 1}, bPollEnable' \in BOOLEAN,
         \/ Configuring' /\ usb_task_state' = usb_task_state
         \/ pc' = "irq" /\ usb_task_state' \in {"ERROR", "RUNNING"},
         pc' = "default" => bAddress' = 1,
         bAddress' = 0 => Room',
         ~glitched => Settled'
  PROVE  IInv'
<1>1. TypeOK'
  <2>1. usb_task_state' \in States
    BY DEF IInv, TypeOK, States
  <2>2. pc' \in {"irq", "clear", "task", "descriptor", "init", "setaddr", "configure",
                 "default"}
    BY DEF Configuring
  <2> QED BY <2>1, <2>2 DEF IInv, TypeOK, Pools, Device, chip
<1>2. Configuring' => usb_task_state' = "CONFIGURING"
  BY DEF IInv, Configuring
<1> QED BY <1>1, <1>2 DEF IInv

LEMMA ConfigStepHolds == IInv /\ ConfigStep => IInv'
<1> SUFFICES ASSUME IInv, ConfigStep PROVE IInv'
  OBVIOUS
<1>1. /\ dev \in Device /\ (line = "J" => dev # NoDevice)
      /\ retries \in 0 .. MaxRetries /\ 0 \in 0 .. MaxRetries
      /\ seen \in Kind \cup {"none"}
      /\ pool \in Pools /\ bAddress \in {0, 1} /\ bPollEnable \in BOOLEAN
      /\ bAddress = 0 => Room
  BY RetryAssumption, TypeFacts DEF IInv, TypeOK, Device
<1>2. /\ Configuring
      /\ UNCHANGED <<line, changes, chip, vbusState, expired, glitched>>
  BY DEF ConfigStep, GetDescriptor, InitAddress, SetAddr, Configure, DefaultAddressing,
         Configuring
<1>3. ~glitched => /\ vbusState # "SE1" /\ vbusState' # "SE1"
                   /\ ~bPollEnable /\ pc # "default"
                   /\ (bAddress = 0 <=> pc \in {"descriptor", "init"})
                   /\ (bAddress = 0 => NoneUsed)
                   /\ (bAddress = 1 => OneUsed({"plain", "driver"}))
  <2>1. usb_task_state = "CONFIGURING"
    BY <1>2 DEF IInv
  <2> QED BY <2>1, <1>1, <1>2 DEF IInv, Settled, Configuring
<1>4. usb_task_state = "CONFIGURING"
  BY <1>2 DEF IInv
<1>5. CASE GetDescriptor
  <2>1. /\ UNCHANGED <<dev, pool, bAddress, bPollEnable>>
        /\ retries' \in 0 .. MaxRetries
        /\ pc = "descriptor"
    BY <1>1, <1>5 DEF GetDescriptor, driver
  <2>2. dev' \in Device /\ (line = "J" => dev' # NoDevice)
    BY <1>1, <2>1
  <2>3. seen' \in Kind \cup {"none"}
    <3>1. CASE UNCHANGED seen
      BY <1>1, <3>1
    <3>2. CASE Answers(0) /\ seen' = dev.kind
      BY <1>1, <3>2 DEF Answers, Device
    <3> QED BY <1>5, <3>1, <3>2 DEF GetDescriptor
  <2>4. \/ /\ pc' = IF bAddress # 0 THEN "default" ELSE "init"
           /\ usb_task_state' = usb_task_state
        \/ pc' = "irq" /\ usb_task_state' = "ERROR"
    BY <1>5 DEF GetDescriptor, Finish
  <2>5. /\ pc' = "default" => bAddress' = 1
        /\ \/ Configuring' /\ usb_task_state' = usb_task_state
           \/ pc' = "irq" /\ usb_task_state' \in {"ERROR", "RUNNING"}
    BY <1>1, <2>1, <2>4 DEF Configuring
  <2>6. bAddress' = 0 => Room'
    BY <1>1, <2>1 DEF Room
  <2>7. ~glitched => Settled'
    BY <1>1, <1>3, <1>4, <2>1, <2>4 DEF Settled, NoneUsed, OneUsed
  <2> QED BY <1>1, <1>2, <2>1, <2>2, <2>3, <2>5, <2>6, <2>7, Assembled
<1>6. CASE InitAddress
  <2>0. pc = "init" /\ seen' = seen
    BY <1>6 DEF InitAddress
  <2>1. CASE /\ AllocAddress /\ bAddress' = 1 /\ pc' = "setaddr"
             /\ UNCHANGED <<dev, retries, usb_task_state, bPollEnable>>
    <3>1. pool' \in Pools /\ (NoneUsed => OneUsed({"plain", "driver"})')
      BY <1>1, <2>1, Allocated
    <3>2. ~glitched => Settled'
      BY <1>1, <1>3, <1>4, <2>0, <2>1, <3>1 DEF Settled
    <3>3. Configuring'
      BY <2>1 DEF Configuring
    <3> QED BY <1>1, <1>2, <2>0, <2>1, <3>1, <3>2, <3>3, Assembled
  <2>2. CASE /\ PoolFull /\ Finish("ERROR") /\ dev' = Reset(dev)
             /\ UNCHANGED <<retries, driver>>
    <3>1. /\ UNCHANGED <<retries, pool, bAddress, bPollEnable>>
          /\ pc' = "irq" /\ usb_task_state' = "ERROR"
      BY <2>2 DEF Finish, driver
    <3>2. dev' \in Device /\ (line = "J" => dev' # NoDevice)
      BY <1>1, <2>2, DeviceKept
    <3>3. ~glitched => Settled'
      BY <1>1, <1>3, <2>0, <3>1 DEF Settled, NoneUsed, OneUsed
    <3>4. bAddress' = 0 => Room'
      BY <1>1, <3>1 DEF Room
    <3> QED BY <1>1, <1>2, <2>0, <3>1, <3>2, <3>3, <3>4, Assembled
  <2>3. CASE Release /\ GiveUpOrRetry
    <3>1. /\ bAddress' = 0 /\ bPollEnable' = FALSE /\ pool' \in Pools /\ Room'
          /\ ~glitched => NoneUsed'
      BY <2>3, Released
    <3>2. /\ retries' \in 0 .. MaxRetries
          /\ dev' \in {dev, Reset(dev)}
          /\ \/ pc' = "init" /\ usb_task_state' = usb_task_state
             \/ pc' = "irq" /\ usb_task_state' = "ERROR"
      BY <1>1, <2>3, GivenUp
    <3>3. dev' \in Device /\ (line = "J" => dev' # NoDevice)
      BY <1>1, <3>2, DeviceKept
    <3>4. ~glitched => Settled'
      BY <1>3, <1>4, <3>1, <3>2 DEF Settled
    <3>5. /\ pc' # "default"
          /\ \/ Configuring' /\ usb_task_state' = usb_task_state
             \/ pc' = "irq" /\ usb_task_state' \in {"ERROR", "RUNNING"}
      BY <3>2 DEF Configuring
    <3> QED BY <1>1, <1>2, <2>0, <3>1, <3>2, <3>3, <3>4, <3>5, Assembled
  <2> QED BY <1>6, <2>1, <2>2, <2>3 DEF InitAddress
<1>7. CASE SetAddr
  <2>0. pc = "setaddr" /\ seen' = seen
    BY <1>7 DEF SetAddr
  <2>1. CASE /\ Answers(0) /\ dev' = [dev EXCEPT !.addr = 1] /\ pc' = "configure"
             /\ UNCHANGED <<usb_task_state, retries, driver>>
    <3>1. UNCHANGED <<pool, bAddress, bPollEnable>>
      BY <2>1 DEF driver
    <3>2. dev' \in Device /\ (line = "J" => dev' # NoDevice)
      BY <1>1, <2>1, DeviceKept DEF Answers
    <3>3. ~glitched => Settled'
      BY <1>1, <1>3, <1>4, <2>0, <2>1, <3>1 DEF Settled, NoneUsed, OneUsed
    <3>4. Configuring' /\ (bAddress' = 0 => Room')
      BY <1>1, <2>1, <3>1 DEF Configuring, Room
    <3> QED BY <1>1, <1>2, <2>0, <2>1, <3>1, <3>2, <3>3, <3>4, Assembled
  <2>2. CASE /\ FreeAddress(bAddress) /\ bAddress' = 0 /\ UNCHANGED bPollEnable
             /\ \/ GiveUpOrRetry
                \/ /\ Answers(0) /\ retries < MaxRetries
                   /\ dev' = [dev EXCEPT !.addr = 1]
                   /\ retries' = retries + 1 /\ pc' = "init"
                   /\ UNCHANGED usb_task_state
    <3>1. /\ pool' \in Pools
          /\ bAddress = 0 => pool' = pool
          /\ bAddress = 1 => Room'
          /\ bAddress = 1 /\ OneUsed({"plain", "driver"}) => NoneUsed'
      BY <1>1, <2>2, Freed
    <3>2. Room'
      BY <1>1, <3>1 DEF Room
    <3>3. /\ retries' \in 0 .. MaxRetries
          /\ \/ dev' \in {dev, Reset(dev)}
             \/ line = "J" /\ dev' = [dev EXCEPT !.addr = 1]
          /\ \/ pc' = "init" /\ usb_task_state' = usb_task_state
             \/ pc' = "irq" /\ usb_task_state' = "ERROR"
      <4>1. CASE GiveUpOrRetry
        BY <1>1, <4>1, GivenUp
      <4>2. CASE /\ Answers(0) /\ retries < MaxRetries
                 /\ dev' = [dev EXCEPT !.addr = 1]
                 /\ retries' = retries + 1 /\ pc' = "init"
                 /\ UNCHANGED usb_task_state
        BY <1>1, <4>2, RetryAssumption DEF Answers
      <4> QED BY <2>2, <4>1, <4>2
    <3>4. dev' \in Device /\ (line = "J" => dev' # NoDevice)
      BY <1>1, <3>3, DeviceKept
    <3>5. ~glitched => NoneUsed'
      BY <1>1, <1>3, <2>0, <3>1
    <3>6. ~glitched => Settled'
      BY <1>3, <1>4, <2>2, <3>3, <3>5 DEF Settled
    <3>7. /\ pc' # "default" /\ bAddress' \in {0, 1} /\ bPollEnable' \in BOOLEAN
          /\ \/ Configuring' /\ usb_task_state' = usb_task_state
             \/ pc' = "irq" /\ usb_task_state' \in {"ERROR", "RUNNING"}
      BY <1>1, <2>2, <3>3 DEF Configuring
    <3> QED BY <1>1, <1>2, <2>0, <3>1, <3>2, <3>3, <3>4, <3>6, <3>7, Assembled
  <2> QED BY <1>7, <2>1, <2>2 DEF SetAddr
<1>8. CASE Configure
  <2>0. pc = "configure" /\ seen' = seen
    BY <1>8 DEF Configure
  <2>1. CASE /\ Answers(1) /\ SetEpInfoEntry /\ bPollEnable' = TRUE
             /\ dev' = [dev EXCEPT !.conf = TRUE] /\ Finish("RUNNING")
             /\ UNCHANGED <<retries, bAddress>>
    <3>1. /\ pool' \in Pools
          /\ OneUsed({"plain", "driver"}) => OneUsed({"driver"})' /\ OneUsed({"plain", "driver"})'
          /\ \A e \in Entry : pool[e] = "free" => pool'[e] = "free"
      BY <1>1, <2>1, EndpointsSet
    <3>2. dev' \in Device /\ (line = "J" => dev' # NoDevice)
      BY <1>1, <2>1, DeviceKept DEF Answers
    <3>3. pc' = "irq" /\ usb_task_state' = "RUNNING"
      BY <2>1 DEF Finish
    <3>4. ~glitched => Settled'
      BY <1>1, <1>3, <2>0, <2>1, <3>1, <3>3 DEF Settled
    <3>5. bAddress' = 0 => Room'
      BY <1>1, <2>1, <3>1 DEF Room
    <3> QED BY <1>1, <1>2, <2>0, <2>1, <3>1, <3>2, <3>3, <3>4, <3>5, Assembled
  <2>2. CASE Release /\ GiveUpOrRetry
    <3>1. /\ bAddress' = 0 /\ bPollEnable' = FALSE /\ pool' \in Pools /\ Room'
          /\ ~glitched => NoneUsed'
      BY <2>2, Released
    <3>2. /\ retries' \in 0 .. MaxRetries
          /\ dev' \in {dev, Reset(dev)}
          /\ \/ pc' = "init" /\ usb_task_state' = usb_task_state
             \/ pc' = "irq" /\ usb_task_state' = "ERROR"
      BY <1>1, <2>2, GivenUp
    <3>3. dev' \in Device /\ (line = "J" => dev' # NoDevice)
      BY <1>1, <3>2, DeviceKept
    <3>4. ~glitched => Settled'
      BY <1>3, <1>4, <3>1, <3>2 DEF Settled
    <3>5. /\ pc' # "default"
          /\ \/ Configuring' /\ usb_task_state' = usb_task_state
             \/ pc' = "irq" /\ usb_task_state' \in {"ERROR", "RUNNING"}
      BY <3>2 DEF Configuring
    <3> QED BY <1>1, <1>2, <2>0, <3>1, <3>2, <3>3, <3>4, <3>5, Assembled
  <2> QED BY <1>8, <2>1, <2>2 DEF Configure
<1>9. CASE DefaultAddressing
  <2>1. pc = "default" /\ bAddress = 1 /\ glitched
    BY <1>3, <1>9 DEF DefaultAddressing, IInv
  <2>2. /\ UNCHANGED <<retries, seen, bAddress, bPollEnable>>
        /\ pc' = "irq" /\ usb_task_state' \in {"ERROR", "RUNNING"}
    BY <1>9 DEF DefaultAddressing, Finish, driver
  <2>3. pool' \in Pools
    <3>1. CASE UNCHANGED pool
      BY <1>1, <3>1
    <3>2. CASE AllocAddress
      BY <1>1, <3>2, Allocated
    <3>3. CASE \E e, f \in Entry :
                 pool' = [[pool EXCEPT ![e] = "plain"] EXCEPT ![f] = "free"]
      BY <1>1, <3>3, Swapped
    <3> QED BY <1>9, <3>1, <3>2, <3>3 DEF DefaultAddressing, driver
  <2>4. \/ dev' \in {dev, Reset(dev)}
        \/ line = "J" /\ dev' = [dev EXCEPT !.addr = 1]
    BY <1>9 DEF DefaultAddressing, Answers
  <2>5. dev' \in Device /\ (line = "J" => dev' # NoDevice)
    BY <1>1, <2>4, DeviceKept
  <2> QED BY <1>1, <1>2, <2>1, <2>2, <2>3, <2>5, Assembled
<1> QED BY <1>5, <1>6, <1>7, <1>8, <1>9 DEF ConfigStep

-----------------------------------------------------------------------------
(* The invariant.                                                              *)
THEOREM InvHolds == Spec => []IInv
<1>1. IInv /\ [Next]_vars => IInv'
  <2> SUFFICES ASSUME IInv, [Next]_vars PROVE IInv'
    OBVIOUS
  <2>1. CASE UNCHANGED vars
    BY <2>1 DEF vars, IInv, TypeOK, Configuring, Room, Settled, NoneUsed, OneUsed
  <2>2. CASE Next
    BY <2>2, OutsideStep, IrqStep, SwitchStep, ConfigStepHolds DEF Next, Thread
  <2> QED BY <2>1, <2>2
<1> QED BY <1>1, InitHolds, PTL DEF Spec

(* Type correctness.                                                           *)
THEOREM TypeCorrect == Spec => []TypeOK
<1>1. IInv => TypeOK
  BY DEF IInv
<1> QED BY <1>1, InvHolds, PTL

(* Until an SE1 is seen, the address that USBH_MIDI polls leads through the    *)
(* pool to its own endpoint table and to no other entry (usbh_midi.cpp and     *)
(* Usb.cpp:44), whatever was plugged, pulled, retried and given up before.     *)
THEOREM PolledThroughOwn == Spec => []PolledThroughOwnEntry
<1>1. IInv => PolledThroughOwnEntry
  <2> SUFFICES ASSUME IInv, bPollEnable, ~glitched
               PROVE  /\ bAddress = 1
                      /\ \E e \in Entry : UsedEntries = {e} /\ pool[e] = "driver"
    BY DEF PolledThroughOwnEntry
  <2>1. bAddress = 1 /\ OneUsed({"driver"})
    BY DEF IInv, Settled
  <2>2. PICK e \in Entry : pool[e] = "driver" /\ \A f \in Entry : f # e => pool[f] = "free"
    BY <2>1 DEF OneUsed
  <2>3. UsedEntries = {e}
    BY <2>2 DEF UsedEntries, Used
  <2> QED BY <2>1, <2>2, <2>3
<1> QED BY <1>1, InvHolds, PTL

(* A driver without an address finds room in the pool, however many entries    *)
(* were leaked (address.h:210): the ones that leak are taken while it has one. *)
THEOREM RoomForTheDriver == Spec => []DriverFindsRoom
<1>1. IInv => DriverFindsRoom
  BY DEF IInv, DriverFindsRoom, Room, PoolFull, Used
<1> QED BY <1>1, InvHolds, PTL

(* USB_STATE_RUNNING means that the driver polls, as long as no SE1 was seen   *)
(* (Usb.cpp:546).                                                              *)
THEOREM RunningMeansDriver == Spec => []RunningHasDriver
<1>1. IInv => RunningHasDriver
  BY DEF IInv, Settled, RunningHasDriver
<1> QED BY <1>1, InvHolds, PTL
=============================================================================
