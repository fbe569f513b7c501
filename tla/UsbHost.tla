------------------------------- MODULE UsbHost -------------------------------
(***************************************************************************)
(* The USB host: the MAX3421E interrupt handling (usbhost.cpp), the USB    *)
(* task state machine and its enumeration (Usb.cpp), the address pool      *)
(* (address.h) and the connection half of the one registered class driver, *)
(* USBH_MIDI (usbh_midi.cpp), all under                                    *)
(* src/SOC/software/space_jam/include.  One thread runs it, USB::Task; the *)
(* cable and the MAX3421E move on by themselves between its SPI accesses.  *)
(*                                                                         *)
(* Low-speed and full-speed attachment differ only in a flag and are one   *)
(* level here.  Without hubs the pool gives every device address 1.        *)
(***************************************************************************)
EXTENDS Integers

CONSTANTS
  PoolSize,     (* USB_NUMDEVICES - 1 usable address pool entries, 15       *)
  MaxRetries,   (* hrJERR retries of AttemptConfig, 3                       *)
  MayGlitch,    (* the bus can be seen in SE1, both lines high              *)
  MaxChanges    (* bound: changes of the bus level                          *)

ASSUME PoolAssumption   == PoolSize \in Nat \ {0}
ASSUME RetryAssumption  == MaxRetries \in Nat
ASSUME GlitchAssumption == MayGlitch \in BOOLEAN
ASSUME ChangesAssumption == MaxChanges \in Nat

VARIABLES
  line,         (* the bus: "SE0" nothing, "J" a device, "SE1" illegal      *)
  dev,          (* the device: its kind, its address, configured or not     *)
  changes,      (* bound counter                                            *)
  condet,       (* HIRQ.CONDETIRQ: the level changed                        *)
  frame,        (* HIRQ.FRAMEIRQ: a frame started                           *)
  sofka,        (* MODE.SOFKAENAB: frames are generated                     *)
  busrst,       (* HCTL.BUSRST: a bus reset is going on                     *)
  vbusState,    (* what busprobe saw last                                   *)
  usb_task_state,
  expired,      (* millis() has passed the static variable delay of Task    *)
  pc,           (* where in Task the thread is                              *)
  retries,      (* the local of AttemptConfig                               *)
  pool,         (* thePool[1..]: free, or address 1 with whose endpoints    *)
  bAddress, bPollEnable,   (* of USBH_MIDI                                  *)
  seen,         (* history: kind of the device whose descriptor was read    *)
  glitched      (* history: busprobe has seen SE1                           *)

cable  == <<line, dev, changes>>
chip   == <<condet, frame, sofka, busrst>>
driver == <<pool, bAddress, bPollEnable>>
task   == <<usb_task_state, expired, pc, retries>>
ghost  == <<seen, glitched>>
vars   == <<line, dev, changes, condet, frame, sofka, busrst, vbusState, usb_task_state,
            expired, pc, retries, pool, bAddress, bPollEnable, seen, glitched>>

Kind     == {"midi", "other"}
NoDevice == [kind |-> "none", addr |-> 0, conf |-> FALSE]
Fresh(k) == [kind |-> k, addr |-> 0, conf |-> FALSE]
Reset(d) == [d EXCEPT !.addr = 0, !.conf = FALSE]

Entry    == 1 .. PoolSize
Detached == {"INITIALIZE", "WAIT_FOR_DEVICE", "ILLEGAL"}
States   == Detached \cup {"SETTLE", "WAIT_RESET_COMPLETE", "WAIT_SOF", "WAIT_RESET",
                           "CONFIGURING", "RUNNING", "ERROR"}

(* MAX3421e::Init has probed the bus and cleared CONDETIRQ.                *)
Init ==
  /\ \/ line = "SE0" /\ dev = NoDevice
     \/ line = "J" /\ \E k \in Kind : dev = Fresh(k)
  /\ changes = 0
  /\ condet = FALSE /\ frame = FALSE /\ busrst = FALSE
  /\ sofka = (line = "J")
  /\ vbusState = line
  /\ usb_task_state = "INITIALIZE" /\ expired = FALSE
  /\ pc = "irq" /\ retries = 0
  /\ pool = [e \in Entry |-> "free"]
  /\ bAddress = 0 /\ bPollEnable = FALSE
  /\ seen = "none" /\ glitched = FALSE

-----------------------------------------------------------------------------
(***************************************************************************)
(* The cable.  Every change of the level latches CONDETIRQ.                *)
(***************************************************************************)
Change(l, d) ==
  /\ changes < MaxChanges
  /\ line' = l /\ dev' = d
  /\ changes' = changes + 1
  /\ condet' = TRUE
  /\ UNCHANGED <<frame, sofka, busrst, vbusState, driver, task, ghost>>

Plug    == line = "SE0" /\ \E k \in Kind : Change("J", Fresh(k))
Unplug  == line # "SE0" /\ Change("SE0", NoDevice)
Glitch  == MayGlitch /\ line # "SE1" /\ Change("SE1", dev)
Recover == line = "SE1" /\ dev # NoDevice /\ Change("J", dev)

Cable == Plug \/ Unplug \/ Glitch \/ Recover

(* The MAX3421E and the clock.                                             *)
StartFrame ==
  /\ sofka /\ ~busrst /\ ~frame
  /\ frame' = TRUE
  /\ UNCHANGED <<cable, condet, sofka, busrst, vbusState, driver, task, ghost>>

EndReset ==
  /\ busrst
  /\ busrst' = FALSE
  /\ UNCHANGED <<cable, condet, frame, sofka, vbusState, driver, task, ghost>>

Expire ==
  /\ ~expired
  /\ expired' = TRUE
  /\ UNCHANGED <<cable, chip, vbusState, usb_task_state, pc, retries, driver, ghost>>

-----------------------------------------------------------------------------
(***************************************************************************)
(* MAX3421e::Task and IntHandler.  HIRQ is read, busprobe samples the bus  *)
(* and rewrites MODE, and only then is CONDETIRQ cleared, in a step of its *)
(* own: the level can change in between.  FRAMEIRQ is never cleared.       *)
(***************************************************************************)
Busprobe ==
  /\ vbusState' = line
  /\ sofka' = (IF line = "J" THEN TRUE ELSE IF line = "SE0" THEN FALSE ELSE sofka)
  /\ glitched' = (glitched \/ line = "SE1")

Irq ==
  /\ pc = "irq"
  /\ IF condet THEN Busprobe /\ pc' = "clear"
               ELSE UNCHANGED <<vbusState, sofka, glitched>> /\ pc' = "task"
  /\ UNCHANGED <<cable, condet, frame, busrst, usb_task_state, expired, retries, driver, seen>>

ClearIrq ==
  /\ pc = "clear"
  /\ condet' = FALSE
  /\ pc' = "task"
  /\ UNCHANGED <<cable, frame, sofka, busrst, vbusState, usb_task_state, expired, retries,
                 driver, ghost>>

-----------------------------------------------------------------------------
(***************************************************************************)
(* The address pool: AllocAddress takes the first empty entry, FreeAddress *)
(* and every lookup take the first entry with that address.                *)
(***************************************************************************)
Used(e)      == pool[e] # "free"
FirstFree(e) == ~Used(e) /\ \A f \in 1 .. e - 1 : Used(f)
FirstUsed(e) == Used(e) /\ \A f \in 1 .. e - 1 : ~Used(f)

PoolFull     == \A e \in Entry : Used(e)
AllocAddress == \E e \in Entry : FirstFree(e) /\ pool' = [pool EXCEPT ![e] = "plain"]

FreeAddress(a) ==
  IF a = 0 \/ \A e \in Entry : ~Used(e)
  THEN UNCHANGED pool
  ELSE \E e \in Entry : FirstUsed(e) /\ pool' = [pool EXCEPT ![e] = "free"]

SetEpInfoEntry == \E e \in Entry : FirstUsed(e) /\ pool' = [pool EXCEPT ![e] = "driver"]

(* Mutant: the pool entry stays taken.                                     *)
ReleaseLeaks ==
  /\ UNCHANGED pool
  /\ bAddress' = 0 /\ bPollEnable' = FALSE

(* Mutant: the driver keeps its address.                                   *)
ReleaseKeepsAddress ==
  /\ FreeAddress(bAddress)
  /\ bPollEnable' = FALSE /\ UNCHANGED bAddress

Release ==
  /\ FreeAddress(bAddress)
  /\ bAddress' = 0 /\ bPollEnable' = FALSE

-----------------------------------------------------------------------------
(***************************************************************************)
(* USB::Task after MAX3421e::Task: first the bus level changes the state.  *)
(***************************************************************************)
(* Mutant: a device that is gone is not noticed while it is running.       *)
VbusSwitchKeepsRunning ==
  IF vbusState = "SE1" THEN "ILLEGAL"
  ELSE IF vbusState = "SE0" /\ usb_task_state \notin Detached \cup {"RUNNING"} THEN "INITIALIZE"
  ELSE IF vbusState = "J" /\ usb_task_state \in Detached THEN "SETTLE"
  ELSE usb_task_state

VbusSwitch ==
  IF vbusState = "SE1" THEN "ILLEGAL"
  ELSE IF vbusState = "SE0" /\ usb_task_state \notin Detached THEN "INITIALIZE"
  ELSE IF vbusState = "J" /\ usb_task_state \in Detached THEN "SETTLE"
  ELSE usb_task_state

InitializeState ==
  /\ VbusSwitch = "INITIALIZE"
  /\ Release
  /\ usb_task_state' = "WAIT_FOR_DEVICE" /\ pc' = "irq"
  /\ UNCHANGED <<dev, busrst, sofka, expired, retries>>

SitState ==
  /\ VbusSwitch \in {"WAIT_FOR_DEVICE", "ILLEGAL", "RUNNING", "ERROR"}
  /\ usb_task_state' = VbusSwitch /\ pc' = "irq"
  /\ UNCHANGED <<dev, busrst, sofka, expired, retries, driver>>

(* Entering SETTLE sets delay; once it has passed the bus is reset.        *)
SettleState ==
  /\ VbusSwitch = "SETTLE" /\ pc' = "irq"
  /\ IF usb_task_state = "SETTLE" /\ expired
     THEN /\ usb_task_state' = "WAIT_RESET_COMPLETE"
          /\ busrst' = TRUE /\ dev' = Reset(dev)
          /\ UNCHANGED expired
     ELSE /\ usb_task_state' = "SETTLE"
          /\ expired' = (expired /\ usb_task_state = "SETTLE")
          /\ UNCHANGED <<busrst, dev>>
  /\ UNCHANGED <<sofka, retries, driver>>

ResetCompleteState ==
  /\ VbusSwitch = "WAIT_RESET_COMPLETE" /\ pc' = "irq"
  /\ IF busrst THEN UNCHANGED <<sofka, usb_task_state>>
               ELSE sofka' = TRUE /\ usb_task_state' = "WAIT_SOF"
  /\ UNCHANGED <<dev, busrst, expired, retries, driver>>

WaitSofState ==
  /\ VbusSwitch = "WAIT_SOF" /\ pc' = "irq"
  /\ IF frame THEN usb_task_state' = "WAIT_RESET" /\ expired' = FALSE
              ELSE UNCHANGED <<usb_task_state, expired>>
  /\ UNCHANGED <<dev, busrst, sofka, retries, driver>>

WaitResetState ==
  /\ VbusSwitch = "WAIT_RESET"
  /\ IF expired THEN usb_task_state' = "CONFIGURING" /\ pc' = "descriptor"
                ELSE UNCHANGED usb_task_state /\ pc' = "irq"
  /\ UNCHANGED <<dev, busrst, sofka, expired, retries, driver>>

TaskStep ==
  /\ pc = "task"
  /\ \/ InitializeState \/ SitState \/ SettleState \/ ResetCompleteState \/ WaitSofState
     \/ WaitResetState
  /\ UNCHANGED <<line, changes, condet, frame, vbusState, ghost>>

-----------------------------------------------------------------------------
(***************************************************************************)
(* Configuring.  A control transfer to address a is answered by a device   *)
(* that is there, out of reset and has that address; any transfer may fail *)
(* all the same.                                                           *)
(***************************************************************************)
Answers(a) == line = "J" /\ ~busrst /\ dev.addr = a

Finish(state) == usb_task_state' = state /\ pc' = "irq"

GetDescriptor ==
  /\ pc = "descriptor"
  /\ \/ /\ Answers(0)
        /\ seen' = dev.kind
        /\ pc' = IF bAddress # 0 THEN "default" ELSE "init"
        /\ retries' = 0
        /\ UNCHANGED usb_task_state
     \/ Finish("ERROR") /\ UNCHANGED <<seen, retries>>
  /\ UNCHANGED <<dev, driver>>

(***************************************************************************)
(* A step of USBH_MIDI::Init failed: AttemptConfig tries again after a JERR*)
(* while retries are left, else it resets the bus and gives up.            *)
(***************************************************************************)
(* Mutant: retries is set back at the label.                               *)
GiveUpOrRetryForever ==
  \/ pc' = "init" /\ UNCHANGED <<retries, usb_task_state, dev>>
  \/ Finish("ERROR") /\ dev' = Reset(dev) /\ UNCHANGED retries

(* Mutant: one retry too many.                                             *)
GiveUpOrRetryOnceMore ==
  \/ /\ retries <= MaxRetries
     /\ retries' = retries + 1 /\ pc' = "init"
     /\ UNCHANGED <<usb_task_state, dev>>
  \/ Finish("ERROR") /\ dev' = Reset(dev) /\ UNCHANGED retries

GiveUpOrRetry ==
  \/ /\ retries < MaxRetries
     /\ retries' = retries + 1 /\ pc' = "init"
     /\ UNCHANGED <<usb_task_state, dev>>
  \/ Finish("ERROR") /\ dev' = Reset(dev) /\ UNCHANGED retries

(* First device descriptor, then an address from the pool.                 *)
InitAddress ==
  /\ pc = "init"
  /\ \/ /\ Answers(0) /\ ~PoolFull
        /\ AllocAddress /\ bAddress' = 1
        /\ pc' = "setaddr"
        /\ UNCHANGED <<dev, retries, usb_task_state, bPollEnable>>
     \/ /\ Answers(0) /\ PoolFull
        /\ Finish("ERROR") /\ dev' = Reset(dev)
        /\ UNCHANGED <<retries, driver>>
     \/ Release /\ GiveUpOrRetry
  /\ UNCHANGED seen

(* SET_ADDRESS; when its status stage is lost the device has moved anyway. *)
SetAddr ==
  /\ pc = "setaddr"
  /\ \/ /\ Answers(0)
        /\ dev' = [dev EXCEPT !.addr = 1]
        /\ pc' = "configure"
        /\ UNCHANGED <<usb_task_state, retries, driver>>
     \/ /\ FreeAddress(bAddress) /\ bAddress' = 0
        /\ UNCHANGED bPollEnable
        /\ \/ GiveUpOrRetry
           \/ /\ Answers(0) /\ retries < MaxRetries
              /\ dev' = [dev EXCEPT !.addr = 1]
              /\ retries' = retries + 1 /\ pc' = "init"
              /\ UNCHANGED usb_task_state
  /\ UNCHANGED seen

(***************************************************************************)
(* Second device descriptor, configuration descriptors, SET_CONFIGURATION: *)
(* one step, because any failure among them ends in Release.  A device     *)
(* without MIDI or bulk endpoints is turned down here.                     *)
(***************************************************************************)
Configure ==
  /\ pc = "configure"
  /\ \/ /\ Answers(1) /\ dev.kind = "midi"
        /\ SetEpInfoEntry
        /\ bPollEnable' = TRUE
        /\ dev' = [dev EXCEPT !.conf = TRUE]
        /\ Finish("RUNNING")
        /\ UNCHANGED <<retries, bAddress>>
     \/ Release /\ GiveUpOrRetry
  /\ UNCHANGED seen

(* DefaultAddressing: no driver is left that could take the device.  When  *)
(* SET_ADDRESS fails, FreeAddress gives back the first entry with address  *)
(* 1, which need not be the one that was just taken.                       *)
DefaultAddressing ==
  /\ pc = "default"
  /\ \/ PoolFull /\ Finish("ERROR") /\ UNCHANGED <<dev, driver>>
     \/ /\ ~PoolFull /\ Answers(0)
        /\ AllocAddress
        /\ dev' = [dev EXCEPT !.addr = 1]
        /\ Finish("RUNNING")
        /\ UNCHANGED <<bAddress, bPollEnable>>
     \/ /\ ~PoolFull
        /\ \E e, f \in Entry :
             /\ FirstFree(e)
             /\ Used(f) \/ f = e
             /\ \A g \in 1 .. f - 1 : ~Used(g) /\ g # e
             /\ pool' = [[pool EXCEPT ![e] = "plain"] EXCEPT ![f] = "free"]
        /\ \/ UNCHANGED dev
           \/ Answers(0) /\ dev' = [dev EXCEPT !.addr = 1]
        /\ Finish("ERROR")
        /\ UNCHANGED <<bAddress, bPollEnable>>
  /\ UNCHANGED <<retries, seen>>

ConfigStep ==
  /\ GetDescriptor \/ InitAddress \/ SetAddr \/ Configure \/ DefaultAddressing
  /\ UNCHANGED <<line, changes, chip, vbusState, expired, glitched>>

-----------------------------------------------------------------------------
Thread == Irq \/ ClearIrq \/ TaskStep \/ ConfigStep
Next   == Cable \/ StartFrame \/ EndReset \/ Expire \/ Thread

(* main() calls Task for ever; resets end, frames start and time passes.   *)
Spec == /\ Init /\ [][Next]_vars
        /\ WF_vars(Thread) /\ WF_vars(StartFrame) /\ WF_vars(EndReset) /\ WF_vars(Expire)
-----------------------------------------------------------------------------
TypeOK ==
  /\ line \in {"SE0", "J", "SE1"} /\ vbusState \in {"SE0", "J", "SE1"}
  /\ dev \in [kind : Kind, addr : {0, 1}, conf : BOOLEAN] \cup {NoDevice}
  /\ changes \in 0 .. MaxChanges
  /\ {condet, frame, sofka, busrst, expired, bPollEnable, glitched} \subseteq BOOLEAN
  /\ usb_task_state \in States
  /\ pc \in {"irq", "clear", "task", "descriptor", "init", "setaddr", "configure", "default"}
  /\ retries \in 0 .. MaxRetries
  /\ pool \in [Entry -> {"free", "plain", "driver"}]
  /\ bAddress \in {0, 1}
  /\ seen \in Kind \cup {"none"}

(***************************************************************************)
(* While the driver polls, the address it polls leads through the pool to  *)
(* its own endpoint table, and it is the only entry with that address.     *)
(***************************************************************************)
UsedEntries == {e \in Entry : Used(e)}

PolledThroughOwnEntry ==
  bPollEnable /\ ~glitched =>
    /\ bAddress = 1
    /\ \E e \in Entry : UsedEntries = {e} /\ pool[e] = "driver"

(***************************************************************************)
(* Entries are leaked when a taken driver meets a new device, yet never so *)
(* many that a released driver finds the pool full.                        *)
(***************************************************************************)
DriverFindsRoom == bAddress = 0 => ~PoolFull

(* RUNNING means the driver is up, as long as no SE1 was seen.             *)
RunningHasDriver == usb_task_state = "RUNNING" /\ ~glitched => bPollEnable

(***************************************************************************)
(* A removal that busprobe has seen releases the driver; a device that     *)
(* stays is configured or given up, however often its transfers fail.      *)
(***************************************************************************)
RemovalReleases == (vbusState = "SE0" /\ ~glitched) ~> (~bPollEnable \/ vbusState # "SE0")

SteadyDeviceIsSettled ==
  <>[](line = "J" /\ vbusState = "J") => <>[](usb_task_state \in {"RUNNING", "ERROR"})

(***************************************************************************)
(* "if we get here that means that the device class is not supported by    *)
(* any of registered classes" (Usb.cpp:775).                               *)
(***************************************************************************)
DefaultOnlyForUnsupported == pc = "default" => seen # "midi"
=============================================================================
