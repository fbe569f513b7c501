# SonicCraft: a TLA+ model of the synthesizer

SonicCraft turns a DE10-Lite FPGA board into a polyphonic synthesizer. A Nios II
processor polls a USB-MIDI keyboard through a MAX3421E host controller and writes
the notes that are held into four registers; logic in the FPGA turns the registers
into sound, a codec that was set up over I2C plays it, and a rhythm game is shown on
a VGA screen. There are no tests in the repository, and the hardest parts - the USB
host with its toggles and retries, a receive buffer without a length, two note tables
kept in step by hand, errors that the I2C core reports late, two clock domains - are
the ones a test bench would hardly reach. The modules here model those parts, TLC
checks them on small instances, and TLAPS proves the main invariants for every
instance.

In this file `SJ` stands for `src/SOC/software/space_jam`, `M` for `src/Modules` and
`I2C` for the driver `src/SOC/software/space_jam_bsp/drivers/src/altera_avalon_i2c.c`.

## 1. Inventory

| Component | Code | State | Operations | What makes it correct |
|---|---|---|---|---|
| Voice allocation | `SJ/main.cpp` 56-131 | `note_vol_array` (four PIO words), `note_used`, `first_note` | Note On, Note Off | flags and registers agree; a Note Off silences the note it names and no other |
| Main loop | `SJ/main.cpp` 81-200 | - | `Usb.Task`, drain loop | no message is thrown away, no note hangs, neither loop starves the other |
| USB-MIDI receive path | `SJ/include/usbh_midi.cpp` 314-369 | `recvBuf`, `readPtr`, `bPollEnable` | `RecvData`, `Release` | every event is returned once and in order; nothing of an earlier transfer comes back |
| USB task and enumeration | `SJ/include/Usb.cpp` 455-779 | `usb_task_state`, static `delay` | `Task`, `Configuring`, `AttemptConfig`, `DefaultAddressing` | a device that stays is settled, one that goes is released, RUNNING means that a driver runs |
| MAX3421E interrupt, bus probe | `SJ/include/usbhost.cpp` 222-294 | `vbusState`, registers HIRQ, MODE, HCTL | `IntHandler`, `busprobe` | the driver's idea of the bus follows the bus |
| Control, IN, OUT transfers | `SJ/include/Usb.cpp` 44-452, 797-842 | toggles, NAK and retry counters, deadlines | `ctrlReq`, `InTransfer`, `OutTransfer`, `dispatchPkt` | toggles in step, a call returns its own data, every call ends |
| Address pool | `SJ/include/address.h` | `thePool`, `hubCounter` | `AllocAddress`, `FreeAddress`, lookups | no entry leaks or outlives its hub; an address leads to one entry |
| Descriptor parsers | `SJ/include/usbh_midi.cpp` 209-248, 555-698, `parsetools.*` | parser position, `epInfo` | `Parse`, `EndpointXtract` | the endpoints are found however the descriptors are cut |
| VGA timing | `M/VGA_controller.sv` | `clkdiv`, `hc`, `vc`, `hs`, `vs` | clock edges, asynchronous reset | sync pulses outside the picture |
| Rhythm game | `M/rhythmgame.sv` | `gameinprogress`, `temp_start`, `deltatime` | edges of two clocks | a game starts at 0, counts frames, ends; the picture does not tear |
| Audio path | `M/PhaseOSC.sv`, `M/I2S.sv`, `M/FrequencyMapper.sv`, `M/MIDIkeyConverter.sv`, `M/WavetableRAM.sv` | phase and frequency registers, shift registers | sample clock edges, bit clock edges | the codec hears the sum of what the oscillators send, unclipped (the sign of the samples is lost before, see section 3); silence for registers of 0 |
| Codec set-up, I2C driver | `SJ/sgtl5000/`, `I2C` | buffers, status, tries | `InitializeSGTL`, `master_tx`, `master_tx_rx` | what is reported done is done; start-up ends |
| I2C controller core | `src/SOC/finalsoc/synthesis/submodules/altera_avalon_i2c_*.v` | state machine, two FIFOs, ISR | commands, bytes on the bus | see above |
| Score and colour mapping | `M/score_rom.sv`, `M/Color_Mapper.sv` | - | pixel arithmetic | addresses stay in the ROM |

How they interact: `main` sets up the codec, then calls `USB::Task`, which calls the
interrupt handler of the MAX3421E, then the class driver's `Release` or, through
`Configuring`, its `Init`, which allocates an address, reads descriptors with control
transfers and lets the parser pick the endpoints. `main` calls `RecvData` of the same
driver, which polls with `inTransfer`. All of that is one thread; what is concurrent
with it is the cable, the keyboard, the MAX3421E, the I2C core and the clock. The note
registers are shared with the FPGA logic, which runs on clocks of its own. The VGA
controller and the game share the 50 MHz clock and the reset key, and the vertical sync
of the first clocks the second. The codec is the master of the I2S clocks, and LRCLK is
the sample clock of the oscillators.

Hard behaviour: the bus changing between two register accesses; failing transfers and
retries in the middle of enumeration; unplugging at any point; lost handshakes and
deadlines inside a transfer; a buffer whose end is marked in the data; descriptors cut
anywhere; a recursion over a table that it changes; an I2C core that works behind the
driver's back; a clock domain crossing without a synchroniser; starting, ending and
resetting a game at the same clock edge. `PROJECT.json` lists each hazard at its line.

## 2. Modules

| Module | Models | Role |
|---|---|---|
| `Polyphony` | what the allocator promises | abstract: one table of voices |
| `VoiceAllocator` | main.cpp 56-131 | implements `Polyphony` |
| `EventQueue` | what the receive path promises | abstract: a queue that unplugging empties |
| `MidiReceiver` | usbh_midi.cpp 277-369 | implements `EventQueue` |
| `MidiSynth` | main.cpp 81-200 | composes keyboard, `MidiReceiver`, `VoiceAllocator` |
| `UsbHost` | usbhost.cpp, Usb.cpp, address.h, usbh_midi.cpp `Init`/`Release` | cable, chip, task, pool and driver |
| `UsbTransfer` | Usb.cpp 44-452 | one call after another, chip, device and clock |
| `AddressPool` | address.h | the pool with hubs |
| `EndpointSearch` | usbh_midi.cpp, parsetools | the configuration search and its parser |
| `AudioPath` | the audio modules of `M`, their wiring | registers to samples to bits |
| `CodecSetup` | `SJ/sgtl5000`, `I2C`, the I2C core | driver and core side by side |
| `VgaController`, `RhythmGame` | the two hardware modules | operators for each clock edge |
| `GameDisplay` | synth_toplevel.sv | composes the two |
| `*_proofs` | - | theorems and their proofs |
| `MC*` | - | small sets for TLC |

**VoiceAllocator.** A register is a record `[pitch, vol]`, the word
`(pitch << 8) + vol` taken apart again; its top bits are always zero because both
parts are bytes. The two loops with `break` are `FirstAvailable` and
`FirstSounding`. `packet` is the message that was handled last; the kind `"other"`
stands for every status that the `switch` has no case for.

**MidiReceiver.** A slot is four bytes of `recvBuf`. `RecvData` tells apart only
whether a slot's first byte pair and second pair are zero, so a slot is
`[head, tail]`, each half the event it was last written from or `Zero`. `fresh`
counts what the last transfer brought; it is a history variable. A transfer that
fails writes the terminator to slot 0, as the code does with a byte count of 0.

**MidiSynth.** `Task` is one call of `Usb.Task` reduced to configuring and releasing
the keyboard; `Drain` is one turn of the inner loop, `RecvData` and the handler of
the message together, since nothing else runs between them. `cut` remembers the
pitches whose Note Off a pulled cable has swallowed.

**UsbHost.** `pc` says where the one thread is: `irq` (before HIRQ is read), `clear`
(bus probed, HIRQ not yet written), `task` (the switch of `USB::Task`), then the
steps of `Configuring`: `descriptor`, `init`, `setaddr`, `configure`, `default`.
Between any two of them the cable and the chip may move. A control transfer is one
step that may fail, and succeeds only if the device is there, out of reset and at
that address. Low and full speed are one level `J`. `vbusState`, `usb_task_state`,
`bAddress` and `bPollEnable` are the code's variables; a pool entry is free, taken
with the default endpoint table (`plain`), or taken with the driver's. As no hub
driver is registered, every entry in use has address 1. `seen` and `glitched` are
history variables.

**UsbTransfer.** The steps that `UsbHost` and `MidiReceiver` take whole are taken apart
here. The thread's `pc` stands between its register accesses: `launch` (before HXFR is
written), `wait` (for HXFRDNIRQ), `analyze` (before HRSL is read), `returned` (out of
`dispatchPkt`), `read` (out of `InTransfer`), and `fill`, `outwait`, `outread`, `check`,
`breakout` of `OutTransfer`. Lengths are counted in units, `MaxPkt` to a packet; a packet
is named by the call it answers, its place and its length, so that a property can say
whose data were returned. The three copies of each data toggle are `rcvToggle`/`sndToggle`
(EpInfo), `rcvtog`/`sndtog` (the chip) and `dev.inTog`/`dev.outTog`. `Bus` is the chip
with the device behind it: it ends the transfer that is under way with data, a NAK, a
refusal, silence or a toggle error, and a handshake may be lost. A wrong toggle is
neither stored nor acknowledged by the chip. `Expire` is the deadline, at any moment.
`SetAddress`'s failures are the call `bad`.

**AddressPool.** An address is its three bit fields. The recursion of
`FreeAddressByIndex` is a stack of frames with the local `i` of each; `FreeChild` and
`FreeEntry` are one turn of its loop and its end. The callers (external) allocate one
device at the root, and under a hub a hub or a device on a free port.

**EndpointSearch.** A byte of the configuration is the pair of its descriptor and its
place there, so the parser reads a wrong length or type when it has lost its place.
`Deliver` hands over a piece, `Header` and `Body` are one turn of the loop of a value
parser, after which the piece may be used up, and `HeaderDone` and `BodyDone` the code
between. `conf` is the local `i` of `Init`. The variables the constructors leave unset are chosen by `AskConfiguration`, and
`epInfo` is never cleared.

**AudioPath.** `SampleKeys` is the rising edge of LRCLK in all four oscillators: the
frequency and the product are registered, the phase moves. `Sclk` is the rising edge of
the bit clock: I2S shifts one register out and loads the other, and the codec (external,
I2S format with its delay of one bit) takes the bit before the edge. `SampleTorn` is a
write of the processor at the very edge, of which the oscillator may take any velocity
and any frequency, once. Writes come only in front of a sample edge, because no register
is read in between. The four oscillators are named, as the top level has them, and `Sum`
is its sum of four words. A sample is a pattern of bits, which the code multiplies and
extends as an unsigned number, and so does the model. `before` and `quiet` are history
variables.

**CodecSetup.** One step is one register access of the driver or one byte on the bus.
The driver's `pc` walks through `master_transmit` (`phase` "tx") and `master_receive`
("rx"); the core's `fsm` is the master state machine with the states that differ only
inside a byte merged. Both work at the same time, so a refusal (`Refused`) or a lost
arbitration (`ArbLost`) shows to the driver some commands late. The driver's polling
loops run for many times the length of a byte, so they come to their end only when the
core is `Stuck`. A command that is written while the core waits for one wakes it at once
(`Woken`). TLC reaches that also with the core on its way back to idle: the driver gives up
while others hold the bus (`CmdTimeout`), the bus becomes free, the address is refused, and
the retry begins before the core has seen that it was disabled. `spoilt` and `faults` are
history variables.

**GameDisplay.** `Clock` is an edge of the 50 MHz clock with everything that ripples
from it: `clkdiv`, then the counters and sync pulses, then `deltatime`.
`gameinprogress` changes at the same edge and nothing orders it against the ripple
clock, so a frame edge in that step samples its old or its new value. `Key` moves
KEY0 or KEY1; a key stays where it is for at least one clock edge.

## 3. What TLC checks

| Run | Instance | Shows |
|---|---|---|
| `voices` | 3 voices, three pitches without 0, two velocities | `FreeVoiceIsSilent`, refinement of `Polyphony` |
| `receiver` | 4 slots, 3 events (one without data bytes), packets of 1, 2 or 4 | `UnprocessedIsNew`, refinement of `EventQueue` |
| `midi_synth` | 2 keys, 2 voices, 3 slots, 2 connections | no hanging note, nothing discarded, liveness of Note Off and of unplugging |
| `usb_host` | pool of 2, one retry, 6 changes of the bus, SE1 included | pool and driver agree, no exhaustion, removal releases, a steady device is settled |
| `usb_transfer` | packets of 2 units, a buffer of 4, data of 2 and 5, messages of 3; two calls, one lost handshake, NAK limits 3, 1 and none | bulk packets once and in order, requests read their own data, success means sent, clean requests succeed, calls end |
| `address_pool` | 4 entries, 4 hub numbers, 2 ports | addresses unique, no orphans, a subtree is freed and nothing else, the recursion ends |
| `endpoint_search` | 200 devices, pieces of any length, two devices in a row | no overflow of the parser's buffer, the MIDI pair is found |
| `audio_path` | 4 voices, 4 register values, 2 bit samples and velocities, 5 writes, one of them torn | the codec hears the sum of the registered words; silence is heard |
| `codec_setup` | four accesses, FIFO of 4, 3 tries, 4 faults | accesses take effect, start-up ends |
| `game_display` | lines of 6 pixels, pictures of 6 lines, games of 3 frames | no tearing, games start at 0, reset restarts, games end |

The bounds. Three voices are enough for a free voice before, between and behind
busy ones, and three pitches for two voices on one pitch next to another. Four slots
leave room for packets that are short, that just keep their terminator and that fill
the buffer. Two pool entries are one more than a correct driver needs, so that the
first leak shows in `PolledThroughOwnEntry` and the second in `DriverFindsRoom`; six
changes of the bus give two complete insertions with a glitch in each. Data of 2 units
are one full packet and less than the buffer, data of 5 fill the buffer once and end in
a short packet, a message of 3 is a full and a short packet; two calls are what is needed
for one to inherit toggles, FIFO or HXFRDNIRQ from another. Four pool entries hold a tree
of depth four and one of two branches. The devices have interfaces of either kind with no
endpoint, one, a pair, a pair with an interrupt endpoint among them, and extra
descriptors; pieces of any length cut every descriptor at every place. The audio
instance keeps the widths of the code in relation: four bits above the product, full
velocity and a full sample among the values, a phase that wraps and one that stands
still. Four accesses are a read, a write and its verification, and one more; three tries
and four faults allow giving up as well as success after two failures. A line and a
picture of the game have at least one pixel or line in each zone that the comparisons of
the code distinguish. `MaxOutbox`, `MaxPlugs`, `MaxChanges`, `MaxCalls`, `MaxLost`,
`MaxAttached`, `MaxWrites`, `MaxTorn` and `MaxFaults` bound only the environment; once
they are used up nothing more is called in `usb_transfer`, attached in `endpoint_search`
or to be done in `codec_setup`, which is why these runs do not look for deadlock.

Two runs end in a counterexample to what a comment of the code says:

* `stale_replay` - the terminator test `< MIDI_EVENT_PACKET_SIZE-4` leaves a packet
  of exactly 60 bytes unterminated: after a full packet its last event is played again.
* `consumed_driver` - after SE1 on the bus no driver is released, so a MIDI keyboard
  is passed to `DefaultAddressing`, and the task says RUNNING with no driver behind it.

The properties of the passing runs say where the code's promises end, and the exceptions
they make are behaviour of the code that the model has:

* `ImplementsPolyphony` holds without pitch 0: a Note Off for pitch 0 is spent on the
  first free register. `UnprocessedIsNew` and `ImplementsQueue` hold for packets of
  other sizes than the one above. `PolledThroughOwnEntry`, `RunningHasDriver` and
  `RemovalReleases` hold as long as no SE1 was seen, and the latter speaks of what
  `busprobe` saw: a change between the probe and the clearing of CONDETIRQ is lost.
* `first_note` is never set again, so the initial packet of a keyboard that is plugged
  in a second time takes a voice (`InitialPitch` in `MidiSynth`).
* `BulkOnceInOrder`: after a lost handshake the device repeats its packet, and the flip of
  the toggle in `InTransfer` accepts it a second time (`lost`). A transfer that ends behind
  its deadline leaves HXFRDNIRQ and its data to the next one (`late`).
* `OutDelivered`: behind its deadline `OutTransfer` goes on with the next packet and may
  return success (`overtime`).
* `CleanRequestSucceeds`: a descriptor that fills its last packet but not the read buffer
  is asked for once more, and a device that has nothing left does not answer with data.
* `MidiPairTaken` speaks of devices with a MIDI interface that has one endpoint for each
  direction; a device with one bulk endpoint is accepted all the same, with the other
  entry of `epInfo` as it was.
* `AccessTakesEffect`: an arbitration lost behind the last command of a write is looked for
  by nobody and reported as success (`arb`), and a read that is tried again sends as its
  address what it has read so far, because address and value share a buffer (`spoilt`).
* `HeardIsSum` is about the way of the registered words to the codec, not about what they
  should be. The comment at `M/PhaseOSC.sv` 44 says "sign extension: WT value is signed and
  can be negative", and the samples of `Wavetables/sawtooth.txt` are in two's complement (0 in
  line 2049, ffe5 in line 2050). The code contradicts both: it multiplies sample and velocity
  as unsigned numbers (line 41) and puts zeros above the product (line 45), so each negative
  sample is heard as a large positive one (its product is too large by 2^16 times the
  velocity), and the wave has a jump where its sign changes. `PROJECT.json` notes it at the hazard of that line.
* `NewGameStartsAtZero` and `ResetRestarts` exempt what follows a reset that found a start
  pending, until the counter has been 0 (`straddled`): `temp_start` survives the reset, and a
  start key that is let go during it, together with the reset key or just behind it starts a
  game before an edge of `vs` has cleared the counter, so it may go on with the old time.

**Fairness.** `MidiSynth`: weak fairness of `Task` and of `Drain`, because the
processor runs the loop without end, and strong fairness of the turn that fetches a
packet, because a keyboard with events answers a poll sooner or later, though it may
answer NAK any number of times. None of the player or the cable. `UsbHost`: weak
fairness of the thread, and of the ends of a reset, a frame and a delay, which the
chip and the clock bring about alone; transfers may fail for ever. `UsbTransfer`: weak
fairness of the thread, of the chip, which ends each transfer by itself within a frame or
reports silence, and of the clock. `AddressPool`: of the recursion's own steps.
`CodecSetup`: of the driver and of the core; not of the others on the bus, which may
never let it go. `GameDisplay`: weak fairness of the oscillator. `VoiceAllocator`,
`MidiReceiver`, `EndpointSearch` and `AudioPath` are checked for safety only.

## 4. What is proved

All proofs are checked by TLAPS (SMT, Zenon, LS4).

* `VoiceAllocator_proofs`, for any number of voices and sets of byte values:
  `TypeCorrect`; `FreeVoicesAreSilent`, inductive as it stands; `Refinement`, from
  `0 \notin Pitches`. The step is `StepSimulation`: a free voice is silent, its pitch
  byte is 0, so the search by register finds the voices that the flags show busy.
* `MidiReceiver_proofs`, for any buffer and any events: `TypeCorrect`, and
  `NoStaleMessage` from the assumptions that no packet is empty or of `Slots - 1`
  events. `UnprocessedIsNew` is not inductive; the strengthening `Terminated` adds that
  `readPtr` has not passed what the last transfer brought and that a terminator lies
  right behind it. `Refinement`: under the same assumptions the buffer implements
  `EventQueue`. The queue is what is unread in the buffer followed by the outbox; a call
  takes its head (`CallTakesHead`), sending appends (`SendAppends`), unplugging cuts it
  (`UnplugCuts`).
* `MidiSynth_proofs`, for any keys, voices and buffer: `TypeCorrect`, `NotesEnd`
  (`NoHangingNote`) and `NothingDiscarded`, from pitch 0 excluded and packets as above. The
  invariant says for each key which of its messages are under way, in which order, and
  how they fit whether the key is down and whether one voice plays it: an unmatched On
  is the last one, and each Off meets at most one voice. The lemmas of the two components
  are used through `INSTANCE`.
* `UsbHost_proofs`, for any pool, any number of retries and of changes of the bus:
  `TypeCorrect`, `PolledThroughOwn`, `RoomForTheDriver`, `RunningMeansDriver`. The invariant
  ties the driver's address, the one pool entry in use and the state of the task together
  until SE1 is seen (`Settled`), and keeps an entry free for a driver without an address (`Room`),
  although after SE1 an entry can be in use that the driver does not know of.
* `Enumeration_proofs`, for any pool, hub limit and number of ports: `TypeCorrect`,
  `AddressesAreUnique`, `HubsAreUnique`, `ParentsArePresent`. The invariant adds that hub
  numbers do not exceed the counter and that a hub has a larger number than its parent
  (`Numbered`), and that the frames of the recursion are hubs with growing numbers, none
  with a child before its `i` (`Walk`). `SubtreeIsFreed`: no induction over the tree is
  needed, because it is enough to know that the hub of each freed entry is freed or on the
  stack, and that a freed hub has nothing below it (`Freeing`).
  The same module extends `EndpointSearch` (with `SearchInit`, `SearchNext`, `SearchSpec` and
  `SearchTypeOK`), for any number of devices, configurations, interfaces and descriptors and
  pieces cut anywhere: `SearchTypeCorrect` and `PairIsTaken` (`MidiPairTaken`). The invariant
  has three parts. `Position`: the parser's buffer holds the first bytes of one descriptor,
  and `countDown` is what it lacks. `Known`: `isGoodInterface` and `confValue` say what the
  `Parsed` descriptors ask for, whatever the constructor left in them. `Pending`, while a
  device has a pair that must be found: no earlier configuration is counted, in front of
  its interface at most one endpoint is, and from there on `nEPs` and `epInfo` are
  exactly what was parsed of the pair (`FromJ`). It rests on `DevicesAssumption`, what USB
  asks of a configuration and the parser does not look at: every descriptor has the bytes of
  its fields, the configuration descriptor comes first and once, and endpoints stand behind
  an interface. Without it TLC finds devices that refute `MidiPairTaken`: one with two
  endpoints in front of its first interface (`isGoodInterface` is not set there), one
  with a descriptor of length 1.
* `UsbTransfer_proofs`, for any packet and buffer size, any lengths below the range of
  `left`, any NAK and retry limits and any number of calls: `TypeCorrect`, `BulkInOrder`,
  `DescriptorsAreRead`, `OutIsDelivered`, `CleanSucceeds`. The invariant has layers. `Machine`, while no
  transfer ended behind its deadline: the chip works only for the thread that waits for it,
  `HXFRDNIRQ` is never left over, the FIFO holds at most the packet of the last result.
  `InStep`, while besides no handshake was lost: the toggle of the bulk IN endpoint, in the
  `EpInfo` or during a poll in the chip, is that of the device unless the one packet in
  between is on its way, so no toggle error comes. `ReadInOrder` counts for a control
  request what is given, buffered, in the FIFO and left in the device as one ordered
  sequence. `OutInStep` holds with handshakes lost: a device toggle ahead of the chip's says
  that the packet being sent was taken already, so each position is accepted once.
  `RequestInStep`, while nothing disturbs a request: every result is a success, what is
  left is what is read, buffered and still in the device, and the device has data whenever
  it is asked. `CleanSucceeds` needs that the read buffer holds whole packets, as the 64
  bytes of `getConfDescr` do for control packets of 8, 16, 32 or 64 (`WholePackets`); with
  a buffer of 3 and packets of 2, TLC finds data of 6 units whose request fails.
* `CodecSetup_proofs`, for any accesses, any number of tries and of faults, and FIFOs of any
  depth: `TypeCorrect` and `AccessIsEffective` (`AccessTakesEffect`). The
  invariant counts commands: the driver has written `Written` of a transaction, the core
  has taken `Eaten` of these; until an error empties the FIFOs (after which the core only
  throws away), the state of the core says how many that are and which bytes the codec has
  seen and given. The driver takes an idle core for one that is done, which is right because
  an idle core has no command left in its FIFO: each one that is written wakes it. With a
  depth of 1 both theorems hold, but TLC finds that start-up may not end, since the second
  byte of a read is lost in a full FIFO; `system.h` has four entries. A first candidate, which TLC had passed on
  the run, was not inductive for a start-up that ends in a read; the invariant says now
  what is left in the FIFOs between two accesses.
* `Hardware_proofs`, for any timing whose sync pulse lies below the picture and any
  length of a game: `Invariant`, from which `TypeCorrect`, `NoTearing`, `NewGameTime`
  and `ResetClears`. The invariant adds three facts: the first pixel with `vs` low is
  met in reset only (then `clkdiv` is low, and the next clock edge raises `vs`); `vs`
  is otherwise low only on the lines of the pulse and the one behind it; a stopped
  game whose time is neither 0 nor the last is about to be cleared by that edge of
  `vs`.
  The same module extends `AudioPath` too (whose `AudioInit`, `AudioNext` and `AudioSpec`
  therefore have names of their own), for any widths of sample, velocity and
  padding, any wavetable and any frequencies: `CodecHearsSum` (`HeardIsSum`) and
  `CodecHearsSilence` (`SilenceIsHeard`); the lemma `SignIsLost` says by how much a registered
  word differs from that of a signed sample. The invariant `Shifted` says that after n edges of
  the bit clock the codec's word and the register that is shifted out are together the
  Word of this half of the frame, times 2^n; the sum of four voices stays below a quarter of
  the values of a word, so doubling it for the delay of one bit does not reach the sign.
  Powers of two are added in the exponent by counting subsets (`PowersMultiply`), since the
  provers know none of their laws; this uses the library's `FS_SUBSET`.

Only model-checked: all liveness properties (`ReleasedKeyFallsSilent`,
`UnplugIsNoticed`, `RemovalReleases`, `SteadyDeviceIsSettled`, `TransferEnds`, `FreeEnds`,
`StartUpEnds`, `GameEnds`), which are out of the prover's reach.

## 5. Not modelled, and why

* Most of the tree is not the program's own: the Nios II system and its board support
  package, headers of register names and USB usage tables, generated IP, data (ROMs,
  scores, wavetables). They have no behaviour of their own to model, and they make up most
  of the lines.
* Drivers that are compiled but never instantiated (HID, hub, XBOX), hardware modules that
  the top level does not instantiate, the interrupt-driven half of the I2C driver, sending
  MIDI and SysEx, which `main` never does.
* SPI, printing and delays, which keep no state the rest depends on.
* `Color_Mapper` and the addressing of `score_rom` are combinational; the one boundary in
  them (`score_address` beyond the ROM from `deltatime` 8102 on) is listed as a hazard.
* Below the grain of the models: the bits of an I2C byte, SPI transactions, metastability
  of the clock crossings beyond a choice between old and new values.

## 6. Where to go on

Every component of the program's own logic has a module, and every safety property and
refinement of the passing runs is a theorem. What could follow: `UsbHost` with its transfers
replaced by those of `UsbTransfer`; hubs in `UsbHost`, should a hub driver be registered.
