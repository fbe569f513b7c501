------------------------------ MODULE AudioPath ------------------------------
(***************************************************************************)
(* The audio path in hardware (src/Modules): each MIDIKey register gives   *)
(* the frequency and the velocity of one oscillator, the outputs of the    *)
(* oscillators are added and shifted out to the SGTL5000.  LRCLK and SCLK  *)
(* come from the codec; LRCLK changes between two rising edges of SCLK and *)
(* its rising edge is the sample clock of the oscillators.  The MIDIKey    *)
(* registers are written by the Nios II on a clock of their own.           *)
(*                                                                         *)
(* A thousand edges of the 50 MHz clock pass between two samples, so the   *)
(* registered output of the wavetable is that of the current phase.        *)
(*                                                                         *)
(* A sample is a pattern of bits.  What loads the wavetable (sawtooth.txt) *)
(* and a comment of Phase_OSC take the upper half of the patterns for      *)
(* negative numbers in two's complement; the logic of Phase_OSC does not.  *)
(***************************************************************************)
EXTENDS Integers

CONSTANTS
  v0, v1, v2, v3,  (* the four oscillators                                  *)
  Words,           (* values of a MIDIKey register: [pitch, vel]            *)
  FirstKey, Keys,  (* pitches with a frequency: 48, 24 of them              *)
  Freq_ROM,        (* [0 .. Keys -> frequency register value]               *)
  StartFreq,       (* FreqReg at power-up, A4                               *)
  PhaseMod, Step,  (* values of PhaseReg, 2^24, and those of one entry, 2^12*)
  RAM,             (* the wavetable, of SampleBits-bit patterns             *)
  SampleBits, VelocityBits, Below,   (* 16, 7, and 5 zeros below            *)
  MaxWrites, MaxTorn                 (* bounds: writes of MIDIKey           *)

Voice    == {v0, v1, v2, v3}
Velocity == 0 .. 2^VelocityBits - 1

ASSUME BitsAssumption  == SampleBits \in Nat /\ VelocityBits \in Nat /\ Below \in Nat
ASSUME WordsAssumption == \A w \in Words : w.vel \in Velocity
ASSUME PhaseAssumption == PhaseMod \in Nat \ {0} /\ Step \in Nat \ {0}
ASSUME FreqAssumption  == /\ Keys \in Nat /\ FirstKey \in Nat /\ StartFreq \in Nat
                          /\ Freq_ROM \in [0 .. Keys -> Nat]
                          /\ \A w \in Words : w.pitch \in Nat
ASSUME RAMAssumption   == RAM \in [0 .. (PhaseMod - 1) \div Step -> 0 .. 2^SampleBits - 1]

VARIABLES
  MIDIKey, FreqReg, PhaseReg, WTOUT,    (* of each voice                    *)
  LRCLK, slot,     (* the clock and the SCLK edges since it changed         *)
  L, R,            (* the shift registers                                   *)
  acc, heard,      (* the codec's word so far and its last complete one     *)
  before,          (* history: the sum of the sample before                 *)
  quiet,           (* history: samples since the last one with a velocity   *)
  writes, torn     (* bound counters                                        *)

osc == <<FreqReg, PhaseReg, WTOUT>>
i2s == <<LRCLK, slot, L, R, acc, heard>>
history == <<before, quiet>>
audioVars == <<MIDIKey, osc, i2s, history, writes, torn>>

(* {4'h0, product, zeros}: the width of a word.                            *)
Width    == 4 + SampleBits + VelocityBits + Below
Silence  == [pitch |-> 0, vel |-> 0]

AudioInit ==
  /\ MIDIKey = [v \in Voice |-> Silence]
  /\ FreqReg = [v \in Voice |-> StartFreq]
  /\ PhaseReg = [v \in Voice |-> 0]
  /\ WTOUT = [v \in Voice |-> 0]
  /\ LRCLK = FALSE /\ slot = 0
  /\ L = 0 /\ R = 0 /\ acc = 0 /\ heard = 0
  /\ before = 0 /\ quiet = 2
  /\ writes = 0 /\ torn = 0

-----------------------------------------------------------------------------
(* MIDIKeyConverter and FrequencyMapper.                                   *)
Offset(pitch) == IF pitch \in FirstKey .. FirstKey + Keys - 1 THEN pitch - FirstKey ELSE Keys
FreqRegInput(v) == Freq_ROM[Offset(MIDIKey[v].pitch)]

(* WTBuffer and WTOUT.  WTTemp and Velocity have no sign, so the product is*)
(* that of two natural numbers, and there are zeros above and below it.    *)
(* Mutant: three bits above.                                               *)
PlacedHigher(product) == product * 2^(Below + 1)
Placed(product) == product * 2^Below
WTTemp(v) == RAM[PhaseReg[v] \div Step]

(* Mutant: an oscillator that stands still keeps its output.               *)
NextOutRunning(v, vel) == IF FreqReg[v] = 0 THEN WTOUT[v] ELSE Placed(WTTemp(v) * vel)
NextOut(v, vel) == Placed(WTTemp(v) * vel)

(* Phase_OSC on the rising edge of FSCLK, with the velocities vel and the  *)
(* frequencies freq at its inputs.                                         *)
Sample(vel, freq) ==
  /\ FreqReg' = freq
  /\ PhaseReg' = [v \in Voice |-> (PhaseReg[v] + FreqReg[v]) % PhaseMod]
  /\ WTOUT' = [v \in Voice |-> NextOut(v, vel[v])]
  /\ quiet' = IF \E v \in Voice : vel[v] > 0 THEN 0
               ELSE IF quiet = 2 THEN 2 ELSE quiet + 1

(* I2SDIN.                                                                 *)
Sum    == WTOUT[v0] + WTOUT[v1] + WTOUT[v2] + WTOUT[v3]
I2SDIN == Sum % 2^Width

-----------------------------------------------------------------------------
WordDone == slot = Width

(* IOWR of a MIDIKey register.  No register is read before the next rising *)
(* edge of LRCLK, so the writes may all stand there.                       *)
WriteKey ==
  /\ WordDone /\ ~LRCLK
  /\ writes < MaxWrites
  /\ \E v \in Voice, w \in Words :
       MIDIKey[v] # w /\ MIDIKey' = [MIDIKey EXCEPT ![v] = w]
  /\ writes' = writes + 1
  /\ UNCHANGED <<osc, i2s, history, torn>>

(* LRCLK changes after a word (external).  Its rising edge is a sample.    *)
LrclkFalls ==
  /\ WordDone /\ LRCLK
  /\ LRCLK' = FALSE /\ slot' = 0
  /\ UNCHANGED <<MIDIKey, osc, L, R, acc, heard, history, writes, torn>>

LrclkRises ==
  /\ WordDone /\ ~LRCLK
  /\ LRCLK' = TRUE /\ slot' = 0
  /\ before' = Sum
  /\ UNCHANGED <<L, R, acc, heard>>

SampleKeys ==
  /\ LrclkRises
  /\ Sample([v \in Voice |-> MIDIKey[v].vel], [v \in Voice |-> FreqRegInput(v)])
  /\ UNCHANGED <<MIDIKey, writes, torn>>

(* A key is written at the very edge: nothing synchronises the register to *)
(* LRCLK, and its oscillator takes any velocity and any frequency once.    *)
SampleTorn ==
  /\ LrclkRises
  /\ writes < MaxWrites /\ torn < MaxTorn
  /\ writes' = writes + 1 /\ torn' = torn + 1
  /\ \E v \in Voice, w \in Words, x \in Velocity, f \in 0 .. PhaseMod - 1 :
       /\ MIDIKey' = [MIDIKey EXCEPT ![v] = w]
       /\ Sample([u \in Voice |-> IF u = v THEN x ELSE MIDIKey[u].vel],
                 [u \in Voice |-> IF u = v THEN f ELSE FreqRegInput(u)])

(* The rising edge of SCLK.  I2S shifts one register out and loads the     *)
(* other.  The codec (external) takes the bit that is there before the     *)
(* edge: in I2S format the first one after LRCLK has changed still belongs *)
(* to the word before.                                                     *)
Msb(x)   == x \div 2^(Width - 1)
Left(x)  == (2 * x) % 2^Width
Dout     == IF LRCLK THEN Msb(L) ELSE Msb(R)
Signed(x, bits) == IF x < 2^(bits - 1) THEN x ELSE x - 2^bits

Sclk ==
  /\ ~WordDone
  /\ slot' = slot + 1
  /\ IF LRCLK THEN R' = I2SDIN /\ L' = Left(L)
              ELSE L' = I2SDIN /\ R' = Left(R)
  /\ IF slot = 0 THEN heard' = Signed(2 * acc + Dout, Width) /\ acc' = 0
                 ELSE acc' = 2 * acc + Dout /\ UNCHANGED heard
  /\ UNCHANGED <<MIDIKey, osc, LRCLK, history, writes, torn>>

AudioNext == WriteKey \/ LrclkFalls \/ SampleKeys \/ SampleTorn \/ Sclk

AudioSpec == AudioInit /\ [][AudioNext]_audioVars

-----------------------------------------------------------------------------
(***************************************************************************)
(* Both words of a frame are, bit for bit, the sum of the four words that  *)
(* Phase_OSC registered for one sample, and the codec reads that sum: the  *)
(* four zeros above the product (PhaseOSC.sv 45) take up the sum, the delay*)
(* of one bit and the sign, whatever the samples and the velocities.       *)
(*                                                                         *)
(* This is about the way of a word to the codec, and not about the word:   *)
(* the comment at PhaseOSC.sv 44 says that the sign of a sample is         *)
(* extended, the code extends with zeros, and the sum that is heard is that*)
(* of the unsigned products, each negative sample a large positive one.    *)
(***************************************************************************)
HeardIsSum == slot > 0 => heard = 2 * before

(* Two samples after the last voice was released the codec gets silence,   *)
(* also when a register was torn and wherever the phases have stopped.     *)
SilenceIsHeard == quiet = 2 /\ slot > 0 => heard = 0
=============================================================================
