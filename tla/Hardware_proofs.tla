---------------------------- MODULE Hardware_proofs ----------------------------
(***************************************************************************)
(* Proofs about the two parts of the system that are logic of the FPGA:    *)
(* GameDisplay, for pictures and games of any size, and AudioPath, for any *)
(* widths, frequencies and wavetable.  The two share nothing.              *)
(***************************************************************************)
EXTENDS GameDisplay, AudioPath, FiniteSetTheorems, FunctionTheorems, TLAPS

(***************************************************************************)
(* The picture and the game.                                               *)
(***************************************************************************)

(***************************************************************************)
(* The inductive invariant.  ResetHolds: KEY0 keeps the controller in its  *)
(* reset state, which clkdiv tells from the first pixel of a picture.      *)
(* SyncBelow: vs is low below the picture only, or since a reset.  Stopped:*)
(* a reset has stopped the game by the time it is released.  TimeLeft: the *)
(* time of a stopped game other than 0 or the last is about to be cleared. *)
(***************************************************************************)
Held == ~clkdiv /\ hc = 0 /\ vc = 0 /\ ~vs

ResetHolds == (Reset_h => Held) /\ (AfterReset => ~clkdiv)
SyncBelow  == ~vs => AfterReset \/ vc \in VSyncFirst - 1 .. VSyncFirst + 1
Stopped    == AfterReset /\ (~Reset_h \/ clocked)
                => ~gameinprogress /\ (temp_start => straddled)
TimeLeft   == ~gameinprogress /\ deltatime \notin {0, LastTime}
                => straddled \/ (~temp_start /\ Held)

IInv == TypeOK /\ ResetHolds /\ SyncBelow /\ Stopped /\ TimeLeft

(* Zero is a value of every counter.                                       *)
LEMMA Zeros == 0 \in 0 .. hpixels /\ 0 \in 0 .. vlines /\ 0 \in 0 .. LastTime
BY HorizontalAssumption, VerticalAssumption, LastTimeAssumption
   DEF HorizontalAssumption, VerticalAssumption, LastTimeAssumption

(* The reset state of vga_controller is well typed.                        *)
LEMMA ResetType == Vga!Reset => Vga!TypeOK'
BY Zeros, Zenon DEF Vga!Reset, Vga!TypeOK

(***************************************************************************)
(* The screen: what a posedge of the 50 MHz clock with KEY0 up does to the *)
(* counters, clkdiv and vs of vga_controller.                              *)
(***************************************************************************)
LEMMA ScreenStep ==
  ASSUME Vga!TypeOK, AfterReset => ~clkdiv, SyncBelow, Vga!Clk
  PROVE  /\ Vga!TypeOK'
         /\ ~AfterReset'  \/ UNCHANGED <<hc, vc, vs>>
         /\ AfterReset' => ~clkdiv'
         /\ SyncBelow'
         /\ AfterReset => vs'
         /\ ~vs /\ vs' => vc' >= VVisible \/ AfterReset
<1> USE HorizontalAssumption, VerticalAssumption
    DEF HorizontalAssumption, VerticalAssumption, AfterReset, SyncBelow, Vga!TypeOK
<1>1. CASE ~clkdiv
  <2>1. clkdiv' /\ Vga!Counters /\ Vga!Syncs
    BY <1>1 DEF Vga!Clk
  <2>2. vc' \in 0 .. vlines /\ hc' \in 0 .. hpixels
    BY <2>1 DEF Vga!Counters
  <2>3. vs' <=> vc # VSyncFirst - 1 /\ vc # VSyncFirst
    <3>1. vs' = (vc + 1 \notin {VSyncFirst, VSyncFirst + 1})
      BY <2>1, Zenon DEF Vga!Syncs
    <3>2. vs' <=> vc + 1 \notin {VSyncFirst, VSyncFirst + 1}
      BY <3>1, Zenon
    <3> QED BY <3>2
  <2>4. hc' = 0 /\ vc' = 0 => vc = vlines
    BY <2>1 DEF Vga!Counters
  <2>5. ~AfterReset'
    BY <2>3, <2>4
  <2>6. vc # vlines => vc' \in {vc, vc + 1}
    BY <2>1 DEF Vga!Counters
  <2>7. SyncBelow'
    BY <2>3, <2>6
  <2>8. AfterReset => vs'
    BY <2>3
  <2>9. ~vs /\ vs' => vc' >= VVisible \/ AfterReset
    BY <2>6
  <2>10. clkdiv' \in BOOLEAN /\ hs' \in BOOLEAN /\ vs' \in BOOLEAN
    BY <1>1, <2>1, Zenon DEF Vga!Syncs, Vga!Clk
  <2> QED BY <2>1, <2>2, <2>5, <2>7, <2>8, <2>9, <2>10
<1>2. CASE clkdiv
  <2>1. ~clkdiv' /\ UNCHANGED <<hc, vc, hs, vs>>
    BY <1>2, Zenon DEF Vga!Clk
  <2>2. Vga!TypeOK'
    <3>1. clkdiv' \in BOOLEAN
      BY Zenon DEF Vga!Clk
    <3> QED BY <2>1, <3>1, Zenon
  <2> QED BY <1>2, <2>1, <2>2
<1> QED BY <1>1, <1>2 DEF Vga!TypeOK

(***************************************************************************)
(* A key: the screen is left alone or goes to its reset state, and the     *)
(* game does not notice before the next edge of the clock.                 *)
(***************************************************************************)
LEMMA KeyStep == IInv /\ Key => IInv'
<1> SUFFICES ASSUME IInv, Key PROVE IInv'
  OBVIOUS
<1> USE DEF IInv, Held, ResetHolds, SyncBelow, Stopped, TimeLeft, AfterReset
<1>1. PICK r, p \in BOOLEAN :
        /\ Reset_h' = r /\ Press_Start' = p
        /\ IF r THEN Vga!Reset ELSE UNCHANGED screen
  BY DEF Key
<1>2. clocked /\ ~clocked' /\ UNCHANGED <<game, straddled>>
  BY DEF Key
<1>3. TypeOK'
  <2>1. r => Vga!TypeOK'
    BY <1>1, ResetType, Zenon
  <2>2. ~r => Vga!TypeOK'
    <3>1. ~r => UNCHANGED <<clkdiv, hc, vc, hs, vs>>
      BY <1>1, Zenon DEF screen
    <3> QED BY <3>1 DEF TypeOK, Vga!TypeOK
  <2>3. Game!TypeOK' /\ straddled' \in BOOLEAN
    BY <1>2 DEF TypeOK, Game!TypeOK, game
  <2>4. clocked' \in BOOLEAN
    BY Zenon DEF Key
  <2> QED BY <1>1, <2>1, <2>2, <2>3, <2>4, Zenon DEF TypeOK
<1>4. CASE r
  BY <1>1, <1>2, <1>3, <1>4 DEF Vga!Reset, game
<1>5. CASE ~r
  BY <1>1, <1>2, <1>3, <1>5 DEF screen, game
<1> QED BY <1>4, <1>5

(***************************************************************************)
(* An edge of the 50 MHz clock.                                            *)
(***************************************************************************)
LEMMA ClockType == IInv /\ Clock => TypeOK'
<1> SUFFICES ASSUME IInv, Clock PROVE TypeOK'
  OBVIOUS
<1>1. Vga!TypeOK'
  <2>1. CASE Reset_h
    BY <2>1, ResetType DEF Clock
  <2>2. CASE ~Reset_h
    BY <2>2, ScreenStep DEF Clock, IInv, TypeOK, ResetHolds
  <2> QED BY <2>1, <2>2
<1>2. gameinprogress' \in BOOLEAN /\ temp_start' \in BOOLEAN
  BY DEF Clock, Game!MasterClk, IInv, TypeOK, Game!TypeOK
<1>3. deltatime' \in 0 .. LastTime
  <2>1. CASE FrameClkRises
    <3>1. PICK running \in {gameinprogress, gameinprogress'} : Game!FrameClk(running)
      BY <2>1 DEF Clock
    <3> QED BY <3>1, LastTimeAssumption DEF LastTimeAssumption, Game!FrameClk, IInv, TypeOK, Game!TypeOK
  <2>2. CASE ~FrameClkRises
    BY <2>2 DEF Clock, IInv, TypeOK, Game!TypeOK
  <2> QED BY <2>1, <2>2
<1>4. /\ Reset_h' \in BOOLEAN /\ Press_Start' \in BOOLEAN
      /\ clocked' \in BOOLEAN /\ straddled' \in BOOLEAN
  BY DEF Clock, keys, IInv, TypeOK
<1> QED BY <1>1, <1>2, <1>3, <1>4 DEF TypeOK, Game!TypeOK

LEMMA ClockStep == IInv /\ Clock => IInv'
<1> SUFFICES ASSUME IInv, Clock PROVE IInv'
  OBVIOUS
<1>1. TypeOK'
  BY ClockType
<1>2. UNCHANGED keys /\ clocked' /\ straddled' = ((Reset_h /\ temp_start) \/ (straddled /\ deltatime' # 0))
  BY DEF Clock
<1>3. CASE Reset_h
  <2>1. Vga!Reset /\ ~gameinprogress' /\ temp_start' = temp_start
    BY <1>3 DEF Clock, Game!MasterClk
  <2>2. Held'
    BY <2>1 DEF Vga!Reset, Held
  <2>3. temp_start => straddled'
    BY <1>2, <1>3
  <2> QED BY <1>1, <2>1, <2>2, <2>3
          DEF IInv, ResetHolds, SyncBelow, Stopped, TimeLeft, AfterReset, Held
<1>4. CASE ~Reset_h
  <2>1. Vga!Clk /\ ~Reset_h'
    BY <1>2, <1>4 DEF Clock, keys
  <2>2. /\ ~AfterReset' \/ UNCHANGED <<hc, vc, vs>>
        /\ AfterReset' => ~clkdiv'
        /\ SyncBelow'
        /\ AfterReset => vs'
    BY <2>1, ScreenStep DEF IInv, TypeOK, ResetHolds
  <2>3. ~AfterReset'
    BY <2>2 DEF AfterReset
  <2>4. TimeLeft'
    <3> SUFFICES ASSUME ~gameinprogress', deltatime' \notin {0, LastTime}
                 PROVE  straddled'
      BY DEF TimeLeft
    <3>1. UNCHANGED deltatime
      <4> SUFFICES ASSUME FrameClkRises PROVE FALSE
        BY DEF Clock
      <4>1. PICK running \in {gameinprogress, gameinprogress'} : Game!FrameClk(running)
        BY DEF Clock
      <4>2. gameinprogress /\ running
        BY <4>1 DEF Game!FrameClk
      <4>3. deltatime = LastTime
        BY <1>4, <4>2 DEF Clock, Game!MasterClk
      <4> QED BY <4>1, <4>2, <4>3 DEF Game!FrameClk
    <3>2. ~gameinprogress
      BY <1>4, <3>1 DEF Clock, Game!MasterClk
    <3>3. CASE straddled
      BY <1>2, <3>3
    <3>4. CASE ~straddled
      <4>1. ~temp_start /\ Held
        BY <3>1, <3>2, <3>4 DEF IInv, TimeLeft
      <4>2. FrameClkRises
        BY <2>2, <4>1 DEF Held, AfterReset, FrameClkRises
      <4>3. PICK running \in {gameinprogress, gameinprogress'} : Game!FrameClk(running)
        BY <4>2 DEF Clock
      <4> QED BY <3>2, <4>3 DEF Game!FrameClk
    <3> QED BY <3>3, <3>4
  <2> QED BY <1>1, <2>1, <2>2, <2>3, <2>4 DEF IInv, ResetHolds, Stopped
<1> QED BY <1>3, <1>4

(* The strengthening holds in every reachable state.                       *)
THEOREM Invariant == Spec => []IInv
<1>1. Init => IInv
  <2>1. Init => TypeOK
    BY Zeros, Zenon DEF Init, Vga!Init, Game!Init, TypeOK, Vga!TypeOK, Game!TypeOK
  <2>2. Init => ResetHolds /\ SyncBelow /\ Stopped /\ TimeLeft
    BY DEF Init, Vga!Init, Game!Init, ResetHolds, SyncBelow, Stopped, TimeLeft, AfterReset,
           Held
  <2> QED BY <2>1, <2>2 DEF IInv
<1>2. IInv /\ UNCHANGED vars => IInv'
  BY DEF vars, screen, game, keys, IInv, TypeOK, Vga!TypeOK, Game!TypeOK, ResetHolds,
         SyncBelow, Stopped, TimeLeft, AfterReset, Held
<1>3. IInv /\ [Next]_vars => IInv'
  BY <1>2, KeyStep, ClockStep DEF Next
<1> QED BY <1>1, <1>3, PTL DEF Spec

(* Counters, sync flags and the game's registers keep to their widths.     *)
THEOREM TypeCorrect == Spec => []TypeOK
<1>1. IInv => TypeOK
  BY DEF IInv
<1> QED BY <1>1, Invariant, PTL

(***************************************************************************)
(* The score scrolls only while nothing is displayed, whatever the timing  *)
(* parameters: Frame_Clk rises below the picture, or at a reset's release. *)
(***************************************************************************)
THEOREM NoTearing == Spec => TearFree
<1>1. IInv /\ Key => UNCHANGED deltatime
  BY DEF Key, game
<1>2. IInv /\ Clock => (deltatime' # deltatime => vc' >= VVisible \/ AfterReset)
  <2> SUFFICES ASSUME IInv, Clock, deltatime' # deltatime
               PROVE  vc' >= VVisible \/ AfterReset
    OBVIOUS
  <2>1. ~vs /\ vs'
    BY DEF Clock, FrameClkRises
  <2>2. Vga!Clk
    BY <2>1 DEF Clock, Vga!Reset
  <2> QED BY <2>1, <2>2, ScreenStep DEF IInv, TypeOK, ResetHolds
<1>3. IInv /\ [Next]_vars => [deltatime' # deltatime => vc' >= VVisible \/ AfterReset]_vars
  BY <1>1, <1>2 DEF Next
<1> QED BY <1>3, Invariant, PTL DEF Spec, TearFree

(***************************************************************************)
(* The time a new game starts from is 0 even right after a reset, as long  *)
(* as KEY1 was not let go during it.                                       *)
(***************************************************************************)
THEOREM NewGameTime == Spec => NewGameStartsAtZero
<1>1. IInv /\ Key => UNCHANGED gameinprogress
  BY DEF Key, game
<1>2. IInv /\ Clock /\ ~gameinprogress /\ gameinprogress' => deltatime = 0 \/ straddled
  <2> SUFFICES ASSUME IInv, Clock, ~gameinprogress, gameinprogress'
               PROVE  deltatime = 0 \/ straddled
    OBVIOUS
  <2>1. temp_start /\ deltatime # LastTime
    BY DEF Clock, Game!MasterClk
  <2> QED BY <2>1 DEF IInv, TimeLeft
<1>3. IInv /\ [Next]_vars
        => [~gameinprogress /\ gameinprogress' => deltatime = 0 \/ straddled]_vars
  BY <1>1, <1>2 DEF Next
<1> QED BY <1>3, Invariant, PTL DEF Spec, NewGameStartsAtZero

(* The release of KEY0 clears the time of the game it interrupted.         *)
THEOREM ResetClears == Spec => ResetRestarts
<1>1. IInv /\ Key /\ AfterReset => ~vs'
  BY DEF Key, screen, Vga!Reset, AfterReset
<1>2. IInv /\ Clock /\ AfterReset /\ vs' => deltatime' = 0 \/ straddled
  <2> SUFFICES ASSUME IInv, Clock, AfterReset, vs', ~straddled PROVE deltatime' = 0
    OBVIOUS
  <2>1. ~Reset_h
    BY DEF Clock, Vga!Reset
  <2>2. ~gameinprogress /\ ~temp_start
    BY <2>1 DEF IInv, Stopped
  <2>3. ~gameinprogress'
    BY <2>1, <2>2 DEF Clock, Game!MasterClk
  <2>4. PICK running \in {gameinprogress, gameinprogress'} : Game!FrameClk(running)
    BY DEF Clock, FrameClkRises, AfterReset
  <2> QED BY <2>2, <2>3, <2>4 DEF Game!FrameClk
<1>3. IInv /\ [Next]_vars => [AfterReset /\ vs' => deltatime' = 0 \/ straddled]_vars
  BY <1>1, <1>2 DEF Next
<1> QED BY <1>3, Invariant, PTL DEF Spec, ResetRestarts

-----------------------------------------------------------------------------
(***************************************************************************)
(* The audio path.                                                         *)
(***************************************************************************)
Full == 2^Width                                    (* values of a word        *)
Loud == 2^(SampleBits + VelocityBits + Below)      (* and of one voice in it  *)

(***************************************************************************)
(* The inductive invariant.  Out is the register that is being shifted     *)
(* out, In the one that is loaded, Word the word of this half of the       *)
(* frame.  Shifted: after slot edges of SCLK the codec has the upper bits  *)
(* of Word and Out the lower ones; the codec's first edge of a half ends   *)
(* the word of the other one.  Quietened: silence passes from the velocity *)
(* to the oscillators and from there to the word, one sample each.         *)
(***************************************************************************)
Out  == IF LRCLK THEN L ELSE R
In   == IF LRCLK THEN R ELSE L
Word == IF LRCLK THEN before ELSE Sum

AudioTypes ==
  /\ MIDIKey \in [Voice -> Words \cup {Silence}]
  /\ FreqReg \in [Voice -> Nat]
  /\ PhaseReg \in [Voice -> 0 .. PhaseMod - 1]
  /\ WTOUT \in [Voice -> 0 .. Loud - 1]
  /\ LRCLK \in BOOLEAN /\ slot \in 0 .. Width
  /\ L \in 0 .. Full - 1 /\ R \in 0 .. Full - 1
  /\ acc \in Nat /\ before \in 0 .. 4 * Loud - 1 /\ quiet \in 0 .. 2

Shifted ==
  /\ slot = 0 => Out = Word /\ acc = before
  /\ slot > 0 => acc * Full + Out = Word * 2^slot /\ In = Sum /\ heard = 2 * before

Quietened ==
  /\ quiet > 0 => \A v \in Voice : WTOUT[v] = 0
  /\ quiet = 2 => before = 0

AudioInv == AudioTypes /\ Shifted /\ Quietened

-----------------------------------------------------------------------------
(***************************************************************************)
(* Powers of two.  2^n counts the subsets of 1 .. n.                       *)
(***************************************************************************)
LEMMA Power ==
  ASSUME NEW n \in Nat
  PROVE  /\ 2^n \in Nat /\ 2^n > 0
         /\ IsFiniteSet(SUBSET (1 .. n)) /\ 2^n = Cardinality(SUBSET (1 .. n))
<1>1. IsFiniteSet(1 .. n) /\ Cardinality(1 .. n) = n
  BY FS_Interval
<1>2. IsFiniteSet(SUBSET (1 .. n)) /\ Cardinality(SUBSET (1 .. n)) = 2^n
  BY <1>1, FS_SUBSET
<1>3. SUBSET (1 .. n) # {}
  OBVIOUS
<1>4. QED
  BY <1>2, <1>3, FS_CardinalityType, FS_EmptySet

(* A set of 1 .. a + b is one of 1 .. a together with one of the rest.     *)
LEMMA PowersMultiply ==
  ASSUME NEW a \in Nat, NEW b \in Nat
  PROVE  2^(a + b) = 2^a * 2^b
<1> DEFINE S == 1 .. a
           T == a + 1 .. a + b
           f == [p \in (SUBSET S) \X (SUBSET T) |-> p[1] \cup p[2]]
<1>1. IsFiniteSet(T) /\ Cardinality(T) = b
  BY FS_Interval
<1>2. IsFiniteSet(SUBSET T) /\ Cardinality(SUBSET T) = 2^b
  BY <1>1, FS_SUBSET
<1>3. IsFiniteSet(SUBSET S) /\ Cardinality(SUBSET S) = 2^a
  BY Power
<1>4. /\ IsFiniteSet((SUBSET S) \X (SUBSET T))
      /\ Cardinality((SUBSET S) \X (SUBSET T)) = 2^a * 2^b
  BY <1>2, <1>3, FS_Product
<1>5. S \cup T = 1 .. a + b /\ S \cap T = {}
  OBVIOUS
<1>6. f \in [(SUBSET S) \X (SUBSET T) -> SUBSET (1 .. a + b)]
  BY <1>5
<1>7. \A p, q \in (SUBSET S) \X (SUBSET T) : f[p] = f[q] => p = q
  <2>1. \A x \in SUBSET S, y \in SUBSET T : x = (x \cup y) \cap S /\ y = (x \cup y) \cap T
    <3> HIDE DEF S, T
    <3>1. QED
      BY <1>5
  <2>2. ASSUME NEW p \in (SUBSET S) \X (SUBSET T)
        PROVE  p = <<f[p] \cap S, f[p] \cap T>>
    <3> HIDE DEF S, T
    <3>1. p[1] \in SUBSET S /\ p[2] \in SUBSET T /\ p = <<p[1], p[2]>>
      OBVIOUS
    <3>2. f[p] = p[1] \cup p[2]
      OBVIOUS
    <3>3. p[1] = (p[1] \cup p[2]) \cap S /\ p[2] = (p[1] \cup p[2]) \cap T
      BY <2>1, <3>1
    <3>4. QED
      BY <3>1, <3>2, <3>3
  <2>3. QED
    <3> HIDE DEF S, T, f
    <3>1. QED
      BY <2>2
<1>8. \A z \in SUBSET (1 .. a + b) : \E p \in (SUBSET S) \X (SUBSET T) : f[p] = z
  <2> SUFFICES ASSUME NEW z \in SUBSET (1 .. a + b)
               PROVE \E p \in (SUBSET S) \X (SUBSET T) : f[p] = z
    OBVIOUS
  <2>1. <<z \cap S, z \cap T>> \in (SUBSET S) \X (SUBSET T) /\ (z \cap S) \cup (z \cap T) = z
    BY <1>5
  <2>2. f[<<z \cap S, z \cap T>>] = z
    BY <2>1
  <2>3. QED
    BY <2>1, <2>2
<1>9. f \in Bijection((SUBSET S) \X (SUBSET T), SUBSET (1 .. a + b))
  <2> HIDE DEF f
  <2>1. QED
    BY <1>6, <1>7, <1>8 DEF Bijection, Injection, Surjection, IsInjective
<1>10. Cardinality(SUBSET (1 .. a + b)) = Cardinality((SUBSET S) \X (SUBSET T))
  BY <1>4, <1>9, FS_Bijection DEF ExistsBijection
<1>11. Cardinality(SUBSET (1 .. a + b)) = 2^(a + b)
  <2>1. a + b \in Nat
    OBVIOUS
  <2>2. QED
    BY <2>1, Power, Zenon
<1>12. QED
  BY <1>4, <1>10, <1>11

(* A word has room for sixteen voices, and half of its values for eight.   *)
LEMMA Widths ==
  /\ Width \in Nat /\ Width > 1
  /\ Full \in Nat /\ Loud \in Nat /\ Loud > 0 /\ Full = 16 * Loud
  /\ 2^(Width - 1) = 8 * Loud
<1> DEFINE n == SampleBits + VelocityBits + Below
<1>1. n \in Nat /\ Width = 4 + n /\ Width - 1 = 3 + n
  BY BitsAssumption DEF BitsAssumption, Width
<1> HIDE DEF n
<1>2. 2^(4 + n) = 2^4 * 2^n /\ 2^(3 + n) = 2^3 * 2^n
  BY <1>1, PowersMultiply
<1>3. 2^n \in Nat /\ 2^n > 0
  BY <1>1, Power
<1>4. 2^4 = 16 /\ 2^3 = 8
  OBVIOUS
<1>5. 2^(4 + n) = 16 * 2^n /\ 2^(3 + n) = 8 * 2^n
  BY <1>2, <1>4
<1>6. Loud = 2^n
  BY DEF Loud, n
<1> HIDE DEF Full, Loud
<1>7. Full = 2^(4 + n)
  BY <1>1 DEF Full
<1> QED BY <1>1, <1>3, <1>5, <1>6, <1>7

(* The four voices together stay below a quarter of the values.            *)
LEMMA SumBound ==
  ASSUME WTOUT \in [Voice -> 0 .. Loud - 1]
  PROVE  Sum \in 0 .. 4 * Loud - 1
<1>1. /\ WTOUT[v0] \in 0 .. Loud - 1 /\ WTOUT[v1] \in 0 .. Loud - 1
      /\ WTOUT[v2] \in 0 .. Loud - 1 /\ WTOUT[v3] \in 0 .. Loud - 1
  BY DEF Voice
<1>2. Loud \in Nat
  BY Widths
<1> HIDE DEF Loud
<1> QED BY <1>1, <1>2 DEF Sum

(* At power-up everything is 0.                                            *)
LEMMA AudioStarts == AudioInit => AudioInv
<1> SUFFICES ASSUME AudioInit PROVE AudioInv
  OBVIOUS
<1>1. /\ Full \in Nat /\ Loud \in Nat /\ Loud > 0 /\ Full = 16 * Loud
      /\ Width \in Nat /\ PhaseMod \in Nat \ {0} /\ StartFreq \in Nat
  BY PhaseAssumption, FreqAssumption, Widths DEF PhaseAssumption, FreqAssumption
<1>2. 0 \in 0 .. Loud - 1 /\ 0 \in 0 .. Full - 1 /\ 0 \in 0 .. 4 * Loud - 1
  <2> HIDE DEF Loud, Full
  <2> QED BY <1>1
<1>3. AudioTypes
  <2>1. 0 \in 0 .. PhaseMod - 1 /\ 0 \in 0 .. Width /\ 2 \in 0 .. 2
    BY <1>1
  <2>2. /\ MIDIKey \in [Voice -> Words \cup {Silence}]
        /\ FreqReg \in [Voice -> Nat]
        /\ PhaseReg \in [Voice -> 0 .. PhaseMod - 1]
        /\ WTOUT \in [Voice -> 0 .. Loud - 1]
    BY <1>1, <1>2, <2>1 DEF AudioInit
  <2>3. /\ LRCLK \in BOOLEAN /\ slot \in 0 .. Width
        /\ L \in 0 .. Full - 1 /\ R \in 0 .. Full - 1
        /\ acc \in Nat /\ before \in 0 .. 4 * Loud - 1 /\ quiet \in 0 .. 2
    BY <1>2, <2>1 DEF AudioInit
  <2> QED BY <2>2, <2>3 DEF AudioTypes
<1>4. Sum = 0
  BY DEF AudioInit, Sum, Voice
<1> QED BY <1>3, <1>4 DEF AudioInv, Shifted, Quietened, AudioInit, Out, Word

(***************************************************************************)
(* The oscillators.                                                        *)
(***************************************************************************)
LEMMA Products ==
  ASSUME NEW a \in Nat, NEW b \in Nat, NEW c \in Nat, a > 0, b > 0, c > 0,
         NEW x \in 0 .. a - 1, NEW y \in 0 .. b - 1
  PROVE  x * y * c \in 0 .. a * b * c - 1
<1>1. x * y \in Nat /\ a * b \in Nat
  OBVIOUS
<1>2. x * y <= x * b /\ x * b <= (a - 1) * b
  OBVIOUS
<1>3. x * y + b <= a * b
  BY <1>1, <1>2
<1>4. x * y + 1 <= a * b
  BY <1>1, <1>3
<1>5. \A p, q \in Nat : p + 1 <= q => p * c \in Nat /\ p * c + c <= q * c
  OBVIOUS
<1>6. x * y * c \in Nat /\ x * y * c + c <= a * b * c
  BY <1>1, <1>4, <1>5
<1>7. a * b * c \in Nat
  BY <1>1
<1> QED BY <1>6, <1>7

(* The phase leads to an entry of the wavetable.                           *)
LEMMA PhaseIndex ==
  ASSUME AudioTypes, NEW v \in Voice
  PROVE  PhaseReg[v] \div Step \in 0 .. (PhaseMod - 1) \div Step
<1>1. PhaseReg[v] \in 0 .. PhaseMod - 1 /\ PhaseMod \in Nat \ {0} /\ Step \in Nat \ {0}
  BY PhaseAssumption DEF AudioTypes, PhaseAssumption
<1>2. \A a, b, s \in Nat : s > 0 /\ a <= b => a \div s \in 0 .. b \div s
  OBVIOUS
<1> QED BY <1>1, <1>2

(* The output of an oscillator fits the word, and velocity 0 silences it   *)
(* whatever its phase.                                                     *)
LEMMA Outputs ==
  ASSUME AudioTypes, NEW v \in Voice, NEW vel \in Velocity
  PROVE  NextOut(v, vel) \in 0 .. Loud - 1 /\ (vel = 0 => NextOut(v, vel) = 0)
<1>1. /\ SampleBits \in Nat /\ VelocityBits \in Nat /\ Below \in Nat
      /\ SampleBits + VelocityBits \in Nat
  BY BitsAssumption DEF BitsAssumption
<1>2. /\ 2^SampleBits \in Nat /\ 2^SampleBits > 0 /\ 2^VelocityBits \in Nat /\ 2^VelocityBits > 0
      /\ 2^Below \in Nat /\ 2^Below > 0
  BY <1>1, Power
<1>3. Loud = 2^SampleBits * 2^VelocityBits * 2^Below
  BY <1>1, PowersMultiply DEF Loud
<1>4. WTTemp(v) \in 0 .. 2^SampleBits - 1
  BY PhaseIndex, RAMAssumption DEF WTTemp, RAMAssumption
<1>5. vel \in 0 .. 2^VelocityBits - 1
  BY DEF Velocity
<1>6. NextOut(v, vel) = WTTemp(v) * vel * 2^Below
  BY DEF NextOut, Placed
<1>7. WTTemp(v) * vel * 2^Below \in 0 .. 2^SampleBits * 2^VelocityBits * 2^Below - 1
  BY <1>2, <1>4, <1>5, Products
<1>8. vel = 0 => WTTemp(v) * vel * 2^Below = 0
  <2>1. \A x, y \in Nat : x * 0 * y = 0
    OBVIOUS
  <2> QED BY <1>2, <1>4, <2>1
<1> QED BY <1>3, <1>6, <1>7, <1>8

(* Every register has a velocity and, through MIDIKeyConverter, a frequency.*)
LEMMA KeyTypes ==
  ASSUME AudioTypes, NEW v \in Voice
  PROVE  MIDIKey[v].vel \in Velocity /\ FreqRegInput(v) \in Nat
<1>1. 2^VelocityBits \in Nat /\ 2^VelocityBits > 0
  BY BitsAssumption, Power DEF BitsAssumption
<1>2. 0 \in Velocity
  BY <1>1 DEF Velocity
<1>3. MIDIKey[v].vel \in Velocity /\ MIDIKey[v].pitch \in Nat
  BY WordsAssumption, FreqAssumption, <1>2
     DEF AudioTypes, WordsAssumption, FreqAssumption, Silence
<1>4. Keys \in Nat /\ FirstKey \in Nat /\ Freq_ROM \in [0 .. Keys -> Nat]
  BY FreqAssumption DEF FreqAssumption
<1>5. Offset(MIDIKey[v].pitch) \in 0 .. Keys
  BY <1>3, <1>4 DEF Offset
<1> QED BY <1>3, <1>4, <1>5 DEF FreqRegInput

(* Before the clock changes the whole word has reached the codec.          *)
LEMMA WordArrived ==
  ASSUME AudioInv, WordDone
  PROVE  acc = Word /\ In = Sum /\ heard = 2 * before
<1>1. /\ Full \in Nat /\ Full > 0 /\ slot > 0
      /\ Sum \in 0 .. 4 * Loud - 1 /\ before \in 0 .. 4 * Loud - 1 /\ Loud \in Nat
  <2>1. slot = Width
    BY DEF WordDone
  <2>2. Loud \in Nat /\ Loud > 0 /\ Full = 16 * Loud /\ Width \in Nat /\ Width > 1
    BY Widths
  <2>3. WTOUT \in [Voice -> 0 .. Loud - 1] /\ before \in 0 .. 4 * Loud - 1
    BY DEF AudioInv, AudioTypes
  <2> HIDE DEF Loud, Full
  <2> QED BY <2>1, <2>2, <2>3, SumBound
<1>2. acc * Full + Out = Word * Full /\ In = Sum /\ heard = 2 * before
  BY <1>1 DEF AudioInv, Shifted, WordDone, Full
<1>3. acc \in Nat /\ Out \in 0 .. Full - 1
  BY DEF AudioInv, AudioTypes, Out
<1>4. Word \in Nat
  <2> HIDE DEF Loud, Full
  <2> QED BY <1>1 DEF Word
<1>5. ASSUME NEW a \in Nat, NEW n \in Nat, NEW b \in Nat, NEW o \in 0 .. n - 1,
             a * n + o = b * n
      PROVE  a = b
  <2>1. \A p, q \in Nat : p + 1 <= q => p * n \in Nat /\ p * n + n <= q * n
    OBVIOUS
  <2>2. a * n \in Nat /\ b * n \in Nat
    OBVIOUS
  <2>3. \A p, q \in Nat : p + o = q => ~(p + n <= q) /\ ~(q + n <= p)
    OBVIOUS
  <2>4. ~(a + 1 <= b)
    BY <1>5, <2>1, <2>2, <2>3
  <2>5. ~(b + 1 <= a)
    BY <1>5, <2>1, <2>2, <2>3
  <2> QED BY <2>4, <2>5
<1>6. acc = Word
  <2> HIDE DEF Full, Word, Out
  <2> QED BY <1>1, <1>2, <1>3, <1>4, <1>5
<1> QED BY <1>2, <1>6

(* The rising edge of LRCLK, with any velocities and frequencies: what the *)
(* registers gave so far becomes the word of the next half.                *)
LEMMA SampleStep ==
  ASSUME AudioInv, LrclkRises,
         MIDIKey' \in [Voice -> Words \cup {Silence}],
         NEW vel \in [Voice -> Velocity], NEW freq \in [Voice -> Nat],
         Sample(vel, freq)
  PROVE  AudioInv'
<1>1. /\ LRCLK = FALSE /\ LRCLK' = TRUE /\ slot' = 0 /\ before' = Sum
      /\ UNCHANGED <<L, R, acc, heard>> /\ WordDone
  BY DEF LrclkRises, AudioInv, AudioTypes
<1>2. acc = Sum /\ L = Sum
  BY <1>1, WordArrived DEF Word, In
<1>3. AudioTypes'
  <2>1. FreqReg' \in [Voice -> Nat]
    BY DEF Sample
  <2>2. PhaseReg' \in [Voice -> 0 .. PhaseMod - 1]
    <3>1. \A a, b \in Nat, m \in Nat \ {0} : (a + b) % m \in 0 .. m - 1
      OBVIOUS
    <3>2. \A v \in Voice : PhaseReg[v] \in Nat /\ FreqReg[v] \in Nat
      BY DEF AudioInv, AudioTypes
    <3>3. PhaseMod \in Nat \ {0}
      BY PhaseAssumption DEF PhaseAssumption
    <3>4. \A v \in Voice : (PhaseReg[v] + FreqReg[v]) % PhaseMod \in 0 .. PhaseMod - 1
      BY <3>1, <3>2, <3>3
    <3> QED BY <3>4 DEF Sample
  <2>3. WTOUT' \in [Voice -> 0 .. Loud - 1]
    BY Outputs DEF Sample, AudioInv
  <2>4. before' \in 0 .. 4 * Loud - 1
    BY <1>1, SumBound DEF AudioInv, AudioTypes
  <2>5. quiet' \in 0 .. 2
    BY DEF Sample, AudioInv, AudioTypes
  <2>6. slot' \in 0 .. Width
    BY <1>1, Widths
  <2>7. L' \in 0 .. Full - 1 /\ R' \in 0 .. Full - 1 /\ acc' \in Nat
    BY <1>1 DEF AudioInv, AudioTypes
  <2> QED BY <1>1, <2>1, <2>2, <2>3, <2>4, <2>5, <2>6, <2>7 DEF AudioTypes
<1>4. Shifted'
  BY <1>1, <1>2 DEF Shifted, Out, Word
<1>5. Quietened'
  <2>1. ASSUME quiet' > 0 PROVE \A v \in Voice : vel[v] = 0
    <3>1. ~ \E v \in Voice : vel[v] > 0
      BY <2>1 DEF Sample
    <3>2. \A v \in Voice : vel[v] \in Nat
      BY BitsAssumption, Power DEF Velocity, BitsAssumption
    <3> QED BY <3>1, <3>2
  <2>2. quiet' > 0 => \A v \in Voice : WTOUT'[v] = 0
    BY <2>1, Outputs DEF Sample, AudioInv
  <2>3. quiet' = 2 => before' = 0
    <3> SUFFICES ASSUME quiet' = 2 PROVE before' = 0
      OBVIOUS
    <3>1. quiet > 0
      BY DEF Sample, AudioInv, AudioTypes
    <3>2. WTOUT[v0] = 0 /\ WTOUT[v1] = 0 /\ WTOUT[v2] = 0 /\ WTOUT[v3] = 0
      BY <3>1 DEF AudioInv, Quietened, Voice
    <3> QED BY <1>1, <3>2 DEF Sum
  <2> QED BY <2>2, <2>3 DEF Quietened
<1> QED BY <1>3, <1>4, <1>5 DEF AudioInv

LEMMA SampleKeysStep == AudioInv /\ SampleKeys => AudioInv'
<1> SUFFICES ASSUME AudioInv, SampleKeys PROVE AudioInv'
  OBVIOUS
<1> DEFINE vel  == [v \in Voice |-> MIDIKey[v].vel]
           freq == [v \in Voice |-> FreqRegInput(v)]
<1>1. vel \in [Voice -> Velocity] /\ freq \in [Voice -> Nat]
  BY KeyTypes DEF AudioInv
<1>2. Sample(vel, freq) /\ LrclkRises /\ UNCHANGED MIDIKey
  BY DEF SampleKeys
<1>3. MIDIKey' \in [Voice -> Words \cup {Silence}]
  BY <1>2 DEF AudioInv, AudioTypes
<1> QED
  <2> HIDE DEF vel, freq
  <2> QED BY <1>1, <1>2, <1>3, SampleStep

(* Torn reads are velocities and frequencies too.                          *)
LEMMA SampleTornStep == AudioInv /\ SampleTorn => AudioInv'
<1> SUFFICES ASSUME AudioInv, SampleTorn PROVE AudioInv'
  OBVIOUS
<1>1. PICK v \in Voice, word \in Words, x \in Velocity, f \in 0 .. PhaseMod - 1 :
        /\ MIDIKey' = [MIDIKey EXCEPT ![v] = word]
        /\ Sample([u \in Voice |-> IF u = v THEN x ELSE MIDIKey[u].vel],
                  [u \in Voice |-> IF u = v THEN f ELSE FreqRegInput(u)])
  BY DEF SampleTorn
<1> DEFINE vel  == [u \in Voice |-> IF u = v THEN x ELSE MIDIKey[u].vel]
           freq == [u \in Voice |-> IF u = v THEN f ELSE FreqRegInput(u)]
<1>2. vel \in [Voice -> Velocity] /\ freq \in [Voice -> Nat]
  <2>1. f \in Nat
    BY PhaseAssumption DEF PhaseAssumption
  <2> QED BY <2>1, KeyTypes DEF AudioInv
<1>3. Sample(vel, freq) /\ LrclkRises
  BY <1>1 DEF SampleTorn
<1>4. MIDIKey' \in [Voice -> Words \cup {Silence}]
  BY <1>1 DEF AudioInv, AudioTypes
<1> QED
  <2> HIDE DEF vel, freq
  <2> QED BY <1>2, <1>3, <1>4, SampleStep

(* A write of a register is not heard before the next sample.              *)
LEMMA WriteKeyStep == AudioInv /\ WriteKey => AudioInv'
<1> SUFFICES ASSUME AudioInv, WriteKey PROVE AudioInv'
  OBVIOUS
<1>1. UNCHANGED <<FreqReg, PhaseReg, WTOUT, LRCLK, slot, L, R, acc, heard, before, quiet>>
  BY DEF WriteKey, osc, i2s, history
<1>2. MIDIKey' \in [Voice -> Words \cup {Silence}]
  BY DEF WriteKey, AudioInv, AudioTypes
<1>3. AudioTypes'
  BY <1>1, <1>2 DEF AudioInv, AudioTypes
<1>4. Shifted' /\ Quietened'
  BY <1>1 DEF AudioInv, Shifted, Quietened, Out, In, Word, Sum
<1> QED BY <1>3, <1>4 DEF AudioInv

(* The second half: the registers change places.                           *)
LEMMA LrclkFallsStep == AudioInv /\ LrclkFalls => AudioInv'
<1> SUFFICES ASSUME AudioInv, LrclkFalls PROVE AudioInv'
  OBVIOUS
<1>1. /\ LRCLK = TRUE /\ LRCLK' = FALSE /\ slot' = 0 /\ WordDone
      /\ UNCHANGED <<MIDIKey, FreqReg, PhaseReg, WTOUT, L, R, acc, heard, before, quiet>>
  BY DEF LrclkFalls, osc, history, AudioInv, AudioTypes
<1>2. acc = before /\ R = Sum
  BY <1>1, WordArrived DEF Word, In
<1>3. slot' \in 0 .. Width
  BY <1>1, Widths
<1>4. AudioTypes'
  BY <1>1, <1>3 DEF AudioInv, AudioTypes
<1>5. Sum' = Sum
  BY <1>1 DEF Sum
<1>6. Shifted' /\ Quietened'
  BY <1>1, <1>2, <1>5 DEF AudioInv, Shifted, Quietened, Out, Word
<1> QED BY <1>4, <1>6 DEF AudioInv

(* One bit: the upper one of the register goes to the codec.               *)
LEMMA Shift ==
  ASSUME NEW h \in Nat, NEW f \in Nat, h > 0, f = 2 * h, NEW o \in 0 .. f - 1
  PROVE  /\ o \div h \in {0, 1} /\ (2 * o) % f \in 0 .. f - 1
         /\ f * (o \div h) + ((2 * o) % f) = 2 * o
         /\ o < h => o \div h = 0 /\ (2 * o) % f = 2 * o
<1>1. CASE o < h
  <2>1. o \div h = 0
    BY <1>1
  <2>2. (2 * o) % f = 2 * o
    <3>1. 2 * o \in 0 .. f - 1
      BY <1>1
    <3> QED BY <3>1
  <2> QED BY <1>1, <2>1, <2>2
<1>2. CASE o >= h
  <2>1. o \div h = 1
    BY <1>2
  <2>2. (2 * o) % f = 2 * o - f
    <3>1. 2 * o - f \in 0 .. f - 1
      BY <1>2
    <3>2. \A x \in 0 .. f - 1 : (x + f) % f = x
      OBVIOUS
    <3> QED BY <3>1, <3>2
  <2>3. f * (o \div h) = f
    BY <2>1
  <2>4. 2 * o - f \in 0 .. f - 1
    BY <1>2
  <2>5. f + ((2 * o) % f) = 2 * o
    BY <2>2
  <2> QED BY <1>2, <2>1, <2>2, <2>3, <2>4, <2>5
<1> QED BY <1>1, <1>2

(* One edge of SCLK: the bit that leaves Out doubles the codec's part.     *)
LEMMA SclkStep == AudioInv /\ Sclk => AudioInv'
<1> SUFFICES ASSUME AudioInv, Sclk PROVE AudioInv'
  OBVIOUS
<1> DEFINE H == 2^(Width - 1)
           W == Width
<1>1. /\ W \in Nat /\ W > 1 /\ Loud \in Nat /\ Loud > 0
      /\ Full \in Nat /\ Full = 16 * Loud /\ H = 8 * Loud
  BY Widths
<1>2. /\ UNCHANGED <<MIDIKey, FreqReg, PhaseReg, WTOUT, LRCLK, before, quiet>>
      /\ slot' = slot + 1 /\ slot # W
  BY DEF Sclk, osc, history, WordDone
<1>3. /\ Sum \in 0 .. 4 * Loud - 1 /\ before \in 0 .. 4 * Loud - 1
      /\ Word \in 0 .. 4 * Loud - 1
  BY SumBound DEF AudioInv, AudioTypes, Word
<1>4. I2SDIN = Sum
  <2>1. I2SDIN = Sum % Full
    BY DEF I2SDIN, Full
  <2>2. Sum \in 0 .. Full - 1
    <3> HIDE DEF Loud, Full
    <3> QED BY <1>1, <1>3
  <2> HIDE DEF Full
  <2> QED BY <1>1, <2>1, <2>2
<1>5. Out \in 0 .. Full - 1 /\ LRCLK \in BOOLEAN /\ slot \in 0 .. W /\ acc \in Nat
  BY DEF AudioInv, AudioTypes, Out
<1>6. /\ Dout = Out \div H
      /\ Out' = (2 * Out) % Full /\ In' = Sum
      /\ Word' = Word
  BY <1>2, <1>4, <1>5 DEF Sclk, Dout, Msb, Left, Out, In, Word, Full, Sum
<1>7. /\ Out \div H \in {0, 1} /\ (2 * Out) % Full \in 0 .. Full - 1
      /\ Full * (Out \div H) + ((2 * Out) % Full) = 2 * Out
      /\ Out < H => Out \div H = 0 /\ (2 * Out) % Full = 2 * Out
  <2> HIDE DEF Full, H, Loud, Out
  <2>1. H \in Nat /\ H > 0 /\ Full = 2 * H
    BY <1>1
  <2> QED BY <1>1, <1>5, <2>1, Shift, Zenon
<1>8. slot = 0 => heard' = Signed(2 * acc + Out \div H, Width) /\ acc' = 0
  BY <1>6 DEF Sclk
<1>9. slot # 0 => acc' = 2 * acc + Out \div H /\ UNCHANGED heard
  BY <1>6 DEF Sclk
<1>10. AudioTypes'
  <2>1. slot' \in 0 .. Width
    BY <1>1, <1>2, <1>5
  <2>2. acc' \in Nat
    <3> HIDE DEF H, Out, Full
    <3> QED BY <1>5, <1>7, <1>8, <1>9
  <2>3. Sum \in 0 .. Full - 1
    <3> HIDE DEF Loud, Full
    <3> QED BY <1>1, <1>3
  <2>4. L' \in 0 .. Full - 1 /\ R' \in 0 .. Full - 1
    <3>1. {L', R'} = {Out', In'}
      BY <1>2, <1>5 DEF Out, In
    <3>2. Out' \in 0 .. Full - 1 /\ In' \in 0 .. Full - 1
      BY <1>6, <1>7, <2>3
    <3> HIDE DEF Full, Out, In
    <3> QED BY <3>1, <3>2
  <2> QED BY <1>2, <2>1, <2>2, <2>4 DEF AudioInv, AudioTypes
<1>11. acc' * Full + Out' = Word * 2^slot' /\ heard' = 2 * before
  <2>1. CASE slot = 0
    <3>1. Out = Word /\ acc = before
      BY <2>1 DEF AudioInv, Shifted
    <3>2. Word < H
      <4> HIDE DEF H, Loud, Word
      <4> QED BY <1>1, <1>3
    <3>3. Out \div H = 0 /\ Out' = 2 * Word
      <4> HIDE DEF H, Word, Out, Full
      <4> QED BY <1>6, <1>7, <3>1, <3>2
    <3>4. acc' * Full + Out' = Word * 2^slot'
      <4>1. 2^slot' = 2
        <5>1. slot' = 1 /\ 2^1 = 2
          BY <1>2, <2>1
        <5> QED BY <5>1
      <4> HIDE DEF Word, Out, Full
      <4> QED BY <1>1, <1>3, <1>8, <2>1, <3>3, <4>1
    <3>5. heard' = 2 * before
      <4>1. Signed(2 * before, Width) = 2 * before
        <5>1. 2 * before < H
          <6> HIDE DEF H, Loud
          <6> QED BY <1>1, <1>3
        <5> QED BY <5>1 DEF Signed
      <4>2. 2 * acc + Out \div H = 2 * before
        <5> HIDE DEF H, Out, Word, Loud
        <5> QED BY <1>1, <1>3, <3>1, <3>3
      <4> QED BY <1>8, <2>1, <4>1, <4>2
    <3> QED BY <3>4, <3>5
  <2>2. CASE slot # 0
    <3>1. acc * Full + Out = Word * 2^slot /\ heard = 2 * before
      BY <1>5, <2>2 DEF AudioInv, Shifted
    <3>2. acc' * Full + Out' = 2 * (acc * Full + Out)
      <4>1. \A a, f, b, o \in Nat : (2 * a + b) * f = 2 * (a * f) + f * b
        OBVIOUS
      <4>2. acc' * Full = 2 * (acc * Full) + Full * (Out \div H)
        <5> HIDE DEF H, Out, Full
        <5> QED BY <1>1, <1>5, <1>7, <1>9, <2>2, <4>1
      <4>3. acc * Full \in Nat /\ Full * (Out \div H) \in Nat
        <5> HIDE DEF H, Out, Full
        <5> QED BY <1>1, <1>5, <1>7
      <4>4. Out \in Nat /\ Out' \in Nat
        BY <1>1, <1>5, <1>6, <1>7
      <4> QED
        <5>1. \A p, q, r, s \in Nat : \A t :
                q + r = 2 * s /\ t = 2 * p + q => t + r = 2 * (p + s)
          OBVIOUS
        <5> HIDE DEF H, Out, Full
        <5>2. Full * (Out \div H) + Out' = 2 * Out
          BY <1>6, <1>7
        <5> QED BY <4>2, <4>3, <4>4, <5>1, <5>2
    <3>3. 2^slot' = 2^slot * 2 /\ 2^slot \in Nat
      <4>1. 2^1 = 2
        OBVIOUS
      <4>2. slot \in Nat /\ 1 \in Nat
        BY <1>1, <1>5
      <4>3. 2^(slot + 1) = 2^slot * 2^1 /\ 2^slot \in Nat
        BY <4>2, PowersMultiply, Power
      <4> QED BY <1>2, <4>1, <4>3
    <3>4. Word * (2^slot * 2) = 2 * (Word * 2^slot)
      <4>1. \A a, b \in Nat : a * (b * 2) = 2 * (a * b)
        OBVIOUS
      <4>2. Word \in Nat
        <5> HIDE DEF Word, Loud
        <5> QED BY <1>1, <1>3
      <4> HIDE DEF Word
      <4> QED BY <3>3, <4>1, <4>2
    <3> QED
      <4> HIDE DEF Word, Out, Full, H
      <4> QED BY <1>9, <1>2, <2>2, <3>1, <3>2, <3>3, <3>4
  <2> QED BY <2>1, <2>2
<1>12. Shifted'
  <2>1. slot' > 0 /\ Word' = Word /\ In' = Sum /\ before' = before /\ Sum' = Sum
    BY <1>2, <1>5, <1>6 DEF Sum
  <2> HIDE DEF Word, In, Out, Full
  <2> QED BY <1>11, <2>1 DEF Shifted
<1>13. Quietened'
  BY <1>2 DEF AudioInv, Quietened
<1> QED BY <1>10, <1>12, <1>13 DEF AudioInv

(* The invariant of the audio path.                                        *)
THEOREM AudioInvariant == AudioSpec => []AudioInv
<1>1. AudioInv /\ UNCHANGED audioVars => AudioInv'
  BY DEF audioVars, osc, i2s, history, AudioInv, AudioTypes, Shifted, Quietened, Out, In,
         Word, Sum
<1>2. AudioInv /\ [AudioNext]_audioVars => AudioInv'
  BY <1>1, SampleKeysStep, SampleTornStep, WriteKeyStep, LrclkFallsStep, SclkStep
     DEF AudioNext
<1>3. AudioInit => AudioInv
  BY AudioStarts
<1> QED BY <1>2, <1>3, PTL DEF AudioSpec

(***************************************************************************)
(* What the codec hears in both words of a frame is the sum of one sample. *)
(***************************************************************************)
THEOREM CodecHearsSum == AudioSpec => []HeardIsSum
<1>1. AudioInv => HeardIsSum
  BY DEF AudioInv, Shifted, HeardIsSum
<1> QED BY <1>1, AudioInvariant, PTL

(***************************************************************************)
(* What the comment at PhaseOSC.sv 44 asks for, the signed sample times the*)
(* velocity, and how far the registered word is from it: a negative sample *)
(* is heard as much too large as 2^SampleBits times its velocity.          *)
(***************************************************************************)
SignedOut(v, vel) == Placed(Signed(WTTemp(v), SampleBits) * vel)
Negative(v) == ~(WTTemp(v) < 2^(SampleBits - 1))

LEMMA SignIsLost ==
  ASSUME AudioTypes, NEW v \in Voice, NEW vel \in Velocity
  PROVE  NextOut(v, vel) = SignedOut(v, vel)
                             + (IF Negative(v) THEN Placed(2^SampleBits * vel) ELSE 0)
<1> DEFINE w == WTTemp(v)
           n == 2^SampleBits
           p == 2^Below
<1>1. n \in Nat /\ p \in Nat /\ vel \in Nat
  <2>1. SampleBits \in Nat /\ VelocityBits \in Nat /\ Below \in Nat
    BY BitsAssumption DEF BitsAssumption
  <2>2. n \in Nat /\ p \in Nat /\ 2^VelocityBits \in Nat
    BY <2>1, Power
  <2>3. vel \in Nat
    BY <2>2 DEF Velocity
  <2> QED BY <2>2, <2>3
<1>2. w \in Nat
  <2>1. w \in 0 .. n - 1
    BY PhaseIndex, RAMAssumption DEF WTTemp, RAMAssumption
  <2> QED BY <1>1, <2>1
<1>3. NextOut(v, vel) = w * vel * p /\ Placed(n * vel) = n * vel * p
  BY DEF NextOut, Placed
<1>4. CASE Negative(v)
  <2>1. SignedOut(v, vel) = (w - n) * vel * p
    BY <1>4 DEF SignedOut, Signed, Negative, Placed
  <2> HIDE DEF w, n, p
  <2>2. (w - n) * vel = w * vel - n * vel
    BY <1>1, <1>2
  <2>3. \A a, b, c \in Int : (a - b) * c = a * c - b * c
    OBVIOUS
  <2>4. /\ w * vel \in Int /\ n * vel \in Int
        /\ w * vel * p \in Int /\ n * vel * p \in Int /\ p \in Int
    BY <1>1, <1>2
  <2>5. (w * vel - n * vel) * p = w * vel * p - n * vel * p
    BY <2>3, <2>4
  <2>6. SignedOut(v, vel) = w * vel * p - n * vel * p
    BY <2>1, <2>2, <2>5
  <2>7. \A a, b \in Int : a = (a - b) + b
    OBVIOUS
  <2>8. w * vel * p = SignedOut(v, vel) + n * vel * p
    BY <2>4, <2>6, <2>7
  <2>9. NextOut(v, vel) = SignedOut(v, vel) + Placed(n * vel)
    BY <1>3, <2>8
  <2> QED BY <1>4, <2>9 DEF n
<1>5. CASE ~Negative(v)
  <2>1. SignedOut(v, vel) = w * vel * p
    BY <1>5 DEF SignedOut, Signed, Negative, Placed
  <2> HIDE DEF w, n, p
  <2>2. w * vel * p \in Int
    BY <1>1, <1>2
  <2> QED BY <1>3, <1>5, <2>1, <2>2
<1> QED BY <1>4, <1>5

(* Two samples after the last velocity the codec gets silence.             *)
THEOREM CodecHearsSilence == AudioSpec => []SilenceIsHeard
<1>1. AudioInv => SilenceIsHeard
  BY DEF AudioInv, Shifted, Quietened, SilenceIsHeard
<1> QED BY <1>1, AudioInvariant, PTL
=============================================================================
