------------------------ MODULE VoiceAllocator_proofs ------------------------
(***************************************************************************)
(* Proofs about VoiceAllocator for every number of voices and every set of *)
(* pitches and velocities.                                                 *)
(***************************************************************************)
EXTENDS VoiceAllocator, TLAPS

(* Every message handler step is one of five cases. *)
LEMMA HandlerCases ==
  ASSUME NEW m \in Message, Handle(m)
  PROVE  /\ packet' = m
         /\ \/ m.kind = "on" /\ DropFirst(m)
            \/ m.kind = "on" /\ TakeVoice(m)
            \/ m.kind = "on" /\ NoVoice(m)
            \/ m.kind = "off" /\ FreeVoice(m)
            \/ m.kind = "off" /\ NotFound(m)
            \/ m.kind = "other" /\ UNCHANGED <<note_vol, note_used, first_note>>
  BY DEF Handle, NoteOn, NoteOff, Message

-----------------------------------------------------------------------------
(* A message keeps the types: words are built from its own bytes.          *)
LEMMA HandleKeepsTypes ==
  ASSUME TypeOK, NEW m \in Message, Handle(m)
  PROVE  TypeOK'
<1>1. packet' \in Message \cup {NoMessage}
  BY HandlerCases
<1>2. [pitch |-> m.pitch, vol |-> m.vel] \in Word /\ Silence \in Word
  BY DEF Message, Word
<1>3. CASE UNCHANGED <<note_vol, note_used>> /\ first_note' \in BOOLEAN
  BY <1>1, <1>3 DEF TypeOK
<1>4. CASE TakeVoice(m)
  BY <1>1, <1>2, <1>4 DEF TypeOK, TakeVoice
<1>5. CASE FreeVoice(m)
  BY <1>1, <1>2, <1>5 DEF TypeOK, FreeVoice
<1>6. QED
  BY <1>3, <1>4, <1>5, HandlerCases DEF TypeOK, DropFirst, NoVoice, NotFound

(* A message keeps free voices silent: the two tables change together at   *)
(* one index.                                                              *)
LEMMA HandleKeepsSilence ==
  ASSUME TypeOK, FreeVoiceIsSilent, NEW m \in Message, Handle(m)
  PROVE  FreeVoiceIsSilent'
<1>1. CASE TakeVoice(m)
  BY <1>1 DEF TakeVoice, FreeVoiceIsSilent, TypeOK
<1>2. CASE FreeVoice(m)
  BY <1>2 DEF FreeVoice, FreeVoiceIsSilent, TypeOK
<1>3. CASE UNCHANGED <<note_vol, note_used>>
  BY <1>3 DEF FreeVoiceIsSilent
<1>4. QED
  BY <1>1, <1>2, <1>3, HandlerCases DEF DropFirst, NoVoice, NotFound

-----------------------------------------------------------------------------
(* The registers only ever hold silence or a word built from a message.    *)
THEOREM TypeCorrect == Spec => []TypeOK
<1>1. Init => TypeOK
  BY DEF Init, TypeOK, Word, Silence, NoMessage
<1>2. TypeOK /\ [Next]_vars => TypeOK'
  <2>1. TypeOK /\ Next => TypeOK'
    BY HandleKeepsTypes DEF Next
  <2>2. TypeOK /\ UNCHANGED vars => TypeOK'
    BY DEF vars, TypeOK
  <2>3. QED
    BY <2>1, <2>2
<1>3. QED
  BY <1>1, <1>2, PTL DEF Spec

-----------------------------------------------------------------------------
(***************************************************************************)
(* A voice that Note On may hand out is silent.  The invariant is          *)
(* inductive with TypeOK.                                                  *)
(***************************************************************************)
THEOREM FreeVoicesAreSilent == Spec => []FreeVoiceIsSilent
<1>1. Init => FreeVoiceIsSilent
  BY DEF Init, FreeVoiceIsSilent
<1>2. TypeOK /\ FreeVoiceIsSilent /\ [Next]_vars => FreeVoiceIsSilent'
  <2>1. TypeOK /\ FreeVoiceIsSilent /\ Next => FreeVoiceIsSilent'
    BY HandleKeepsSilence DEF Next
  <2>2. FreeVoiceIsSilent /\ UNCHANGED vars => FreeVoiceIsSilent'
    BY DEF vars, FreeVoiceIsSilent
  <2>3. QED
    BY <2>1, <2>2
<1>3. QED
  BY <1>1, <1>2, TypeCorrect, PTL DEF Spec

-----------------------------------------------------------------------------
(***************************************************************************)
(* Refinement.  Without pitch 0 the pitch byte of a free voice matches no  *)
(* Note Off, so the search by register finds exactly the voices that the   *)
(* flags say are playing.                                                  *)
(***************************************************************************)

(* A voice in use never maps to Polyphony's Idle.                          *)
LEMMA VoiceMap ==
  ASSUME NEW i \in Voice, note_used[i], TypeOK
  PROVE  note_vol[i].pitch # -1
  BY ByteAssumption DEF TypeOK, Word, Silence, Byte

(* Every handled message is a step of Polyphony or leaves it unchanged.    *)
LEMMA StepSimulation ==
  ASSUME 0 \notin Pitches, TypeOK, TypeOK', FreeVoiceIsSilent, [Next]_vars
  PROVE  [Abstract!Next]_Abstract!vars
<1> DEFINE map == [i \in Voice |-> IF note_used[i] THEN note_vol[i].pitch ELSE -1]
<1>1. ASSUME NEW m \in Message, Handle(m)
      PROVE  Abstract!Handle(m)
  <2>1. CASE m.kind = "on" /\ DropFirst(m)
    <3>1. Abstract!Swallow(m)
      BY <2>1 DEF DropFirst, Abstract!Swallow
    <3>2. QED
      BY <3>1, <1>1, HandlerCases DEF Abstract!Handle
  <2>2. CASE m.kind = "on" /\ TakeVoice(m)
    <3>1. PICK i \in Voice :
            /\ ~note_used[i]
            /\ note_used' = [note_used EXCEPT ![i] = TRUE]
            /\ note_vol' = [note_vol EXCEPT ![i] = [pitch |-> m.pitch, vol |-> m.vel]]
      BY <2>2 DEF TakeVoice, FirstAvailable, Available
    <3>2. i \in Abstract!IdleVoices
      BY <3>1 DEF Abstract!IdleVoices, Abstract!Voice, Abstract!Idle, Voice
    <3>3. map' = [map EXCEPT ![i] = m.pitch]
      BY <3>1 DEF TypeOK
    <3>4. Abstract!Start(m)
      BY <2>2, <3>2, <3>3 DEF Abstract!Start, TakeVoice
    <3>5. QED
      BY <3>4, <1>1, HandlerCases DEF Abstract!Handle
  <2>3. CASE m.kind = "on" /\ NoVoice(m)
    <3>1. Abstract!IdleVoices = {}
      BY <2>3, VoiceMap DEF NoVoice, Available, Abstract!IdleVoices, Abstract!Voice,
                            Abstract!Idle, Voice
    <3>2. Abstract!Ignore(m)
      BY <2>3, <3>1 DEF Abstract!Ignore, NoVoice
    <3>3. QED
      BY <3>2, <1>1, HandlerCases DEF Abstract!Handle
  <2>4. CASE m.kind = "off" /\ FreeVoice(m)
    <3>1. PICK i \in Voice :
            /\ note_vol[i].pitch = m.pitch
            /\ note_used' = [note_used EXCEPT ![i] = FALSE]
            /\ note_vol' = [note_vol EXCEPT ![i] = Silence]
      BY <2>4 DEF FreeVoice, FirstSounding, Sounds
    <3>2. m.pitch # 0
      BY DEF Message
    <3>3. note_used[i]
      BY <3>1, <3>2 DEF FreeVoiceIsSilent, Silence, TypeOK
    <3>4. i \in Abstract!VoicesPlaying(m.pitch)
      BY <3>1, <3>3 DEF Abstract!VoicesPlaying, Abstract!Voice, Voice
    <3>5. map' = [map EXCEPT ![i] = -1]
      BY <3>1 DEF TypeOK
    <3>6. Abstract!Stop(m)
      BY <2>4, <3>4, <3>5 DEF Abstract!Stop, Abstract!Idle, FreeVoice
    <3>7. QED
      BY <3>6, <1>1, HandlerCases DEF Abstract!Handle
  <2>5. CASE m.kind = "off" /\ NotFound(m)
    <3>1. m.pitch # -1
      BY ByteAssumption DEF Message, Byte
    <3>2. Abstract!VoicesPlaying(m.pitch) = {}
      BY <2>5, <3>1 DEF NotFound, Sounds, Abstract!VoicesPlaying, Abstract!Voice, Voice
    <3>3. Abstract!Ignore(m)
      BY <2>5, <3>2 DEF Abstract!Ignore, NotFound
    <3>4. QED
      BY <3>3, <1>1, HandlerCases DEF Abstract!Handle
  <2>6. CASE m.kind = "other" /\ UNCHANGED <<note_vol, note_used, first_note>>
    BY <2>6, <1>1, HandlerCases DEF Abstract!Handle, Abstract!Ignore
  <2>7. QED
    BY <1>1, <2>1, <2>2, <2>3, <2>4, <2>5, <2>6, HandlerCases
<1>2. CASE UNCHANGED vars
  BY <1>2 DEF vars, Abstract!vars
<1>3. Abstract!Message = Message
  BY DEF Abstract!Message, Message
<1>4. QED
  BY <1>1, <1>2, <1>3 DEF Next, Abstract!Next

(***************************************************************************)
(* Every run of the loop is a run of Polyphony: messages are never ignored *)
(* while a voice is idle, a Note Off stops exactly one voice of its pitch, *)
(* nothing else moves.  The mapping needs both invariants above, and the   *)
(* hypothesis on pitch 0 cannot be dropped: a Note Off for pitch 0 would   *)
(* be spent on the first free voice.                                       *)
(***************************************************************************)
THEOREM Refinement ==
  ASSUME 0 \notin Pitches
  PROVE  Spec => ImplementsPolyphony
<1>1. Init => Abstract!Init
  BY DEF Init, Abstract!Init, NoMessage, Voice, Abstract!Voice, Abstract!Idle
<1>2. TypeOK /\ TypeOK' /\ FreeVoiceIsSilent /\ [Next]_vars => [Abstract!Next]_Abstract!vars
  BY StepSimulation
<1>3. QED
  BY <1>1, <1>2, TypeCorrect, FreeVoicesAreSilent, PTL
     DEF Spec, ImplementsPolyphony, Abstract!Spec

=============================================================================
