--------------------------- MODULE VoiceAllocator ---------------------------
(***************************************************************************)
(* The voice allocator: the body of main()'s loop in                       *)
(* src/SOC/software/space_jam/main.cpp once RecvData has returned a        *)
(* message.  NUM_NOTES 16-bit PIO registers drive the oscillators: the     *)
(* high byte is the pitch, the low byte the velocity, and the word 0 is    *)
(* silence.  note_used[] says which of them are taken.  The two tables are *)
(* written separately: a Note On looks for a voice in note_used, a Note    *)
(* Off looks for one in the high bytes of the registers.                   *)
(*                                                                         *)
(* A register word is the pair of its bytes, which (p << 8) + v and w >> 8 *)
(* build and take apart without loss for 8-bit p and v.  muted is never    *)
(* set (its code is commented out), note_clocks is never read.             *)
(***************************************************************************)
EXTENDS Integers

CONSTANTS NumNotes,    (* NUM_NOTES, 4 in the code                         *)
          Pitches,     (* the pitch bytes the keyboard can send            *)
          Velocities   (* the velocity bytes the keyboard can send         *)

Byte == 0 .. 255

ASSUME NumNotesAssumption == NumNotes \in Nat \ {0}
ASSUME ByteAssumption     == Pitches \subseteq Byte /\ Velocities \subseteq Byte

VARIABLES packet,      (* MIDI_packet: the message being handled           *)
          note_vol,    (* what *(note_vol_array[i]) reads back             *)
          note_used,   (* note_used[i]                                     *)
          first_note   (* first_note                                       *)

vars == <<packet, note_vol, note_used, first_note>>

Voice   == 0 .. NumNotes - 1
Silence == [pitch |-> 0, vol |-> 0]
Word    == [pitch : Pitches, vol : Velocities] \cup {Silence}

(***************************************************************************)
(* MIDI_packet[0] >> 4 is 9 for "on" and 8 for "off"; the other nibbles    *)
(* fall through the switch.                                                *)
(***************************************************************************)
Message   == [kind : {"on", "off", "other"}, pitch : Pitches, vel : Velocities]
NoMessage == [kind |-> "none", pitch |-> 0, vel |-> 0]

Init ==
  /\ packet = NoMessage
  /\ note_vol = [i \in Voice |-> Silence]
  /\ note_used = [i \in Voice |-> FALSE]
  /\ first_note = TRUE

-----------------------------------------------------------------------------
(***************************************************************************)
(* The two searches: for loops from index 0 that break at the first hit.   *)
(***************************************************************************)
Available(i) == ~note_used[i]
Sounds(i, p) == note_vol[i].pitch = p

FirstAvailable(i) == Available(i) /\ \A j \in 0 .. i - 1 : ~Available(j)
FirstSounding(i, p) == Sounds(i, p) /\ \A j \in 0 .. i - 1 : ~Sounds(j, p)

(***************************************************************************)
(* Note On.  The first one ever is taken for the initial data packet of    *)
(* the keyboard and dropped; one that finds no free voice is dropped too.  *)
(* The velocity is not looked at: velocity 0 takes a voice as well.        *)
(***************************************************************************)
DropFirst(m) ==
  /\ first_note
  /\ first_note' = FALSE
  /\ UNCHANGED <<note_vol, note_used>>

(* Mutant: velocity and pitch swapped when the word is put together.       *)
TakeVoiceSwapped(m) ==
  /\ ~first_note
  /\ \E i \in Voice :
       /\ FirstAvailable(i)
       /\ note_used' = [note_used EXCEPT ![i] = TRUE]
       /\ note_vol' = [note_vol EXCEPT ![i] = [pitch |-> m.vel, vol |-> m.pitch]]
  /\ UNCHANGED first_note

TakeVoice(m) ==
  /\ ~first_note
  /\ \E i \in Voice :
       /\ FirstAvailable(i)
       /\ note_used' = [note_used EXCEPT ![i] = TRUE]
       /\ note_vol' = [note_vol EXCEPT ![i] = [pitch |-> m.pitch, vol |-> m.vel]]
  /\ UNCHANGED first_note

NoVoice(m) ==
  /\ ~first_note
  /\ \A i \in Voice : ~Available(i)
  /\ UNCHANGED <<note_vol, note_used, first_note>>

NoteOn(m) == DropFirst(m) \/ TakeVoice(m) \/ NoVoice(m)

(***************************************************************************)
(* Note Off.  The first register whose pitch byte matches is zeroed and    *)
(* its flag reset, whether or not the flag was set.                        *)
(***************************************************************************)
(* Mutant: the flag is reset, the register keeps its word.                 *)
FreeVoiceKeepsWord(m) ==
  /\ \E i \in Voice :
       /\ FirstSounding(i, m.pitch)
       /\ note_used' = [note_used EXCEPT ![i] = FALSE]
  /\ UNCHANGED <<note_vol, first_note>>

(* Mutant: no break, so every voice on that pitch is turned off.           *)
FreeEveryVoice(m) ==
  /\ \E i \in Voice : Sounds(i, m.pitch)
  /\ note_vol' = [i \in Voice |-> IF Sounds(i, m.pitch) THEN Silence ELSE note_vol[i]]
  /\ note_used' = [i \in Voice |-> note_used[i] /\ ~Sounds(i, m.pitch)]
  /\ UNCHANGED first_note

FreeVoice(m) ==
  /\ \E i \in Voice :
       /\ FirstSounding(i, m.pitch)
       /\ note_vol' = [note_vol EXCEPT ![i] = Silence]
       /\ note_used' = [note_used EXCEPT ![i] = FALSE]
  /\ UNCHANGED first_note

NotFound(m) ==
  /\ \A i \in Voice : ~Sounds(i, m.pitch)
  /\ UNCHANGED <<note_vol, note_used, first_note>>

NoteOff(m) == FreeVoice(m) \/ NotFound(m)

Handle(m) ==
  /\ packet' = m
  /\ CASE m.kind = "on"    -> NoteOn(m)
       [] m.kind = "off"   -> NoteOff(m)
       [] m.kind = "other" -> UNCHANGED <<note_vol, note_used, first_note>>

Next == \E m \in Message : Handle(m)

Spec == Init /\ [][Next]_vars

-----------------------------------------------------------------------------
(* Registers only ever hold silence or a word put together from a message. *)
TypeOK ==
  /\ packet \in Message \cup {NoMessage}
  /\ note_vol \in [Voice -> Word]
  /\ note_used \in [Voice -> BOOLEAN]
  /\ first_note \in BOOLEAN

(***************************************************************************)
(* The two tables agree where the hardware listens: a voice that Note On   *)
(* may hand out again is silent, so no oscillator sounds without an owner. *)
(***************************************************************************)
FreeVoiceIsSilent == \A i \in Voice : ~note_used[i] => note_vol[i] = Silence

(***************************************************************************)
(* The search by pitch byte and the search by flag together behave like    *)
(* one table of voices: seen through the mapping below every run of the    *)
(* loop is a run of Polyphony.  It needs 0 \notin Pitches: the word of a   *)
(* free voice has pitch byte 0.                                            *)
(***************************************************************************)
Abstract == INSTANCE Polyphony WITH
  voice     <- [i \in Voice |-> IF note_used[i] THEN note_vol[i].pitch ELSE -1],
  listening <- ~first_note

ImplementsPolyphony == Abstract!Spec

(* The voices that play a pitch.                                           *)
Playing(p) == {i \in Voice : note_used[i] /\ Sounds(i, p)}
=============================================================================
