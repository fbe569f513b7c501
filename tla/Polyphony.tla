------------------------------ MODULE Polyphony ------------------------------
(***************************************************************************)
(* What the voice allocator of main.cpp promises, without saying how: a    *)
(* fixed set of voices, each idle or playing one pitch.  A Note On starts  *)
(* its pitch on some idle voice and is ignored only when every voice is    *)
(* busy; a Note Off stops exactly one voice that plays its pitch, if there *)
(* is one; no other message touches a voice.  The very first Note On is    *)
(* swallowed.  Which voice is taken or stopped is left open, and there is  *)
(* one table: the implementation keeps two that must agree.                *)
(***************************************************************************)
EXTENDS Integers

CONSTANTS NumNotes,    (* how many voices the hardware has                 *)
          Pitches,     (* the pitches the keyboard can send                *)
          Velocities   (* the velocities the keyboard can send             *)

VARIABLES packet,      (* the last MIDI message handled                    *)
          voice,       (* the pitch each voice plays, or Idle              *)
          listening    (* FALSE until the first Note On was swallowed      *)

vars == <<packet, voice, listening>>

Idle  == -1
Voice == 0 .. NumNotes - 1

Message == [kind : {"on", "off", "other"}, pitch : Pitches, vel : Velocities]

Init ==
  /\ packet = [kind |-> "none", pitch |-> 0, vel |-> 0]
  /\ voice = [i \in Voice |-> Idle]
  /\ listening = FALSE

IdleVoices      == {i \in Voice : voice[i] = Idle}
VoicesPlaying(p) == {i \in Voice : voice[i] = p}

Swallow(m) ==
  /\ m.kind = "on" /\ ~listening
  /\ listening' = TRUE
  /\ UNCHANGED voice

Start(m) ==
  /\ m.kind = "on" /\ listening
  /\ \E i \in IdleVoices : voice' = [voice EXCEPT ![i] = m.pitch]
  /\ UNCHANGED listening

Stop(m) ==
  /\ m.kind = "off"
  /\ \E i \in VoicesPlaying(m.pitch) : voice' = [voice EXCEPT ![i] = Idle]
  /\ UNCHANGED listening

Ignore(m) ==
  /\ \/ m.kind = "on" /\ listening /\ IdleVoices = {}
     \/ m.kind = "off" /\ VoicesPlaying(m.pitch) = {}
     \/ m.kind = "other"
  /\ UNCHANGED <<voice, listening>>

Handle(m) ==
  /\ packet' = m
  /\ Swallow(m) \/ Start(m) \/ Stop(m) \/ Ignore(m)

Next == \E m \in Message : Handle(m)

Spec == Init /\ [][Next]_vars
=============================================================================
