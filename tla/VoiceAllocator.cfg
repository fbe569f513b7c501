\* Three voices against three pitches: all voices busy, doubled notes, drops.
SPECIFICATION Spec
CONSTANTS
  NumNotes = 3
  Pitches <- Keys
  Velocities <- Strengths
INVARIANTS
  TypeOK
  FreeVoiceIsSilent
PROPERTIES
  ImplementsPolyphony
