\* Two keys, two voices, a buffer of three slots, one unplugging and replugging.
SPECIFICATION Spec
CONSTANTS
  NumNotes = 2
  Pitches <- Keys
  Velocities = {100}
  Slots = 3
  PacketSizes <- SafeSizes
  MaxOutbox = 3
  Zero = Zero
  Nothing = Nothing
  InitialPitch = 24
  MaxPlugs = 2
INVARIANTS
  TypeOK
  NoHangingNote
  ReleaseDiscardsNothing
PROPERTIES
  ReleasedKeyFallsSilent
  UnplugIsNoticed
