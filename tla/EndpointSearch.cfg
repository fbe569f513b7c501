SPECIFICATION SearchSpec
CONSTANTS
  Devices <- MCDevices
  VarBuffer = 4
  PacketMax = 3
  MaxAttached = 2
INVARIANTS
  SearchTypeOK
  MidiPairTaken
CHECK_DEADLOCK FALSE
