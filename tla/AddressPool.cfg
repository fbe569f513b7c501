SPECIFICATION Spec
CONSTANTS
  Size = 4
  HubLimit = 4
  MaxPort = 2
INVARIANTS
  TypeOK
  UniqueAddresses
  NoOrphans
PROPERTIES
  FreesTheSubtree
  FreeEnds
