SPECIFICATION FairSpec
CONSTANTS
  Calls <- MCCalls
  Depth = 4
  Retries = 3
  MaxFaults = 4
INVARIANTS
  TypeOK
  AccessTakesEffect
PROPERTIES
  StartUpEnds
CHECK_DEADLOCK FALSE
