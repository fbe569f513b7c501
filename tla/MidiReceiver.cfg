\* A buffer of four slots; packets of 1, 2 or 4 events.
SPECIFICATION Spec
CONSTANTS
  Slots = 4
  a = a
  b = b
  c = c
  Zero = Zero
  Nothing = Nothing
  Messages <- Events
  Dataless <- RealTime
  PacketSizes <- SafeSizes
  MaxOutbox = 4
INVARIANTS
  TypeOK
  UnprocessedIsNew
PROPERTIES
  ImplementsQueue
