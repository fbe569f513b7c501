\* A buffer of four slots; packets of any non-zero size up to it.
SPECIFICATION Spec
CONSTANTS
  Slots = 4
  a = a
  b = b
  c = c
  Zero = Zero
  Nothing = Nothing
  Messages <- Events
  Dataless <- RealTime
  PacketSizes <- FullSizes
  MaxOutbox = 4
INVARIANTS
  UnprocessedIsNew
