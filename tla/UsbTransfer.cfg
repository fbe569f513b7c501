SPECIFICATION Spec
CONSTANTS
  MaxPkt = 2
  BufSize = 4
  Totals = {2, 5}
  OutSizes = {3}
  NakPower <- MCNakPower
  MaxNakPower = 2
  RetryLimit = 2
  Word = 16
  MaxCalls = 2
  MaxLost = 1
INVARIANTS
  TypeOK
  BulkOnceInOrder
  ReadsOwnDescriptor
  OutDelivered
  CleanRequestSucceeds
PROPERTIES
  TransferEnds
CHECK_DEADLOCK FALSE
