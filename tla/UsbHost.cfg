\* Two pool entries, one retry, illegal bus levels, six changes of the bus.
SPECIFICATION Spec
CONSTANTS
  PoolSize = 2
  MaxRetries = 1
  MayGlitch = TRUE
  MaxChanges = 6
INVARIANTS
  TypeOK
  PolledThroughOwnEntry
  DriverFindsRoom
  RunningHasDriver
PROPERTIES
  RemovalReleases
  SteadyDeviceIsSettled
