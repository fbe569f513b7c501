\* A MIDI keyboard is handed to DefaultAddressing after an SE1 on the bus.
SPECIFICATION Spec
CONSTANTS
  PoolSize = 2
  MaxRetries = 1
  MayGlitch = TRUE
  MaxChanges = 3
INVARIANT DefaultOnlyForUnsupported
