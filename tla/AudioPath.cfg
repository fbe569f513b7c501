SPECIFICATION AudioSpec
CONSTANTS
  v0 = v0
  v1 = v1
  v2 = v2
  v3 = v3
  Words <- MCWords
  FirstKey = 2
  Keys = 2
  Freq_ROM <- MCFreqROM
  StartFreq = 1
  PhaseMod = 4
  Step = 2
  RAM <- MCRAM
  SampleBits = 2
  VelocityBits = 2
  Below = 1
  MaxWrites = 5
  MaxTorn = 1
SYMMETRY Symmetry
INVARIANTS
  HeardIsSum
  SilenceIsHeard
