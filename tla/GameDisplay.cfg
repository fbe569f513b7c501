\* Lines of six pixels, pictures of six lines, a game of three frames.
SPECIFICATION Spec
CONSTANTS
  hpixels = 5
  vlines = 5
  HVisible = 2
  VVisible = 2
  HSyncFirst = 3
  HSyncEnd = 5
  VSyncFirst = 3
  LastTime = 3
INVARIANT TypeOK
PROPERTIES
  TearFree
  NewGameStartsAtZero
  ResetRestarts
  GameEnds
