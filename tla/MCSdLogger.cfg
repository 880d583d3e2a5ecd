SPECIFICATION Spec
CONSTANTS
  Modes = {r, b}
  NoFile = NoFile
  MaxStamp = 0
  MaxSuffix = 1
  SyncPeriod = 1
  StallMax = 2
  BufChunks = 2
  MaxChunks = 3
SYMMETRY Symmetry
INVARIANTS
  TypeOK
  NoHoles
  PrefixIsMode
  SafeToPowerOff
  BoundedLoss
PROPERTIES
  NeverOverwritten
  ClosedWhole
  NoneDiscarded
