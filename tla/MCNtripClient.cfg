SPECIFICATION Spec
CONSTANTS
  MaxNets = 3
  Ssids <- MCSsids
  InRange <- MCInRange
  RetryInit = 1
  RetryMax = 3
  SocketTimeout = 1
  CorrectionStale = 2
  GgaPeriod = 3
  AgeCap = 3
  StallMax = 1
  RxCap = 2
INVARIANTS
  TypeOK
  SocketReturned
  OnlyGrantedStreams
PROPERTIES
  StreamsKept
  DeadSocketDropped
  Recovers
