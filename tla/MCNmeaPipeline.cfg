SPECIFICATION Spec
CONSTANTS
  Phones = {p1, p2, p3}
  Centrals = {c1}
  None = None
  QueueLines = 2
  RingLines = 2
  MaxClients = 2
  MaxNotify = 1
  MaxLines = 5
SYMMETRY Symmetry
INVARIANTS
  TypeOK
  NoLineMissed
  OneSlotEach
  NoGreetingBacklog
PROPERTIES
  InOrder
  RefusedOnlyWhenFull
  FreshWhenDrained
