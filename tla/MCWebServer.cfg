SPECIFICATION Spec
CONSTANTS
  reader = reader
  booter = booter
  stranger = stranger
  bloat = bloat
  Browsers = {reader, booter, stranger, bloat}
  None = None
  Request <- Some
  MaxBody = 3
  PageChunks = 2
  Budget = 2
  RequestTimeout = 2
  ResponseTimeout = 3
  RebootDelay = 1
  MaxPass = 3
INVARIANTS
  TypeOK
  BoundedHold
PROPERTIES
  ExchangeKept
  RebootComes
