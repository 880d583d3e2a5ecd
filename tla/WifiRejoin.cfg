SPECIFICATION Spec
CONSTANTS
  MaxSockets = 3
  MaxClients = 2
  Phones = {p1, p2}
  Caster = caster
  None = NoSocket
  Outside = Outside
  Counts = {0, NoSocket, Outside}
  MaxDrops = 1
  MaxMisreads = 1
INVARIANT RestartWorks
