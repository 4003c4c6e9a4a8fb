CONSTANTS
  SlotCount = 4
  WriteMax = 2
  MaxData = 5
  Clients = {c1, c2}
  Counts = {1, 3}
  Scales = {1, 2}
  Word = 5
  BUFFER_SIZE = 2
  InFlight = 2
  c1 = c1
  c2 = c2
SPECIFICATION FairSpec
INVARIANTS
  StreamIntact
  ReportsAll
PROPERTIES
  Forwards
  EveryoneReported
