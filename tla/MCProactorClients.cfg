CONSTANTS
  MaxSessions = 3
  MaxLinks = 2
  MaxCredit = 1
  MaxEvents = 3
  MaxTotalLinks = 4
  MaxCycles = 2
  ShortBatch = 2
  LongBatch = 4
  MaxPieces = 2
  Window = 2
  MaxMsgs = 2
  Header = 1
  BodyBatch = 2
  Body = 3
  Frame = 2
  MaxWindow = 1
  Word = 4
  FrameLimits = {2, 3}
SPECIFICATION FairSpec
INVARIANTS
  ClosesInFlight
  CountsRight
  WithinWindow
PROPERTIES
  Terminates
  PushesBack
