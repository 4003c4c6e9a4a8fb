CONSTANTS
  MaxSessions = 1
  MaxLinks = 1
  MaxCredit = 1
  MaxEvents = 2
  Header = 1
  BodyBatch = 2
  Body = 3
  Frame = 2
  MaxWindow = 1
CHECK_DEADLOCK FALSE
SPECIFICATION Spec
INVARIANT
  SendsUntilStopped
