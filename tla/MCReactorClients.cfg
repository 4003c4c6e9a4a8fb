CONSTANTS
  Limits = {0, 1, 2}
  MaxGranted = 2
  Informs = {FALSE, TRUE}
  Windows = {1, 2, 3}
  MaxMsgs = 3
  MayAbort = TRUE
  FewWindows = {2}
  FewMsgs = 2
  MaxConnects = 2
  LinkCount = 2
  Chunks = 2
  HighWater = 2
  MaxFlows = 3
  MaxEvents = 2
SPECIFICATION FairSpec
INVARIANTS
  ClosesAfterAll
  KeepsPace
  NoIdleCredit
PROPERTIES
  ImplementsBulkSend
  Terminates
