CONSTANTS
  Limits = {0, 1, 2}
  BodyLengths = {0, 2, 5}
  RemoteMaxFrames = {0, 2}
  DEFAULT_MAX_FRAME = 3
  MaxGranted = 2
  MaySignal = FALSE
  MayClose = FALSE
  EarlyOutcomes = FALSE
CHECK_DEADLOCK FALSE
SPECIFICATION Spec
INVARIANTS
  NoAbort
  OneContinuation
  NoIdleCredit
  OutcomesCountedOnce
PROPERTY
  ImplementsBulkSend
