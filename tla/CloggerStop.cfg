CONSTANTS
  Limits = {0, 1}
  BodyLengths = {4}
  RemoteMaxFrames = {0}
  DEFAULT_MAX_FRAME = 3
  MaxGranted = 1
  MaySignal = TRUE
  MayClose = FALSE
  EarlyOutcomes = TRUE
CHECK_DEADLOCK FALSE
SPECIFICATION FairSpec
PROPERTY
  Terminates
