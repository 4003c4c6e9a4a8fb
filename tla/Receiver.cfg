CONSTANTS
  Limits = {0, 1, 2, 3}
  Windows = {1, 2, 3}
  MaxMsgs = 4
  MayAbort = TRUE
SPECIFICATION FairSpec
INVARIANTS
  TypeOK
  WindowRespected
  OnlyEndedMessages
  NeverStarves
  NoMessageForgotten
PROPERTY
  Terminates
