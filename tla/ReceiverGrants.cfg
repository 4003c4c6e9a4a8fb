CONSTANTS
  Limits = {0, 1, 2, 3, 4}
  Windows = {1, 2, 3, 4}
  MaxMsgs = 5
  MayAbort = TRUE
SPECIFICATION FairSpec
PROPERTY
  GrantsOnlyWanted
