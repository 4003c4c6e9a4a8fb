CONSTANTS
  Limits = {0, 1, 2}
  MaxGranted = 2
  Informs = {FALSE, TRUE}
SPECIFICATION FairSpec
INVARIANTS
  OwnLatency
  SpansTheTransfer
  OneOutstanding
  NeverIdle
PROPERTIES
  ImplementsBulkSend
  Terminates
