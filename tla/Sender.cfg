CONSTANTS
  Limits = {0, 1, 2}
  MaxGranted = 2
  Informs = {FALSE, TRUE}
SPECIFICATION FairSpec
INVARIANTS
  TypeOK
  CreditSpent
  OutcomesCountedOnce
  CompleteMeansAllAcked
  GrantsAddUp
  NoIdleCredit
PROPERTIES
  ImplementsBulkSend
  Terminates
