CONSTANTS
  Limits = {0, 3}
  MaxGranted = 3
  Informs = {TRUE}
SPECIFICATION Spec
INVARIANT
  SendsOneAtATime
