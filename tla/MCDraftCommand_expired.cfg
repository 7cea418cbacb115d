SPECIFICATION Spec
CONSTANTS
  Commands = {c1, c2}
  Requests = {k1}
  Texts = {x}
  Operations <- AllOperations
  Bearers <- OneBearer
  Lease = 2
  MaxTime = 2
  MaxGeneration = 1
  None = None

INVARIANT ExpiredGetsNoReceipt
CHECK_DEADLOCK FALSE
