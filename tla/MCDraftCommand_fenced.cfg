SPECIFICATION Spec
CONSTANTS
  Commands = {c1, c2}
  Requests = {k1}
  Texts = {x, y}
  Operations <- AllOperations
  Bearers <- TwoBearers
  Lease = 1
  MaxTime = 3
  MaxGeneration = 2
  None = None

SYMMETRY Symmetry
INVARIANTS
  TypeOK
  AuthorizedToCommit
  AnswersAgree
PROPERTY ImplementsLedger
CHECK_DEADLOCK FALSE
