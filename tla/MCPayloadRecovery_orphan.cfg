SPECIFICATION Spec
CONSTANTS
  MaxAttempts = 1
  Requests = {r1}
  Hashes = {h1}
  Sweepers = {s1}
  BatchLimit = 1
  Undecided = undecided
INVARIANT NoOrphanStage
CHECK_DEADLOCK FALSE
