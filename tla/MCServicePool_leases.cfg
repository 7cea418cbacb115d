SPECIFICATION Spec
CONSTANTS
  Callers = {l1, l2}
  Conns = {c1}
  Pools <- SomePools
  Drifts <- SomeDrifts
  Settings <- SomeSettings
  MaxChanges = 1
  WaitingCap = 1
  NoConn = NoConn

SYMMETRY Symmetry
INVARIANTS
  StandingDriftRefused
  LentOnce
  NothingLeaks
  AnswerIsTrue
CHECK_DEADLOCK FALSE
