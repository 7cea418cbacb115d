SPECIFICATION SpecExpiry
CONSTANTS
  k1 = k1
  k2 = k2
  k3 = k3
  Conns = {c1, c2}
  Keys = {k1, k2, k3}
  Bearers <- FourBearers
  MaxTime = 3
  MaxGeneration = 3
  NoSession = NoSession
  NoKey = NoKey
  NoBearer = NoBearer
SYMMETRY Symmetry
INVARIANTS
  SingleLiveSession
  FencedUntilCommit
  NoDeadlock
  LineageIsAChain
  LateNeverCommits
PROPERTIES
  NoLostAuthority
  NoRollback
  ImplementsSessionPolicy
CHECK_DEADLOCK FALSE
