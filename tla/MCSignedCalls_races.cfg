SPECIFICATION Spec
CONSTANTS
  c1 = c1
  c2 = c2
  c3 = c3
  alice = alice
  bob = bob
  None = None
  Calls = {c1, c2, c3}
  Accounts = {alice, bob}
  Operations <- MCOperations
  Bearers <- MCBearers
  ProofTtl = 2
  MaxLifetime = 3
  Skews <- MCSkews
  MaxTime = 4
INVARIANTS TypeOK AnswerIsTrue
PROPERTIES OneActorOnePrincipal ImplementsLink
CHECK_DEADLOCK FALSE
