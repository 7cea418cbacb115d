SPECIFICATION OneProcess
CONSTANTS
  k1 = k1
  k2 = k2
  dotted = dotted
  ka = ka
  kb = kb
  kc = kc
  alice = alice
  bob = bob
  None = None
  Documents <- Return
  Tokens <- SomeTokens
  Bindings <- SomeBindings
  Commands <- SomeCommands
  Requests = {r1, r2}
  TrustKids <- AllKids
  ConfigKids <- PlainKids
  MaxKeys = 2
  SoftTtl = 1
  HardTtl = 2
  MaxLifetime = 3
  MaxTime = 2
  MaxEpoch = 1
INVARIANT OneKeyPerKid
CHECK_DEADLOCK FALSE
