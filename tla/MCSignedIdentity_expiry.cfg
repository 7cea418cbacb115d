SPECIFICATION Spec
CONSTANTS
  k1 = k1
  k2 = k2
  dotted = dotted
  ka = ka
  kb = kb
  kc = kc
  alice = alice
  bob = bob
  None = None
  Documents <- Rotation
  Tokens <- SomeTokens
  Bindings <- SomeBindings
  Commands <- SomeCommands
  Requests = {r1}
  TrustKids <- AllKids
  ConfigKids <- PlainKids
  MaxKeys = 2
  SoftTtl = 1
  HardTtl = 2
  MaxLifetime = 3
  MaxTime = 4
  MaxEpoch = 2
INVARIANT HardExpiryEndsTrust
CHECK_DEADLOCK FALSE
