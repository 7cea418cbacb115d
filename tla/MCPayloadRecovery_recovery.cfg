SPECIFICATION FairSpec
CONSTANTS
  MaxAttempts = 2
  Requests = {r1}
  Hashes = {h1, h2}
  Sweepers = {s1}
  BatchLimit = 1
  Undecided = undecided
INVARIANTS
  LedgerMatchesReceipts
  CanonicalPayloadKept
  ReadableIsDurable
  OnlyCanonicalCommitted
  ReceiptMeansDurable
  ReplayLeavesNoStage
PROPERTIES
  TriggersNeverFire
  ImplementsPrivateDraft
  EveryAttemptTerminates
CHECK_DEADLOCK FALSE
