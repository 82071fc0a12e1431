SPECIFICATION Spec
CONSTANTS
  k1 = k1
  nokey = nokey
  MaxItems = 2
  Keys = {k1}
  NoKey = nokey
  Requests <- MixedRequests
  MaxAttempts = 2
  Backoff <- ShortBackoff
  Cooldown = 2
  RecoveryDelay = 1
  MaxResends = 1
  MaxRestarts = 1
INVARIANTS
  TypeOK
  SendingIsHeld
  SentMeansDelivered
  OneItemPerKey
  NoUnexplainedDuplicate
  ClaimsAccounted
  AttemptsWithinBudget
PROPERTIES
  ReceiptSpacing
  ImplementsQueue
