SPECIFICATION Spec
CONSTANTS
  k1 = k1
  nokey = nokey
  MaxItems = 1
  Keys = {k1}
  NoKey = nokey
  Requests <- OneVoucher
  MaxAttempts = 8
  Backoff <- ShortBackoff
  Cooldown = 2
  RecoveryDelay = 1
  MaxResends = 0
  MaxRestarts = 0
INVARIANT
  RetriedUntilReached
