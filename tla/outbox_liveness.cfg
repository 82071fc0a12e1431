SPECIFICATION FairSpec
CONSTANTS
  k1 = k1
  nokey = nokey
  MaxItems = 2
  Keys = {k1}
  NoKey = nokey
  Requests <- MixedRequests
  MaxAttempts = 3
  Backoff <- TwoStepBackoff
  Cooldown = 2
  RecoveryDelay = 1
  MaxResends = 0
  MaxRestarts = 1
PROPERTIES
  EventuallySettled
