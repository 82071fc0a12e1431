SPECIFICATION Spec
CONSTANTS
  k1 = k1
  nokey = nokey
  MaxItems = 2
  Keys = {k1}
  NoKey = nokey
  Requests <- Receipts
  MaxAttempts = 2
  Backoff <- ShortBackoff
  Cooldown = 2
  RecoveryDelay = 1
  MaxResends = 0
  MaxRestarts = 1
PROPERTY
  ReceiptSpacingAlways
