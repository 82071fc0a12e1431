SPECIFICATION Spec
CONSTANTS
  Messages = {m1, m2}
  Handlers = {h1, h2}
  Nothing = Nothing
  MaxClockSkew = 1
  NonceCacheTTL = 3
  ReadTimeout = 1
  MaxTime = 6
  Activations = {a1, a2}
  Adapters = {1, 2}
  FirstAdapters <- SecondAdapterFirst
  MaxRedemptions = 1
  NoLicense = NoLicense
  MaxChanges = 2
  NoFile = NoFile
  Blank = Blank
  Mixed = Mixed
  Patchers = {"service"}
  Unpatchers = {"uninstaller"}
  Shipped <- TwoFiles
  Under = {"TDL/receipt.tdl", "TDL/sales.tdl", "TDL2/another.tdl"}
  FirstIni <- TurnedOff
  UserLines <- TheyAdd
  Idle = Idle
  MaxStarts = 2
  MaxEdits = 2
  Runners = {"daily", "byHand"}
  Packages = {"first", "second", "third", "forged"}
  VersionOf <- NumberOf
  Manifests <- AllManifests
  Signed <- SignedManifests
  FirstMsi = "first"
  MaxRuns = 2
  Presses = {"press1", "press2", "file", "text"}
  Kind <- KindOf
  Voucher <- OneDocument
  Contacts <- SentTo
  Valid = {"anna", "ben"}
  MaxRetries = 2
  MaxPresses = 2
  MaxRestarts = 1
  MaxBuckets = 1
INVARIANTS
  TypeOK
  AcceptedAtMostOnce
  RememberedWhileAcceptable
  SurvivesRestart
  SpentOncePerMachine
  UserLinesSurvive
  PatchTakesEffect
  UpdatesGoForward
  PressAccounted
CHECK_DEADLOCK FALSE
