SPECIFICATION FairSpec
CONSTANTS
  p1 = p1
  p2 = p2
  lite = lite
  gone = gone
  Payments <- TwoPayments
  CLI = CLI
  PlanOf <- PlanNamed
  Plans = {lite}
  MaxRedemptions <- TwoMachines
  Codes = {c1, c2}
  Fingerprints = {f1, f2, f3}
  Handlers = {h1, h2}
  None = None
  MaxLicenses = 3
  MaxFailures = 1
INVARIANTS
  TypeOK
  OneTokenPerPayment
  RedemptionsAccounted
  SignedIsRecorded
  RefusedOnlyWhenFull
PROPERTIES
  ImplementsLedger
  PaidMeansTold
