SPECIFICATION FairSpec
CONSTANTS
  Diamond = {d1, d2}
  Customer = {c1}
  Fixture <- InStock
  MaxSequence = 2
  MaxRetries = 1
  MaxLate = 0
  MaxCrashes = 1
  StorageFaults = TRUE
  JobFaults = FALSE
  QueueTakesColons = TRUE
INVARIANTS
  TypeOK
  CommitmentsAreVerified
  ReceiptsAreMirrored
PROPERTIES
  CallsReturn
  ToldHoldsSettle
