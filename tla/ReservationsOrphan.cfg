SPECIFICATION Spec
CONSTANTS
  Diamond = {d1}
  Customer = {c1}
  Fixture <- InStock
  MaxSequence = 3
  MaxRetries = 3
  MaxLate = 0
  MaxCrashes = 0
  StorageFaults = FALSE
  JobFaults = FALSE
  QueueTakesColons = TRUE
INVARIANT HoldsAreVisible
