SPECIFICATION Spec
CONSTANTS
  Diamond = {d1}
  Customer = {c1}
  Fixture <- InStock
  MaxSequence = 2
  MaxRetries = 1
  MaxLate = 0
  MaxCrashes = 0
  StorageFaults = FALSE
  JobFaults = FALSE
  QueueTakesColons = FALSE
INVARIANT HeldRowsHaveTheirJob
