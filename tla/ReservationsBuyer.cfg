SPECIFICATION Spec
CONSTANTS
  Diamond = {d1}
  Customer = {c1, c2}
  Fixture <- InStock
  MaxSequence = 3
  MaxRetries = 0
  MaxLate = 0
  MaxCrashes = 0
  StorageFaults = FALSE
  JobFaults = FALSE
  QueueTakesColons = TRUE
PROPERTY HeldStonesAreSoldToTheirHolder
