SPECIFICATION Spec
CONSTANTS
  Diamond = {d1}
  Customer = {c1, c2}
  Fixture <- InStock
  MaxSequence = 2
  MaxRetries = 1
  MaxLate = 1
  MaxCrashes = 0
  StorageFaults = FALSE
  JobFaults = TRUE
  QueueTakesColons = TRUE
SYMMETRY Symmetry
INVARIANTS
  MirrorAgreesOnHolds
  ReleasedInErpFirst
PROPERTIES
  RowsSettleOnce
  HoldsEndByRequest
