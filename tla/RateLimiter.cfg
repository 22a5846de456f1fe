SPECIFICATION Spec
CONSTANTS
  Limit = {1, 2}
  Minute = 3
  MinSleep = 1
  MaxRetries = 1
  Call = {c1, c2}
  Absent = Absent
  MaxTime = 6
SYMMETRY Symmetry
INVARIANTS
  TypeOK
  RateIsBounded
  WakesToAToken
