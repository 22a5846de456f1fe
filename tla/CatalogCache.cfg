SPECIFICATION Spec
CONSTANTS
  Diamond = {d1, d2}
  Query = {q1}
  Reader = {r1, r2}
  Hook = {w1, w2}
  Absent = Absent
  MaxChanges = 1
  RedisFaults = TRUE
SYMMETRY Symmetry
INVARIANTS
  TypeOK
  OnlyRacesLeaveStaleEntries
  PagesAreTracked
