SPECIFICATION ErpSpec
CONSTANTS
  d1 = d1
  d2 = d2
  d3 = d3
  d4 = d4
  Diamond = {d1, d2, d3, d4}
  Customer = {c1, c2}
  Fixture <- MCFixture
  MaxSequence = 5
INVARIANTS
  ErpTypeOK
  ReferencesDrawnOnce
  HoldsReserveTheirDiamond
  SoldOnce
PROPERTY ImplementsLedger
