SPECIFICATION Spec
CONSTANTS
  d1 = d1
  d2 = d2
  d3 = d3
  d4 = d4
  d5 = d5
  round = round
  oval = oval
  NotGiven = NotGiven
  Inventory <- MCInventory
  Kind <- MCKind
  Price <- MCPrice
  Color <- MCColor
  Clarity <- MCClarity
  Filter <- MCFilter
  PageSize = {1, 2, 3}
  MaxMoves = 2
INVARIANTS
  TypeOK
  UndisturbedWalksAreExact
  SkipsAtMostWhatWasTaken
  RepeatsAtMostWhatReturned
