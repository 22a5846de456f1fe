SPECIFICATION Spec
CONSTANTS
  Window = {a1, a2}
  User = {u1}
  Url = {url1, url2}
  Company = {co1}
  Empty = Empty
  NoRow = NoRow
  NoInput = NoInput
  MaxWrites = 2
SYMMETRY Symmetry
INVARIANTS
  TypeOK
  KeysGoToTheirSystem
PROPERTY OnlyStaleFormsUndo
