SPECIFICATION Spec
CONSTANTS
  User = {alice, bob}
  Password <- MCPassword
  Empty = ""
  HmacKey <- MCHmacKey
  Iterations = {0, 2}
  Realm = {"xmip"}
  MaxDrawn = 3
SYMMETRY Symmetry
INVARIANTS
  TypeOK
  ScramAgreesWithPassword
  NothingHeldIsAClientKey
  Ha1IsItsSlots
PROPERTIES
  StoreIsABook
