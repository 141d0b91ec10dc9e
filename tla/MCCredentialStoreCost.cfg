SPECIFICATION Spec
CONSTANTS
  User = {"alice", "bob"}
  Password <- MCPassword
  Empty = ""
  HmacKey <- MCHmacKey
  Iterations = {0, 1, 2}
  Realm = {"xmip"}
  MaxDrawn = 3
INVARIANTS
  UnknownCostsTheSame
