SPECIFICATION Spec
CONSTANTS
  Kid = {"k1", "k2"}
  Bytes = {"b1", "b2"}
  Input = {"in", "other"}
  Entry <- MCEntry
  MaxKeys = 2
INVARIANTS
  TypeOK
  AcceptedIsSigned
  NamingAKeyOnlyNarrows
  OrderDecidesNothing
  WithdrawnKeyIsRefused
  RotationLeavesNoGap
