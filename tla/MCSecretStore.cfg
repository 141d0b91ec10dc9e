SPECIFICATION Spec
CONSTANTS
  MinInstant <- MCMinInstant
  MaxInstant = 2
  SecretText = {"old", "new"}
  SecretName = {"x", "y"}
  Leeway = 1
  MaxHeld = 3
INVARIANTS
  TypeOK
  FoldIsFirstMatch
PROPERTIES
  RotationLeavesNoGap
  ExpiredStaysExpired
