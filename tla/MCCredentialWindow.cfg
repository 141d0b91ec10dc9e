SPECIFICATION Spec
CONSTANTS
  MinInstant <- MCMinInstant
  MaxInstant <- MCMaxInstant
INVARIANTS
  TypeOK
  SaturationIsInvisible
PROPERTIES
  ForwardTimeNeverReopens
  ForgivingMoreOnlyWidens
