SPECIFICATION Spec
CONSTANTS
  DefaultNotBefore = 0
  DefaultNotAfter = 9
  Text <- MCText
  NameOf <- MCNameOf
  PrincipalOf <- MCPrincipalOf
  Trimmed <- MCTrimmed
  Lower <- MCLower
  Minted <- MCMinted
  Received <- MCReceived
  AnchorSets <- MCAnchorSets
  ListSets <- MCListSets
  MAX_SUB_CA_COUNT = 2
  MaxI64 = 10
  MinTime <- MCMinTime
  MaxTime = 4
INVARIANTS
  TypeOK
  KeptWhileAWalkWouldProveIt
  EachVouchesForTheOneBelow
  TighteningTakesLess
  ForgedIsNotAbsent
  SilenceIsNotAPass
  ListedIsRefused
  OneAccountPerCertificate
  MintedIsTaken
