SPECIFICATION Spec
CONSTANTS
  DefaultNotBefore = 0
  DefaultNotAfter = 9
  Text <- MCText
  NameOf <- MCNameOf
  PrincipalOf <- MCPrincipalOf
  Trimmed <- MCTrimmed
  Lower <- MCLower
  Minted <- MCMinted
  Received <- MCReceived
  AnchorSets <- Roots
  ListSets <- TwoLists
  MAX_SUB_CA_COUNT = 2
  MaxI64 = 10
  MinTime = 0
  MaxTime = 4
INVARIANT OnAnyListIsRefused
