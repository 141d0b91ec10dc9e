SPECIFICATION Spec
CONSTANTS
  Name <- MCName
  Text <- MCText
  Blank = {"blank"}
  SaysVerified = {"verified"}
  EvidenceName = {"broker", "principal.user"}
  ProofName <- MCProofName
  Account = {"ann", "bob"}
  AccountOf <- MCAccountOf
  Party = {}
  TechnologyName = {}
  PasswordName = {"password"}
  TechnologyAnswers = {}
  RegistryKey = {}
  MaxLinked = 1
  Arrival = {a1}
  Claim <- MCClaim
INVARIANTS
  StrengthFollowsTheWord
  OneAccountPerIdentity
