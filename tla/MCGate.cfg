SPECIFICATION Spec
CONSTANTS
  Name <- MCName
  Text <- MCText
  Blank = {}
  SaysVerified = {}
  EvidenceName = {"principal.user"}
  ProofName = {"broker.connection"}
  Account = {"ann", "bob"}
  AccountOf <- MCAccountOf
  Party = {1, 2}
  TechnologyName = {"kerberos"}
  PasswordName = {}
  TechnologyAnswers <- MCAnswers
  RegistryKey <- MCRegistryKey
  MaxLinked = 2
  Arrival = {a1, a2}
  Claim <- MCClaim
SYMMETRY Symmetry
INVARIANTS
  TypeOK
  CallsFollow
  OnlyTheDeclaredNameIsAsked
  RegistryHearsOnlyTheVerified
  UndeclaredSeesNoModule
  RegistryUnseenWithoutProof
  NamingPartiesOnlyNarrows
