SPECIFICATION FairSpec
CONSTANTS
  Name <- MCName
  Text <- MCText
  Blank = {"blank"}
  SaysVerified = {}
  EvidenceName = {"principal.user", "scope"}
  ProofName = {"broker.connection"}
  Account = {"ann", "bob"}
  AccountOf <- MCAccountOf
  Party = {1, 2}
  TechnologyName = {"kerberos", "circumstance"}
  PasswordName = {}
  TechnologyAnswers <- MCAnswers
  RegistryKey <- MCRegistryKey
  MaxLinked = 2
  Arrival = {a1}
  Claim <- MCClaim
PROPERTIES
  GateKeepsItsPromise
  LinkingNeverTakesOver
  EveryCallIsAnswered
