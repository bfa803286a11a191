SPECIFICATION FairSpec
CONSTANTS
  a1 = a1
  a2 = a2
  NoAccount = NoAccount
  Accounts <- MCAccounts
  Products = {"S2", "S1", "W3"}
  MaxCommands = 2
INVARIANTS
  TypeOK
  ConnectedAsExpected
  SignOutForgets
PROPERTIES
  OnlyProvenCredentialKept
  AttemptEnds
  WorkerFinishes
