SPECIFICATION Spec
CONSTANTS
  a1 = a1
  a2 = a2
  NoAccount = NoAccount
  Products = {"S2", "S1"}
  Accounts <- MCAccounts
  Catalogues <- MCCatalogues
  UserActions = {"signout"}
  Silent = {}
  MaxActions = 1
  MaxTries = 0
  MaxBacklog = 0
INVARIANT SameAccount
CHECK_DEADLOCK FALSE
