SPECIFICATION CarefulSpec
CONSTANTS
  a1 = a1
  a2 = a2
  NoAccount = NoAccount
  Products = {"S2", "S1"}
  Accounts <- MCAccounts
  Catalogues <- MCTwoCatalogues
  UserActions = {"card", "warning", "cancel", "refresh"}
  Silent = {}
  MaxActions = 2
  MaxTries = 0
  MaxBacklog = 0
INVARIANT SameAccount
CHECK_DEADLOCK FALSE
