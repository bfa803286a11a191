SPECIFICATION FairSpec
CONSTANTS
  a1 = a1
  a2 = a2
  NoAccount = NoAccount
  Products = {"S2", "S1", "W3"}
  Accounts <- MCOneAccount
  Catalogues <- MCTwoCatalogues
  UserActions = {"type"}
  Silent = {"S2", "S1", "W3"}
  MaxActions = 0
  MaxTries = 2
  MaxBacklog = 0
PROPERTY QueueMovesUntilHeld
CHECK_DEADLOCK FALSE
