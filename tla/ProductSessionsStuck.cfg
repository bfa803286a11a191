SPECIFICATION FairSpec
CONSTANTS
  a1 = a1
  a2 = a2
  NoAccount = NoAccount
  Products = {"S2", "S1", "W3"}
  Accounts <- MCOneAccount
  Catalogues <- MCCatalogues
  UserActions = {}
  Silent = {}
  MaxActions = 0
  MaxTries = 0
  MaxBacklog = 0
PROPERTY QueueMoves
CHECK_DEADLOCK FALSE
