SPECIFICATION Spec
CONSTANTS
  a1 = a1
  a2 = a2
  NoAccount = NoAccount
  Products = {"S2", "S1"}
  Accounts <- MCOneAccount
  Catalogues <- MCCatalogues
  UserActions = {"card", "warning", "cancel", "refresh", "signout"}
  Silent = {}
  MaxActions = 2
  MaxTries = 1
  MaxBacklog = 0
INVARIANTS
  NobodyWaitsUnseen
  QueueSound
  QuietMeansDisconnected
CHECK_DEADLOCK FALSE
