SPECIFICATION FairWatchSpec
CONSTANT Patience = 3
INVARIANTS
  WatchTypeOK
  SeveredIsExplained
PROPERTY
  SignInEnds
