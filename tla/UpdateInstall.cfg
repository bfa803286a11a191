SPECIFICATION FairSpec
CONSTANTS
  Platforms = {"macos", "windows"}
  Builds <- MCBuilds
  First = 1
  MaxFaults = 2
  MaxAttempts = 3
INVARIANTS
  NeverLost
  ResultIsTrue
PROPERTIES
  ImplementsVersion
  RelaunchUnlessRaced
CHECK_DEADLOCK FALSE
