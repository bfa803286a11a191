SPECIFICATION FairSpec
CONSTANTS
  Releases <- MCReleases
  MaxClicks = 3
INVARIANTS
  OfferIsReal
  HiddenMeansIdle
  ReadyIsVerified
PROPERTY
  StartupConnects
CHECK_DEADLOCK FALSE
