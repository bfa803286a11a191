SPECIFICATION FairSpec
CONSTANTS
  s1 = s1
  s2 = s2
  c1 = c1
  u1 = u1
  Sessions <- MCOneSession
  Channels <- MCChannels
  Users <- MCUsers
  StartedAt <- MCStartedAt
  Scripts <- MCSyncScripts
  Ends <- MCAnywhere
  Requests = {r1, r2}
  MaxFaults = 1
  MaxAges = 0
INVARIANTS
  OpenMatches
  RosterMatches
PROPERTY AllAccepted
CHECK_DEADLOCK FALSE
