SPECIFICATION Spec
CONSTANTS
  s1 = s1
  s2 = s2
  c1 = c1
  u1 = u1
  Sessions <- MCTwoSessions
  Channels <- MCChannels
  Users <- MCUsers
  StartedAt <- MCStartedAt
  Scripts <- MCNights
  Ends <- MCWholeSync
  Requests = {r1, r2}
  MaxFaults = 1
  MaxAges = 1
INVARIANTS
  TranscriptMatches
  AckedIsStored
PROPERTY PruneKeepsShown
CHECK_DEADLOCK FALSE
