SPECIFICATION Spec
CONSTANTS
  s1 = s1
  s2 = s2
  c1 = c1
  u1 = u1
  Sessions <- MCOneSession
  Channels <- MCChannels
  Users <- MCUsers
  StartedAt <- MCStartedAt
  Scripts <- MCShortScripts
  Ends <- MCAnywhere
  Requests = {r1, r2}
  MaxFaults = 0
  MaxAges = 0
INVARIANTS
  EndIsSeen
CHECK_DEADLOCK FALSE
