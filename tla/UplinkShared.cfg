SPECIFICATION Spec
CONSTANTS
  s1 = s1
  s2 = s2
  c1 = c1
  Sessions <- MCTwoSessions
  Channels <- MCChannels
  Capacity = 1
  MaxBatch = 3
  MaxPending = 3
  MaxObserved <- MCOne
  MaxToggles = 1
INVARIANT NoLossUncounted
CHECK_DEADLOCK FALSE
