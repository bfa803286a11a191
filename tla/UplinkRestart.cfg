SPECIFICATION Spec
CONSTANTS
  s1 = s1
  s2 = s2
  c1 = c1
  Sessions <- MCOneSession
  Channels <- MCChannels
  Capacity = 2
  MaxBatch = 3
  MaxPending = 3
  MaxObserved <- MCTwo
  MaxToggles = 2
INVARIANT LiveComesBack
CHECK_DEADLOCK FALSE
