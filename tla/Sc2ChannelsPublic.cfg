SPECIFICATION Spec
CONSTANTS
  general = general
  duel = duel
  raid = raid
  Channels <- MCChannels
  Public <- MCListed
  General = general
  Indices = {1, 2}
  MaxJoined = 2
  MaxEchoes = 1
  MaxPresses = 2
  MaxLines = 0
  MaxNews = 0
  MaxReconnects = 1
INVARIANTS
  TabsAgree
  RejoinsAll
CHECK_DEADLOCK FALSE
