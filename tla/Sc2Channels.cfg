SPECIFICATION Spec
CONSTANTS
  general = general
  duel = duel
  raid = raid
  Channels <- MCChannels
  Public <- MCPublic
  General = general
  Indices = {1, 2}
  MaxJoined = 2
  MaxEchoes = 1
  MaxPresses = 2
  MaxLines = 1
  MaxNews = 1
  MaxReconnects = 1
INVARIANTS
  TabsAgree
  CommandsSurvive
  SaidWhereTyped
  ShownOnce
  RejoinsAll
CHECK_DEADLOCK FALSE
SYMMETRY MCSymmetry
