SPECIFICATION FairSpec
CONSTANTS
  t1 = t1
  t2 = t2
  Jobs = {j1, j2}
  Decodes = {}
  Workers = {w1, w2}
  Sockets = {s1, s2}
  Targets <- MCTargets
  Slots = 2
  Capacity = 1
  Channels = 2
  Owed = 2
  None = none
INVARIANTS  RoomForAll
PROPERTY EveryJobAnswered
