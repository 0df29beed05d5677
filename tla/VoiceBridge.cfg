SPECIFICATION FairSpec
CONSTANTS
  Clients = {c1, c2, c3}
  NoClient = nobody
  SeqMod = 3
  AudioTicks = 2
  CallTicks = 5
  WatchTicks = 2
INVARIANTS BoundedTalk TalkerConnected
PROPERTY KeepsStream
