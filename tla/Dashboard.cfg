SPECIFICATION DashSpec
CONSTANTS
  Keys = {k1, k2, k3}
  Limit = 2
  MaxRecords = 3
  MaxFailures = 1
  Tokens = {t1}
  Sockets = {c1, c2}
  Pending = 1
  TicketTicks = 1
  QueueSize = 1
  WireSize = 1
  Heads = {h1}
  MaxEvents = 3
  MaxReplies = 1
  Streams = {1}
  Numbers = 16
  FirstSeq = 13
  PerTick = 2
  MaxFrames = 5
  StaleTicks = 2
  WindowTicks = 2
  PruneTicks = 2
  KeepTicks = 3
  Answers = 24
  CounterMod = 3
  Interfaces = {1, 2}
  MaxTraffic = 1
  Calls = {m0abc, m0xyz}
  CacheTicks = 2
  MaxChanges = 1
  MaxExpiries = 2
INVARIANTS LiveRight ShutdownFlushes QualityTrue LookupRight
PROPERTIES  RecordingSaved BrokenLeave
CHECK_DEADLOCK FALSE
