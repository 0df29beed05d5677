SPECIFICATION LoopSpec
CONSTANTS
  n1 = n1
  n2 = n2
  Legs <- MCLegs
  Local = local
  NoNode = nobody
  Talkgroups = {9, 23530}
  Streams = {0, 1, 2}
  Payloads <- MCPayloads
  Routes <- MCRoutes
  ConfRoute <- MCConfRoute
  HoldTicks = 2
  SuppressTicks = 5
  RememberTicks = 4
  SendTicks = 1
  Originals = {o1, o2, o3}
  Encodings = {e1, e2}
  Spoken = e1
  EchoTicks = 2
  Stations = {0, 1}
INVARIANT BridgedOnce
PROPERTY Arbitrated
