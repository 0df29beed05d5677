SPECIFICATION FairSpec
CONSTANTS
  Handlers = {h1, h2}
  Timers = {t1, t2}
  NoTimer = notimer
  Nodes = {1}
  Commands = {"stop", "permanent", "bridge", "start"}
  MaxEvents = 2
INVARIANTS TemporarySupervised
PROPERTY Restores
