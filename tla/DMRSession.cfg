SPECIFICATION FairSpec
CONSTANTS
  Listener = listener
  Ticker = ticker
  Supervisor = supervisor
  Commands = {c1}
  Targets = {brandmeister, freestar}
  UserTargets = {}
  Passwords = {}
  MasterPassword = tablePw
  LoginOptions = {FALSE}
  ConfTarget = brandmeister
  ConfPassword = None
  ConfOptions = TRUE
  None = None
INVARIANTS TypeOK LinkedOrLoggingIn RejectionStands
PROPERTY UnansweredLoginIsRetried
