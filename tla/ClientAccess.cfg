SPECIFICATION AccessSpec
INVARIANTS OpenedByAccount 
CONSTANTS
  Callsigns = {c1, c2}
  DMRIDs = {i1, i2}
  NoAccount = NoAccount
  Requests = {r1}
  SessionTicks = 2
  TicketTicks = 1
  RequestTicks = 1
  MaxChanges = 3
