SPECIFICATION LinksSpec
CONSTANTS
  Ids = {me, r2, r3}
  Registered = {me, r2, r3}
  Addresses = {here, there}
  Salts = {s1, s2}
  WrongKey = wrong
  Capacity = 2
  StaleTicks = 9
  Me = me
  Here = here
  HasOptions = TRUE
  NetworkTicks = 6
  MaxLosses = 20
  SilentTicks = 10
  MaxMishaps = 10
  
PROPERTIES  LinkedIsKept
