SPECIFICATION FairLoginSpec
CONSTANTS
  Ids = {me}
  Registered = {me}
  Addresses = {here}
  Salts = {s1, s2}
  WrongKey = wrong
  Capacity = 2
  StaleTicks = 9
  Me = me
  Here = here
  HasOptions = TRUE
  NetworkTicks = 6
  MaxLosses = 2
PROPERTY SignOffReleases
