SPECIFICATION FairSpec
CONSTANTS
  MaxRevision = 3
  Approved = {1, 3}
  Sound = {0, 3}
  Keep = 2
  MaxFailures = 2
  MaxCrashes = 1
INVARIANTS OneRevision OnlyApproved
PROPERTY Converges
