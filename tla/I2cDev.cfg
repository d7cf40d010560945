SPECIFICATION FairSpec
CONSTANTS
  Threads = {t1, t2}
  NFiles = 2
  MaxLost = 1
  MaxDups = 1
INVARIANTS InodeCounted InodeLifetime DriverCounted
PROPERTY CallReturns
CHECK_DEADLOCK FALSE
