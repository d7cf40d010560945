SPECIFICATION FairSpec
CONSTANTS
  Threads = {t1, t2}
  Files = {f1, f2}
  Freqs = {50, 400}
  Duties = {1, 2}
  CrefLimit = 3
  MaxInterrupted = 1
INVARIANTS
  CrefsAccounting
  ClockFollowsReferences
  OutputMatchesInfo
PROPERTIES
  AtomicDevice
  CallReturns
