SPECIFICATION FairSpec
CONSTANTS
  Pool = {p1, p2}
  Heap = {h1}
  Static = {s1}
  IntReserve = 1
  Delays = {0, 1, 3}
INVARIANTS
  ListsConsistent
  ReserveKept
PROPERTIES
  TimersExact
  ExpirationEnds
