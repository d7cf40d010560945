SPECIFICATION FairSpec
CONSTANTS
  Works = {w1, w2}
  Callers = {c1, c2}
  MaxThreads = 2
  MaxDelay = 2
  NoWork = NoWork
INVARIANTS
  QueueConsistent
  NoOversleep
PROPERTY
  WorkRuns
