SPECIFICATION Spec
CONSTANTS
  Threads = {t1, t2}
  Files = {f1, f2}
  Freqs = {400}
  Duties = {1}
  CrefLimit = 3
  MaxInterrupted = 1
INVARIANT ClosedMeansOff
