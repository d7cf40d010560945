SPECIFICATION FairSpec
CONSTANTS
  Threads = {t1, t2}
  NoThread = NoThread
  Steps = 2
  Errors = {"ENXIO", "EIO"}
  Spurious = TRUE
  MaxSignals = 2
INVARIANTS
  BuffersOwned
  OkMeansDone
  ErrorsReported
PROPERTY
  TransferReturns
