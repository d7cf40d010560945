SPECIFICATION Spec
CONSTANTS
  Freqs = {50, 400}
  Duties = {1, 2, 3, 4, 5, 6}
  CrefLimit = 4
  ARMED = 2
  MIN = 3
  MAX = 5
  Requests = {0, 3, 4, 6}
  Frequency = 400
  MaxOthers = 2
  MaxSignals = 2
INVARIANTS
  ThrottleBounded
  ReferencesBalanced
  MotorsOffWhenDown
  OutputFollowsRequest
