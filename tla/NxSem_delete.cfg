SPECIFICATION Spec
CONSTANTS
  Tasks = {t1, t2}
  Sems = {s1, s2}
  Prios = {1, 2}
  NoSem = NoSem
  MaxCount = 1
  DeleteWaiting = TRUE
INVARIANT RecoveredOnDelete
