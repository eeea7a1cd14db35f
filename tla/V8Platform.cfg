CONSTANTS
  Tasks = {t1, t2, t3}
  MaxDelay = 1
  MaxTime = 2
SPECIFICATION FairSpec
INVARIANTS
  TypeOK
  RunsOnceWhereAsked
  ForegroundDelayKept
  ForegroundInOrder
PROPERTY TasksRun
