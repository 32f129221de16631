CONSTANTS
  w1 = w1
  w2 = w2
  t1 = t1
  t2 = t2
  t3 = t3
  Free = Free
  NoTask = NoTask
  Workers = {w1, w2}
  Tasks = {t1, t2, t3}
  MaxSpurious = 1
SPECIFICATION FairSpec
INVARIANTS
  TypeOK
  EveryTaskOnce
  NoTaskSleptThrough
  DrainedAtJoin
PROPERTIES
  ImplementsExecutor
  TasksRun
CHECK_DEADLOCK FALSE
