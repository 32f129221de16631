CONSTANTS
  w1 = w1
  w2 = w2
  t1 = t1
  t2 = t2
  t3 = t3
  Free = Free
  NoTask = NoTask
  Workers = {w1, w2}
  Tasks = {t1}
  MaxSpurious = 0
SPECIFICATION FairSpec
PROPERTIES
  ShutdownReturns
CHECK_DEADLOCK FALSE
