SPECIFICATION FairSpec
CONSTANTS
  t1 = t1
  t2 = t2
  t3 = t3
  t4 = t4
  s1 = s1
  Tasks = {t1, t2, t3, t4}
  Hanging = {t1}
  Shutdowns = {s1}
  Concurrency = 2
CHECK_DEADLOCK FALSE
INVARIANTS
  PermitsConserved
  ShutdownWakesWaiters
  ShutdownSeesActivitiesOut
PROPERTIES
  ShutdownTerminates
  TasksSettle
