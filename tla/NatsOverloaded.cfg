SPECIFICATION Spec
CONSTANTS
  t1 = t1
  t2 = t2
  t3 = t3
  t4 = t4
  l1 = l1
  Tasks = {t1, t2}
  Loads = {l1}
  Unreadable = {}
  Invalid = {}
  Hanging = {}
  Concurrency = 2
  Closer = Closer
CHECK_DEADLOCK FALSE
INVARIANT OverloadedIsUnprocessed
