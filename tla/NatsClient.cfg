SPECIFICATION ClientFairSpec
CONSTANTS
  t1 = t1
  t2 = t2
  t3 = t3
  l1 = l1
  Tasks = {t1, t2, t3}
  Loads = {l1}
  Unreadable = {t3}
  Invalid = {t3}
  Hanging = {t2}
  Own = {t1, l1}
  Concurrency = 2
  Closer = Closer
CHECK_DEADLOCK FALSE
INVARIANTS
  InOrder
  RepliesTruthful
  NobodyTurnedAway
  CallersConclude
PROPERTIES
  QuietWhenDown
  ReceivedIsAnswered
  ShutdownReturns
