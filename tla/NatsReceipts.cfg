SPECIFICATION ServedSpec
CONSTANTS
  t1 = t1
  t2 = t2
  t3 = t3
  t4 = t4
  tea = tea
  pie = pie
  Tasks = {t1, t2, t3, t4}
  Loads = {}
  Unreadable = {}
  Invalid = {}
  Hanging = {}
  Concurrency = 2
  Closer = Closer
  Absent = Absent
  Rejected = Rejected
  Nothing = Nothing
  Names = {tea, pie}
  Prices = {1, 2}
  Commands <- MCCommands
  StartState <- MCStartState
  Initializes <- Never
  FirstState <- NoFirst
  Reduces <- MCReduces
  Reduce <- MCReduce
  Valid <- MCValid
  Decide <- MCDecide
  Guards <- NoCommand
  Foreign = {}
  InEffects = FALSE
  Guarding = FALSE
  Stale = FALSE
  Remote = FALSE
  MaxForeign = 0
  MaxFaults = 0
CHECK_DEADLOCK FALSE
SYMMETRY TaskSymmetry
INVARIANTS
  ClosedIsFinal
  FinalTotalIsSum
  ReadsItsWrite
  RecordedInOrder
PROPERTIES
  OneAtATime
  AnswerIsFinal
