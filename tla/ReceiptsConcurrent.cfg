SPECIFICATION Spec
CONSTANTS
  x1 = x1
  x2 = x2
  x3 = x3
  x4 = x4
  x5 = x5
  tea = tea
  pie = pie
  Executions = {x1, x2, x3}
  Absent = Absent
  Rejected = Rejected
  Nothing = Nothing
  Names = {tea, pie}
  Prices = {0, 1}
  Commands <- MCCommands
  Start <- MCStart
  Initializes <- Never
  FirstState <- NoFirst
  Reduces <- MCReduces
  Reduce <- MCReduce
  Valid <- MCValid
  Decide <- MCDecide
  Guards <- NoCommand
  Foreign = {}
  InEffects = FALSE
  Guarding = TRUE
  Stale = FALSE
  Remote = FALSE
  MaxInFlight = 3
  MaxForeign = 0
  MaxFaults = 0
CHECK_DEADLOCK FALSE
SYMMETRY ExecutionSymmetry
INVARIANTS
  ClosedIsFinal
