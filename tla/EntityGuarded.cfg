SPECIFICATION Spec
CONSTANTS
  x1 = x1
  x2 = x2
  x3 = x3
  Executions = {x1, x2, x3}
  Absent = Absent
  Rejected = Rejected
  Nothing = Nothing
  Amounts <- Amounts01
  Commands <- MCCommands
  Start <- MCStart
  Initializes <- MCInitializes
  FirstState <- MCFirstState
  Reduces <- MCReduces
  Reduce <- MCReduce
  Valid <- MCValid
  Decide <- MCDecide
  Guards <- AccountGuards
  Foreign <- MCForeign
  InEffects = TRUE
  Guarding = TRUE
  Stale = TRUE
  Remote = TRUE
  MaxInFlight = 3
  MaxForeign = 2
  MaxFaults = 1
CHECK_DEADLOCK FALSE
SYMMETRY ExecutionSymmetry
INVARIANTS
  Serializable
  RecordsAsAnswered
  BalanceNeverNegative
