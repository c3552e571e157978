SPECIFICATION Spec
CONSTANTS
  p1 = p1
  p2 = p2
  c1 = c1
  c2 = c2
  c3 = c3
  l1 = l1
  letter = letter
  Dot = Dot
  Symbols = {letter, Dot}
  Types <- Strings3
  Keys <- Strings3
  Refused = Refused
  Calls = {c1, c2, c3}
  Loads = {}
  Procs = {c1, c2, c3}
  ProcOf <- OwnProcess
  Ulid <- Ulid4
  MaxRetries = 1
  MaxBatch = 1
  Spread = 2
  MaxCrashes = 0
  ClockSync = FALSE
  Reliable = FALSE
CHECK_DEADLOCK FALSE
INVARIANTS
  TypeOK
  GuardHonoured
  GuardedOnce
  NoLostUpdate
  OkIsDurable
  OneAttemptWritesOnce
SYMMETRY AllSymmetry
