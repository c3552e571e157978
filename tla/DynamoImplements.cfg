SPECIFICATION FairSpec
CONSTANTS
  p1 = p1
  p2 = p2
  c1 = c1
  c2 = c2
  c3 = c3
  l1 = l1
  letter = letter
  Dot = Dot
  Symbols = {letter, Dot}
  Types <- Strings3
  Keys <- Strings3
  Refused = Refused
  Calls = {c1, c2}
  Loads = {l1}
  Procs = {p1, p2}
  ProcOf <- ProcessEach
  Ulid <- Ulid4
  MaxRetries = 1
  MaxBatch = 1
  Spread = 1
  MaxCrashes = 1
  ClockSync = TRUE
  Reliable = TRUE
CHECK_DEADLOCK FALSE
INVARIANTS
  Ascending
  LoadsPrefix
  IdsKeptApart
PROPERTIES
  ImplementsEventLog
  CallsSettle
