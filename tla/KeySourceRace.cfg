SPECIFICATION CypherSpec
CONSTANTS
  c1 = c1
  c2 = c2
  c3 = c3
  c4 = c4
  s1 = s1
  s2 = s2
  k1 = k1
  k2 = k2
  k3 = k3
  k4 = k4
  Calls = {c1, c2, c3}
  Sources = {s1, s2}
  Aggregates = {"order", "user"}
  TypeOf <- TwoTypes
  Pairs = {k1, k2, k3}
  MaxFaults = 0
CHECK_DEADLOCK FALSE
INVARIANT PersistedOnce
