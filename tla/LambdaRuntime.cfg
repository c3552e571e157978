SPECIFICATION FairSpec
CONSTANTS
  i1 = i1
  i2 = i2
  i3 = i3
  i4 = i4
  Invocations = {i1, i2, i3, i4}
  Hanging = {i2}
  Throwing = {i3}
  Nobody = Nobody
CHECK_DEADLOCK FALSE
INVARIANTS
  InterruptedNeverBegun
  OneAdriftAtMost
PROPERTIES
  InvocationsSettle
  MainEnds
