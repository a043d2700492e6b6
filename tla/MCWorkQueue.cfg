SPECIFICATION FairSpec
CONSTANTS
  i1 = i1  i2 = i2  i3 = i3  i4 = i4  k1 = k1
  None = None
  NoKey = NoKey
  Items = {i1, i2, i3, i4}
  Keys = {k1}
  KeyOf <- OneKey
INVARIANTS NothingDropped CurrentUntilDone
PROPERTIES NewestReconciled RunReturns
CHECK_DEADLOCK FALSE
