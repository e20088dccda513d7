SPECIFICATION MCSpec
CONSTANTS
  Value = {v1, v2}
  Junk = Junk
  InitialCap = 2
  MaxLen = 4
  MaxArgs = 2
  k1 = k1
  k2 = k2
  k3 = k3
  k4 = k4
  Keys <- MCKeys
  Hash <- MCHash
  Given = {"a"}
  Results = {"b"}
  INITIAL_SIZE = 4
  MaxSize = 8
  MaxPairs = 1
  Callbacks = {"get", "ensure", "getOrPut", "merge", "keep", "intersect", "subtract"}
CONSTRAINT StillWhole
INVARIANTS
  TypeOK
  ProbesEnd
  KeysAreFound
  ListIsTable
  CallbacksThatLose
  IsOrderedMap
PROPERTY DequeSpec
CHECK_DEADLOCK FALSE
