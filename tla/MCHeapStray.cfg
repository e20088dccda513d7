CONSTANTS
  Thread = {t1, t2}
  Main = t1
  NoThread = NoThread
  MaxGC = 2
  MaxStop = 0
  Object = {o1, o2}
  NoObject = NoObject
SYMMETRY Symmetry
SPECIFICATION HeapSpec
INVARIANTS NoDangling
CHECK_DEADLOCK FALSE
