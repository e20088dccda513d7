CONSTANTS
  Thread = {t1, t2}
  NoThread = NoThread
  Object = {o1, o2}
  NoObject = NoObject
  Third = t3
  MaxSends = 1
SYMMETRY Symmetry
SPECIFICATION Spec
INVARIANTS ReceivedAlive
CHECK_DEADLOCK FALSE
