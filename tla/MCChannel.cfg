CONSTANTS
  Thread = {t1, t2, t3}
  NoThread = NoThread
  Object = {o1, o2}
  NoObject = NoObject
  Third = t3
  MaxSends = 2
SYMMETRY Symmetry
SPECIFICATION MCSpec
CONSTRAINT NoLoop ThirdPlain
INVARIANTS OwnedOnce SendWakesReceiver
CHECK_DEADLOCK FALSE
