CONSTANTS
  Thread = {t1, t2, t3}
  Main = t1
  NoThread = NoThread
  MaxGC = 1
  MaxStop = 0
  Methods = {"put", "close", "clear", "tryTake", "toArray", "len", "take", "peek", "tryTakeTimed"}
  MaxPuts = 2
SYMMETRY Symmetry
SPECIFICATION QueueSpec
INVARIANTS TakeSeesItem NoLostWakeup
PROPERTY RingFrozen
CHECK_DEADLOCK FALSE
