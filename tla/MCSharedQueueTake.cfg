CONSTANTS
  Thread = {t1, t2, t3}
  Main = t1
  NoThread = NoThread
  MaxGC = 1
  MaxStop = 0
  Methods = {"put", "take"}
  MaxPuts = 2
SPECIFICATION QueueFairSpec
PROPERTY TakeReturns
CHECK_DEADLOCK FALSE
