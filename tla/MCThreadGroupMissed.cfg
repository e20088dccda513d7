CONSTANTS
  Thread = {t1, t2}
  Main = t1
  NoThread = NoThread
  MaxGC = 2
  MaxStop = 1
SPECIFICATION FairSpec
PROPERTY WaitGCReturns
CHECK_DEADLOCK FALSE
