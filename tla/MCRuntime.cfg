CONSTANTS
  Thread = {t1, t2}
  Main = t1
  NoThread = NoThread
  MaxGC = 3
  MaxStop = 1
  Poller = {t1, t2}
  Compiled = {t2}
  NSIG = 2
  MaxSignals = 3
  MaxNest = 2
  MaxCalls = 2
SPECIFICATION MCSpec
INVARIANTS NoSignalLost FlagCoversPending RegisteredIsCallable
PROPERTY CollectionFinishes
CHECK_DEADLOCK FALSE
