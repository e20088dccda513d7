CONSTANTS
  Thread = {w1, w2, c1, c2}
  Main = c1
  NoThread = NoThread
  Worker = {w1, w2}
  Client = {c1, c2}
  Job = {j1, j2}
  NoJob = NoJob
  Fragile = {w2}
  Submitter = {c1}
  MaxGC = 0
  MaxStop = 0
  Methods = {"put", "close", "take"}
  MaxPuts = 2
SPECIFICATION MCSpec
INVARIANTS HandleOutlivesThread ReclaimedOnce ExitWakesJoiner EachJobOnce DrainedBeforeEnd ClosedMeansEnded
PROPERTIES SettledForGood CallsReturn
CHECK_DEADLOCK FALSE
