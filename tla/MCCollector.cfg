CONSTANTS
  Thread = {t1, t2, t3}
  Late = t3
  Main = t1
  NoThread = NoThread
  MaxGC = 2
  MaxStop = 0
  Object = {o1, o2}
  NoObject = NoObject
  MaxAllocs = 3
SYMMETRY Symmetry
SPECIFICATION MCSpec
CONSTRAINT Followed
INVARIANTS SweepExclusion AllAccounted StrayIsStale GCInv NoDanglingUnlessStray MarksCleared
INVARIANTS SurvivorsListed FinalizersKeepLive MemberOutlivesFinalizer
CHECK_DEADLOCK FALSE
