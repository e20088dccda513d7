SPECIFICATION Spec
CONSTANTS
  MaxNest = 3
  MaxTries = 2
  MaxGroups = 2
  MaxRaised = 2
CONSTRAINT Followed
INVARIANTS
  TriesMirrorNesting
  FinallyRunsOnce
  RethrowsOwn
  ThrowsAreHandled
  DroppedOnce
  FramesMirrorCalls
  AbortsOnlyOnDoubleThrow
