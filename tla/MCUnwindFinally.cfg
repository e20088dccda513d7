SPECIFICATION Spec
CONSTANTS
  MaxNest = 4
  MaxTries = 2
  MaxGroups = 1
  MaxRaised = 2
CONSTRAINT Followed
INVARIANT FinallyThrowEscapes
