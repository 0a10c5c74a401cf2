SPECIFICATION Spec
CONSTANTS
  MaxRuns = 3
  MaxHeads = 2
  MaxPeople = 3
  MaxFaults = 1
CHECK_DEADLOCK FALSE
INVARIANT NothingIsLost
INVARIANT NewestFirst
INVARIANT OneReviewPerCommit
