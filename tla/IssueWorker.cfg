CONSTANTS
  Files = {"test", "source", "toolchain", "lock", "hidden"}
  Allowed = {"test", "source", "toolchain"}
  Kinds = {"bug", "maintenance", "tests", "investigation"}
  Scoped = TRUE
  Previous = {"p1", "p2"}
  MaxRetries = 1
  MaxRecoveries = 1
  None = None
SPECIFICATION FairSpec
CHECK_DEADLOCK FALSE
INVARIANT FixIsProved
PROPERTY ReportedWorkStands
PROPERTY FixEnds
