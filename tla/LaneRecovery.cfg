CONSTANTS
  Lanes = {correctness, persona}
  Calls = {c1, c2}
  Tasks = {t1, t2, t3}
  None = None
SPECIFICATION LaneSpec
SYMMETRY Symmetry
CHECK_DEADLOCK FALSE
INVARIANT OneTaskPerAttempt
INVARIANT NothingRunsOn
PROPERTY CompletedIsFinal
