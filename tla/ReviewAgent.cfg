CONSTANTS
  Lanes = {persona}
  Calls = {c1}
  Tasks = {t1}
  None = None
  MaxFindings = 2
  MaxRetries = 1
  Budgeted = TRUE
  VerifyFindings = TRUE
  SummaryLane = FALSE
SPECIFICATION AgentFairSpec
CHECK_DEADLOCK FALSE
INVARIANT CleanIsEarned
INVARIANT CandidatesAreAccountedFor
PROPERTY ReviewEnds
