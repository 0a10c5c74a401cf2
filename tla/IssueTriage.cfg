SPECIFICATION FairTriageSpec
CONSTANTS
  Candidates <- TwoItems
  Pulls = {"pull"}
  Newer = {"newer"}
  Classes = {"eligible"}
  BatchSize = 2
  MaxInvestigations = 1
  Budget = 3
  InvestigationBudget = 2
  MaxEdits = 1
  MaxFaults = 1
  Unknown = Unknown
  Partly = Partly
CHECK_DEADLOCK FALSE
INVARIANT DecisionIsBacked
INVARIANT CommittedIsMarked
PROPERTY JudgmentsAreFinal
PROPERTY IssueSettles
