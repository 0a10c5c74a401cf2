CONSTANTS
  Jobs = {review, phase}
  Connections = {c1, c2}
  MaxIndex = 2
  Limit = 2
  MaxCharge = 1
  None = None
SPECIFICATION FairSpec
CHECK_DEADLOCK FALSE
INVARIANT SandboxesAreApart
INVARIANT OvershootIsBounded
PROPERTY ReportIsFinal
PROPERTY JobsEnd
