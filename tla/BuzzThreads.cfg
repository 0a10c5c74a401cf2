CONSTANTS
  Findings = {f1, f2}
  Questions = {q1, q2}
  Channels = {public, restricted}
  Security = FALSE
  MaxReviews = 2
  MaxFaults = 1
  MaxCrashes = 1
  MaxTime = 2
  None = None
SPECIFICATION FairSpec
CHECK_DEADLOCK FALSE
PROPERTY DeliveredIsNotRepeated
PROPERTY ReceiptIsFinal
PROPERTY QuestionsAreSettled
