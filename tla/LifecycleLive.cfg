SPECIFICATION FairSpec
CONSTANTS
    MaxCommit = 2
    Origins = {"Poll", "Generated"}
    MaxRetries = 1
    DelayCap = 1
    StaleAfter = 1
    ReviewLimit = 1
    MentionMode = FALSE
    Backport = FALSE
    MaxCrashes = 1
    MaxPanics = 1
    MaxManual = 0
    MaxMentions = 0
    MaxFailures = 1
CHECK_DEADLOCK FALSE
INVARIANT ClaimIsHeld
INVARIANT AtMostOnePost
PROPERTY RetriesAreBudgeted
PROPERTY HeadEventuallySettled
