SPECIFICATION FairSpec
CONSTANTS
    MaxCommit = 1
    Origins = {"Poll"}
    MaxRetries = 1
    DelayCap = 2
    StaleAfter = 2
    ReviewLimit = 2
    MentionMode = TRUE
    Backport = TRUE
    MaxCrashes = 1
    MaxPanics = 0
    MaxManual = 1
    MaxMentions = 2
    MaxFailures = 2
CHECK_DEADLOCK FALSE
PROPERTY MentionIsReviewed
