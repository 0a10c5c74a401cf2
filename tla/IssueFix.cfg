SPECIFICATION FairSpec
CONSTANTS
    MaxAttempts = 1
    MaxMentions = 2
    MaxCommands = 2
    MaxMeddling = 1
    MaxFaults = 1
CHECK_DEADLOCK FALSE
INVARIANT RunsArePaidOnce
INVARIANT JournalKnowsTip
INVARIANT ReviewIsOwed
INVARIANT StatusIsTrue
PROPERTY PushesExtend
PROPERTY LandedIsReported
