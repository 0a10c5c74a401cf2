SPECIFICATION PollFairSpec
CONSTANTS
    t1 = t1
    t2 = t2
    t3 = t3
    t4 = t4
    c1 = c1
    c2 = c2
    Clients = {p, c1, c2}
    Poller = p
    Targets = {t1, t2, t3, t4}
    JobIds = {1, 2, 3, 4, 5, 6, 7, 8}
    MaxWorkers = 1
    Capacity = 2
    TerminalLimit = 1
    Outcomes = {"Completed"}
    Discoveries <- OneDiscovery
    Asks <- TargetsOfOthers
    Returning = {}
    IdsOf <- TwoEach
CHECK_DEADLOCK FALSE
PROPERTY DeferredIsRetried
PROPERTY EveryCallerAnswered
