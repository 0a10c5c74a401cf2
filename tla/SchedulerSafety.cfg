SPECIFICATION Spec
CONSTANTS
    Clients = {c1, c2}
    Targets = {t1, t2, t3, t4}
    JobIds = {j1, j2, j3, j4, j5}
    MaxWorkers = 1
    Capacity = 2
    TerminalLimit = 1
    Outcomes = {"Completed", "Panicked"}
SYMMETRY Symmetry
CHECK_DEADLOCK FALSE
INVARIANT OneLiveJobPerTarget
INVARIANT DuplicateSeesLiveJob
PROPERTY ImplementsBoard
PROPERTY QueueIsFair
