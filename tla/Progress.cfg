SPECIFICATION FairSpec
CONSTANTS
    None = None
PROPERTIES LinesEnd TurnsLand Answers LockFreed AwaitingResolves CommitResolves ReplanResolves
CHECK_DEADLOCK FALSE
