CONSTANTS
    Owners <- MCOwners
    Executors <- MCExecutors
    Users <- MCUsers
    Requests <- MCRequests
    Programs <- MCPrograms
    PoolSize = 1
    MaxIds = 2
    PipeSize = 1
    NoOwner = NoOwner
    NoJob = NoJob
SPECIFICATION FairSpec
INVARIANTS
    NothingLeaks
PROPERTIES
    Returns
CHECK_DEADLOCK FALSE
