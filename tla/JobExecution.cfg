\* One job, one direct call, a fault of a Utility and a shutdown at any point;
\* each call forks at most once.
SPECIFICATION FairExecution
CONSTANTS
    j1 = j1
    d1 = d1
    main = main
    NoJob = NoJob
    Jobs <- MCJobs
    Owners <- MCOwners
    OwnerOf <- MCOwnerOf
    DirectCalls <- MCDirect
    MaxQueuedJobs = 1
    UtilitySequences <- MCNone
    UtilityUnits <- MCNone
    MaxForks = 2
    MaxFaults = 1
    MayShutdown = TRUE
INVARIANTS
    NoReplay
    AnswersAreTrue
    SingleWriter
PROPERTIES
    EndedStaysEnded
    JobsEndAnyhow
CHECK_DEADLOCK FALSE
