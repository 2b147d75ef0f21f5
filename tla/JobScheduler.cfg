SPECIFICATION FairSpec
CONSTANTS
    j1 = j1
    j2 = j2
    j3 = j3
    main = main
    other = other
    NoJob = NoJob
    Jobs <- MCJobs
    Owners <- MCOwners
    OwnerOf <- MCOwnerOf
    MaxQueuedJobs = 2
    UtilitySequences <- MCUtilitySequences
    UtilityUnits <- MCUtilityUnits
INVARIANTS
    NoLostWakeup
    SingleRunning
    DispatchOrder
    SubscribersSeeTheJob
PROPERTIES
    ProgressMonotone
    ImplementsLifecycle
CHECK_DEADLOCK FALSE
