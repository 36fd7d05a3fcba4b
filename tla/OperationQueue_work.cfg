SPECIFICATION FairSpec
CONSTANTS
    NumberOfOperations = 2
    NumberOrphaned = 1
    Operation <- MCOperation
    Orphaned <- MCOrphaned
    Worker = {w1, w2}
    Admin = {a1}
    NoWorker = NoWorker
    NoOperation = NoOperation
    MaxAttempts = 2
    CrashBudget = 1
    StallBudget = 1
    RetryBudget = 1
INVARIANTS TypeOK OwnerIsCurrent AttemptsAreCounted OutcomeIsAudited
PROPERTIES ImplementsLifecycle LeaseProtectsOwner EveryOperationSettles
CHECK_DEADLOCK FALSE
