CONSTANTS
    Cells = {c1, c2}
    Problem = problem
    Grade = grade
    Nobody = nobody
    MaxAsked = 2
    MaxWrites = 3
    MaxMishaps = 1
    Workers = {w1, w2}
    Clients = {b1, b2}
    Workflow = FALSE
    HardTicks = 1
    LeaseTicks = 2
    MaxRetries = 2
    Slices = 1
    MaxSends = 2
    MaxJobMishaps = 2
SPECIFICATION ScreensSpec
CHECK_DEADLOCK FALSE
INVARIANTS ScreensTypeOK NumbersAreOfThisKernel NumberedAreRemembered NothingIsStuck ResetForgets LeavesNoWorker
           NothingUnsent OneWriterAtATime CacheSettles OneAtWork
PROPERTIES ServesInOrder TheLineEmpties PutDownIsOnServer ReviewOpens CompleteStays Answered
