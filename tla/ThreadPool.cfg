SPECIFICATION FairSpec
CONSTANTS
    NumThreads = 2
    MaxTasks = 3
INVARIANTS
    TypeOK
    AtMostOnce
    WaitMeansDone
    NoTaskWaitsBesideASleeper
PROPERTIES
    TasksRun
    WaitReturns
    DestroyReturns
    ImplementsTaskGroup
