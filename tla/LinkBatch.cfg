SPECIFICATION FairSpec
CONSTANTS
    NumFiles = 3
    MaxTasks = 2
INVARIANTS
    TypeOK
    ProcessedOnce
    BarrierCoversBatch
    SuccessMeansLinked
PROPERTIES
    LinkReturns
