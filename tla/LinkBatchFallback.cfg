SPECIFICATION Spec
CONSTANTS
    NumFiles = 2
    MaxTasks = 2
INVARIANTS
    FallbackIsSeamless
