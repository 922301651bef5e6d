SPECIFICATION FairSpec
CONSTANTS
    Tasks = {"a", "s"}
    Gids = {1, 2, 3, 4, 5}
    TaskOf <- Slots
    Sync = {"s"}
    BatchSize <- OneEach
    Oversample <- OneForA
    MaxPending <- NoLimit
    MaxStaleness <- OneForA
    Trigger <- TailOfTwo
    Partial = TRUE
    SyncInterval = 2
    CkptInterval = 4
    TotalSteps = 9
    EvalAtEnd = FALSE
    MaxCrashes = 1
INVARIANTS
    TypeOK
    BatchIsWhole
    NothingRunsInTraining
    BatchIsFresh
    HoldingsBounded
PROPERTIES
    TrainingCompletes
