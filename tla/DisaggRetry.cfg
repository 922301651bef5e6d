SPECIFICATION Spec
CONSTANTS
    Tasks = {"math"}
    Gids = {1, 2, 3, 4, 5, 6}
    TaskOf <- OneTask
    BatchSize <- EachOne
    Oversample <- EachOne
    MaxStaleness <- EachOne
    Trigger <- EachOne
    Partial = FALSE
    SyncInterval = 1
    SaveInterval = 2
    TotalSteps = 3
    Outcomes = {"COMPLETED", "ABORTED", "FAILED"}
INVARIANTS
    ExpiredProducerLeftABatch
    OverproductionBounded
    TypeOK
    LabelNotNewerThanWeights
    BufferFresh
    TrainedWithinStaleness
PROPERTIES
    NoSyncUnderGeneration
