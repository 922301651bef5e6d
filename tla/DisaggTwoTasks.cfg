SPECIFICATION FairSpec
CONSTANTS
    Tasks = {"math", "code"}
    Gids = {1, 2, 3, 4}
    TaskOf <- TwoTasks
    BatchSize <- EachOne
    Oversample <- EachZero
    MaxStaleness <- EachZero
    Trigger <- EachNone
    Partial = TRUE
    SyncInterval = 2
    SaveInterval = 2
    TotalSteps = 3
    Outcomes = {"COMPLETED", "ABORTED", "FAILED", "RAISED"}
PROPERTIES
    StatusFollowsDocs
    TrainingCompletes
    ProducerResumed
