SPECIFICATION FairSpec
CONSTANTS
    g1 = g1
    g2 = g2
    Groups = {g1, g2}
    Threshold = 1
    CheckpointEngine = TRUE
    SyncInterval = 1
    TotalSteps = 2
    Faults = {"crash", "shutdown", "restart", "update", "timeout"}
    MaxFaults = 2
INVARIANTS
    TypeOK
    RoutedGroupsAreCurrent
    RestartUndisturbed
    NoPendingUpdateInTraining
PROPERTIES
    PauseWaitsForRecovery
    TrainingEnds
