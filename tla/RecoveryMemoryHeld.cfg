SPECIFICATION Spec
CONSTANTS
    g1 = g1
    g2 = g2
    Groups = {g1, g2}
    Threshold = 1
    CheckpointEngine = TRUE
    SyncInterval = 1
    TotalSteps = 2
    Faults = {"crash", "update"}
    MaxFaults = 2
SYMMETRY Symmetry
INVARIANT TrainingOwnsMemory
