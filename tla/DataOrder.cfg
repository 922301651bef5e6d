SPECIFICATION Spec
CONSTANTS
    TotalSize = 12
    GlobalBatch = 4
    Worlds = {1, 2, 4}
    FirstEpoch = 1
    Ahead = 2
    MaxSteps = 5
    MaxRestarts = 2
INVARIANTS
    TypeOK
    EachSampleOnce
    OneOrderPerPass
    NewPassNewOrder
