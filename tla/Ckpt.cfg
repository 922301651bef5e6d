SPECIFICATION FairSpec
CONSTANTS
    TotalStep = 5
    Configs <- Mixed
    TornWrites = FALSE
INVARIANTS
    TypeOK
    RestartSucceeds
    MetaAgrees
    DoneIsDurable
    HookSeesTheSave
    NeverRefused
PROPERTIES
    FailureEndsTheJob
    KeepsPromise
    Finishes
