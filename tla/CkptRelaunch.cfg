SPECIFICATION FairSpec
CONSTANTS
    TotalStep = 5
    Configs <- AsyncCrash
    TornWrites = FALSE
PROPERTY Finishes
