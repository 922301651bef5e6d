SPECIFICATION FairSpec
CONSTANTS
  TotalSteps = 8
  CkptInterval = 2
  HfInterval = 3
  MaxKeep = 2
  HfMaxKeep = 2
  Colocate = FALSE
  TornWrites = FALSE
  MaxCrashes = 2
INVARIANTS
  TypeOK
  ResumePointIsWhole
PROPERTIES
  Finishes
  KeepsPromise
  OnlyOldExportsGo
