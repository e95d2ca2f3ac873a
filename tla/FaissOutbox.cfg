SPECIFICATION FairSpec
CONSTANTS
  Face = {f1, f2}
  Legacy = {f2}
  Callers = {r1}
  NoCaller = NoCaller
  StagingSize = 2
  IsIVF = FALSE
  MinTrain = 2
  MaxSaveFaults = 0
  MaxRaises = 1
  MaxLoadFaults = 0
  BatchSize = 2
  MaxAttempts = 2
  SlowReapers = TRUE
  MaxCrashes = 1
  MaxDbFaults = 1
INVARIANTS
  OutboxTypeOK
  NoFaceForgotten
PROPERTIES
  ImplementsCatalog
  EventuallySearchable
