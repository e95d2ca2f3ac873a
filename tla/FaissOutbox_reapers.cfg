SPECIFICATION HealthSpec
CONSTANTS
  Face = {f1, f2}
  Legacy = {}
  Callers = {r1, r2}
  NoCaller = NoCaller
  StagingSize = 2
  IsIVF = FALSE
  MinTrain = 2
  MaxSaveFaults = 0
  MaxRaises = 1
  MaxLoadFaults = 1
  BatchSize = 1
  MaxAttempts = 2
  SlowReapers = FALSE
  MaxCrashes = 1
  MaxDbFaults = 1
SYMMETRY Symmetry
INVARIANTS
  ExclusiveClaims
  ClaimedIsMerging
  HealthySound
PROPERTY
  CommittedIsTerminal
