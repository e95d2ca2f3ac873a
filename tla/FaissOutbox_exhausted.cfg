SPECIFICATION Spec
CONSTANTS
  Face = {f1, f2}
  Legacy = {}
  Callers = {r1}
  NoCaller = NoCaller
  StagingSize = 2
  IsIVF = FALSE
  MinTrain = 2
  MaxSaveFaults = 0
  MaxRaises = 0
  MaxLoadFaults = 0
  BatchSize = 2
  MaxAttempts = 2
  SlowReapers = FALSE
  MaxCrashes = 2
  MaxDbFaults = 0
INVARIANT
  ExhaustedIsParked
