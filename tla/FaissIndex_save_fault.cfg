SPECIFICATION SpecIndex
CONSTANTS
  Face = {f1, f2, f3}
  Callers = {c1}
  NoCaller = NoCaller
  StagingSize = 2
  IsIVF = FALSE
  MinTrain = 2
  MaxSaveFaults = 1
  MaxRaises = 0
  MaxLoadFaults = 0
INVARIANT
  NeverDisagree
