SPECIFICATION FairSpecIndex
CONSTANTS
  Face = {f1, f2, f3}
  Callers = {c1, c2}
  NoCaller = NoCaller
  StagingSize = 2
  IsIVF = TRUE
  MinTrain = 2
  MaxSaveFaults = 1
  MaxRaises = 1
  MaxLoadFaults = 1
INVARIANTS
  TypeOK
  SearchFaithful
  RestartFaithful
  PublishedIsDurable
  OneVectorPerFace
PROPERTY
  StagingDrains
