SPECIFICATION Spec
CONSTANTS
  Drive = {"C", "D"}
  Folder = {"album", "cache"}
  Entry = {"a.jpg", "c.jpg", "d.jpg"}
  In <- Tree
  Wanted = {"a.jpg", "c.jpg", "d.jpg"}
  Excluded = {"cache"}
  RecordQueue = 1
  BatchSize = 2
  MaxMoves = 1
  File = {f1, f2}
  MaxReports = 3
  Runner = {r1, r2}
  Batch = 2
  UndoDepth = 2
  MaxTasks = 3
  MaxFailures = 2
  Client = {c1, c2}
  Rows = 3
  Pinned = {1}
  EvictBatch = 2
  AuditBatch = 2
  MaxReads = 1
  MaxCuts = 1
  MaxRecords = 2
  MaxScans = 2
  Node = {0, 1, 2, 3}
  Highest = 2
  Threshold = 1
  K = 2
  MaxIter = 2
  Face = {1, 2}
  Callers = {t1}
  NoCaller = none
  StagingSize = 1
  IsIVF = TRUE
  MinTrain = 2
  MaxSaveFaults = 0
  MaxRaises = 0
  MaxLoadFaults = 0
  Page = 1
  MaxScripts = 1
INVARIANTS ServicesTypeOK HandedOnce TasksAccounted ClientsServed CountersHonest ClustersLinked RebuildRepairs
PROPERTIES ScanComes ChangesSeen ClosedLeave ReadIsFreed
CHECK_DEADLOCK FALSE
