SPECIFICATION Spec
SYMMETRY Symmetry
CONSTANTS
  Path = {p1, p2}
  Content = {c1, c2}
  Faceless = {c2}
  Workers = {w1, w2}
  EditedPaths = {p1}
  LegacyPaths = {p1}
  RecordedPaths = {p2}
  MaxEdits = 2
  MaxFaults = 1
INVARIANTS RecordTypeOK SkippedIsRecorded FallbackIsSound CompletedHasFaces NoOrphanFaces
PROPERTY CompletedStays
CHECK_DEADLOCK FALSE
