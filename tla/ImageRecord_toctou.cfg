SPECIFICATION Spec
CONSTANTS
  Path = {p1}
  Content = {c1, c2}
  Faceless = {}
  Workers = {w1}
  EditedPaths = {p1}
  LegacyPaths = {}
  RecordedPaths = {}
  MaxEdits = 1
  MaxFaults = 0
INVARIANT UnchangedIsDone
CHECK_DEADLOCK FALSE
