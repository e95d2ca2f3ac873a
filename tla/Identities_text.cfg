SPECIFICATION Spec
CONSTANTS
  Face = {f1, f2}
  Late = {f2}
  MaxOps = 2
  RawVectors = "text"
PROPERTY EveryFaceMapped
CHECK_DEADLOCK FALSE
