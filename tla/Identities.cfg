SPECIFICATION Spec
CONSTANTS
  Face = {f1, f2, f3}
  Late = {f3}
  MaxOps = 2
  RawVectors = "array"
INVARIANTS IdentitiesTypeOK CentroidOfItsOwn OnePrimary
PROPERTIES NeverReassigned EveryFaceMapped
CHECK_DEADLOCK FALSE
