SPECIFICATION Spec
CONSTANTS
  p1 = p1
  p2 = p2
  p3 = p3
  r1 = r1
  r2 = r2
  Runs = {p1, p2, p3}
  RootOf <- const_RootOf
  MaxRows = 1
  MaxIds = 1
SYMMETRY Symmetry
INVARIANTS
  TypeOK
  ProjectsMatchRoots
  WrittenStays
CHECK_DEADLOCK FALSE
