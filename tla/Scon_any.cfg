SPECIFICATION Spec
CONSTANTS
  x = x
  y = y
  z = z
  Libs = {x, y, z}
  AreasOf <- Areas
  Reopened = {y, z}
  CtorLibs = {x}
  HeapEnds = {5, 6}
  Capacity = 6
  MaxScons = 4
  MaxDepth = 3
INVARIANTS TypeOK FaultsAreFound 
PROPERTY ReturnProtects
CHECK_DEADLOCK FALSE
