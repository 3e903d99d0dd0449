SPECIFICATION Spec
CONSTANTS
  x = x
  y = y
  z = z
  Libs = {x, y}
  AreasOf <- Areas
  Reopened = {}
  CtorLibs = {}
  HeapEnds = {5}
  Capacity = 10
  MaxScons = 3
  MaxDepth = 2
INVARIANT CallsSurvive
CHECK_DEADLOCK FALSE
