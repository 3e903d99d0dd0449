SPECIFICATION Spec
CONSTANTS
  a = a
  b = b
  a1 = a1
  a2 = a2
  b1 = b1
  Procs = {a, b}
  Creator = a
  Threads = {a1, a2, b1}
  Owner <- MCOwner
  Nil = Nil
  Reserved <- MCReserved
  MmapPages = {1, 3}
  MaxRegions = 3
INVARIANTS TypeOK HoldsAllUnlessMoved RecursionIsReal
CHECK_DEADLOCK FALSE
