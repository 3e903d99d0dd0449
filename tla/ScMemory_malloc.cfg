SPECIFICATION Spec
CONSTANTS
  PageSize = 96
  Sizes = {0, 48, 56}
  MmapPages = {1}
  ReservedPages = 3
  NewPages = {3}
  RegionStructs = 3
  MaxFilePages = 2
INVARIANTS TypeOK NoOverlap NoLeak PageHeadsKept BlocksFit StaleFreeDetected RegionsApart
CHECK_DEADLOCK FALSE
