SPECIFICATION Spec
CONSTANTS
  Layout <- MCLayout
  RegionStructs = 5
  MaxNewMaps = 1
INVARIANTS TypeOK ImportsApart AllImported JoinerHasAll
PROPERTY ImportEnds
CHECK_DEADLOCK FALSE
