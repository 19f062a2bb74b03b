CONSTANTS
  PageSize = 4
  WrapPages = 8
  MaxRegions = 3
  MemoryMaps <- SmallMaps
SPECIFICATION Spec
INVARIANT RegionWalkInBounds
