CONSTANTS
  PageSize = 8
  WrapPages = 4
  MaxRegions = 4
  MemoryMaps <- WideMaps
SPECIFICATION Spec
INVARIANT FrameAddressesDistinct
