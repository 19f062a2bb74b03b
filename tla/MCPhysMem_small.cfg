\* Every map of SmallMaps: nothing is near the 32-bit limits.
CONSTANTS
  PageSize = 4
  WrapPages = 8
  MaxRegions = 3
  MemoryMaps <- SmallMaps
SPECIFICATION FairSpec
INVARIANTS
  TypeOK
  HandedAscending
  HandedClear
  BitmapMirrorsHandouts
  NoFrameLost
  BitmapAlwaysFits
  RefusesOnlyTinyMachines
  AccountInv
PROPERTIES
  AllocReturns
  SupplySpec
