CONSTANTS
  Fanout = 3
  Hhdm = 27
  KernelVma = 72
  StackPages = 2
  PointerReach = 16
  Machines <- SmallMachines
SPECIFICATION Spec
INVARIANT MappableOnTheFly
