CONSTANTS
  Addresses <- SmallMemory
  Sizes <- SmallSizes
  Byte <- SmallBytes
SPECIFICATION Spec
INVARIANTS
  IndInv
  Moved
  Filled
  Ordered
