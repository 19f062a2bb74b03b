CONSTANTS
  FifoDepth = 2
  MaxLogs = 3
  Messages <- SmallMessages
  Firmware <- SmallFirmware
SPECIFICATION FairSpec
INVARIANTS
  TypeOK
  WireIsLog
  LineConfigured
PROPERTY LogEnds
