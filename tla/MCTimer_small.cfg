CONSTANTS
  PIT_MCLK_FREQ = 12
  Millis = 2
  ByteSize = 3
  WordSize = 8
  Hertz <- SmallHertz
  Delays <- SmallDelays
  MaxInits = 2
  MaxTicks = 9
SPECIFICATION FairSpec
INVARIANT TypeOK
PROPERTIES
  DelayLongEnough
  DelayEnds
