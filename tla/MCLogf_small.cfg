CONSTANTS
  IntMod = 32
  LongMod = 256
  Formats <- SmallFormats
  Levels <- SmallLevels
SPECIFICATION Spec
INVARIANTS
  TypeOK
  PrintsWhatWasAsked
  ReadsFormatOnce
