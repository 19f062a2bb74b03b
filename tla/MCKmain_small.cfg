CONSTANTS
  Vectors <- ClassicVectors
  CpuErrors <- ClassicErrors
  Unanswered <- OneUnanswered
  MaxRaised = 2
SPECIFICATION FairSpec
INVARIANTS
  TypeOK
  FrameAsPushed
  LatestReported
PROPERTIES
  NoTripleFault
  ExceptionsHalt
