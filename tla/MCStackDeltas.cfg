SPECIFICATION MCSpec
CONSTANTS
  PageBits = 2
  MinimumGap = 1
  LargeGap = 3
  Info <- MCInfo
  MaxInfos = 2
  MaxAddress = 8
  MaxDeltas = 4
  MaxFrames = 7
  MaxTailCalls = 6
  NativePerProgram = 2
  VMPerProgram = 2
  MaxNative = 4
  MaxVM = 3
INVARIANT ExtractionFaithful
INVARIANT LookupFaithful
INVARIANT FramesInOrder
INVARIANT NoSilentLoss
PROPERTY UnwindEnds
CHECK_DEADLOCK FALSE
