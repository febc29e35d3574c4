SPECIFICATION FairSpec
CONSTANTS
  PackedWords = 3
  PlainWords = 2
  MaxChanges = 1
  Kernels <- MCKernels
  Taps <- MCTaps
  SIZE_FACTOR = 2
  PIECE = 4
  MaxPairs = 10
  MaxResets = 1
  SCALE = 8
  ALPHA = 7
  RANGE = 32
  Levels <- MCLevels
INVARIANTS IndicesInRange FirIsConvolution DelayIsHalfKernel SamplesInOrder BlockAsAnnounced HalfRangeFits
PROPERTIES DcVanishes
