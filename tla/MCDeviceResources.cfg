CONSTANTS
  Bus <- MCBus
  RAW_BUFFER_COUNT = 1
  transfer_count = 2
  Pool <- MCPool
SPECIFICATION Spec
INVARIANTS
  OneHandle
  EachFreedOnce
  NothingLost
  BuffersFit
