CONSTANTS
  transfer_count = 2
  MaxStarts = 2
SPECIFICATION FairSpec
INVARIANTS
  TypeOK
  OneStream
  Restartable
PROPERTIES
  NoFreeInUse
  StopReturns
