\* Liveness, without symmetry.
CONSTANTS
  RAW_BUFFER_COUNT = 2
  Transfers = {t1, t2}
  MaxBlocks = 3
SPECIFICATION FairSpec
PROPERTIES
  StopReturns
  AcceptedIsDelivered
