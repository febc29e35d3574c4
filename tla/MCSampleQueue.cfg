\* Safety: the transfers are interchangeable.
CONSTANTS
  RAW_BUFFER_COUNT = 2
  Transfers = {t1, t2}
  MaxBlocks = 5
SPECIFICATION Spec
SYMMETRY TransferSymmetry
INVARIANTS
  TypeOK
  GapAccounting
PROPERTIES
  BlockIntact
  ImplementsLossyFifo
