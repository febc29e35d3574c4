CONSTANTS
  transfer_count = 2
  MaxStarts = 2
SPECIFICATION Spec
INVARIANTS
  PrepareHasTransfers
