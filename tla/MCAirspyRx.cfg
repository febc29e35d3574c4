CONSTANTS
  transfer_count = 1
  BlockBytes = 2
  Limits = {0, 1, 4, 5}
  MaxBlocks = 3
  SizeModulus = 5
SPECIFICATION FairSpec
INVARIANTS
  TypeOK
  HeaderMatchesFile
  ExactCount
  ExitClosesDevice
PROPERTIES
  StopsWhenAsked
  LimitEndsRun
