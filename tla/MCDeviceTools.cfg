CONSTANTS
  MaxOptions = 4
  Bytes = 8
  Ports = 2
  Pins = 4
  R820T_REGISTERS = 6
  CONF_R820T_START_REG = 2
  MsFirst = 3
  MsLast = 5
  MaxRuns = 3
  MAX_LENGTH = 6
  EraseSize = 4
  ChunkSize = 2
  StartAddresses = {0, 1, 4, 5, 6}
  Lengths = {0, 1, 3, 4, 7}
  Bits = {1, 2}
  Images <- MCImages
SPECIFICATION FairSpec
INVARIANTS
  WrittenIsThere
  ReadIsFlash
PROPERTIES
  NamedIsWritten
  SuccessIsComplete
  OthersAreKept
  ToolEnds
