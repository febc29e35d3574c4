CONSTANTS
  FirmwareLists <- MCFirmwareLists
  Values <- MCValues
  MIN_SAMPLERATE_BY_VALUE = 1000000
SPECIFICATION Spec
INVARIANTS
  ListedRealRateIsSet
