CONSTANTS
  MaxOptions = 3
  Samples = {0, 7, 5000, 32768}
  Frequencies <- MCFrequencies
  RateArguments <- MCRateArguments
  Gains = {0, 15, 22}
  U64 = 65536
  SAMPLES_TO_XFER_MAX_U64 = 32768
  FirmwareLists <- MCFirmwareLists
  Values <- MCValues
  MIN_SAMPLERATE_BY_VALUE = 1000000
  GainValues = {0, 7, 8, 21}
SPECIFICATION Spec
INVARIANTS
  FormatFitsType
  LimitFitsType
  ListedRateIsSet
  MoreGainIsMore
  HeaderRateIsDeviceRate
  GainsAsAsked
