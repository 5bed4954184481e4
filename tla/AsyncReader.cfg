SPECIFICATION FairReaderSpec
CONSTANTS
  BlockSize = 3
  StreamLength = 19
  SourceMayFail = TRUE
PROPERTIES
  ImplementsByteStream
  EveryCallReturns
CHECK_DEADLOCK FALSE
