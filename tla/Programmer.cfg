SPECIFICATION FairSpec
CONSTANTS
  None = None
  Garbled = Garbled
  Segment = 8
  Paragraph = 2
  LineData = 4
  BinBuf = 4
  PageBuffer = 2
  FF = 0
  Addresses <- MCAddresses
  Bytes <- MCBytes
  Sectors <- MCSectors
  Regions <- MCRegions
  Algorithms <- MCAlgorithms
  BufferSize <- MCBufferSize
  HasVerify <- MCHasVerify
  Reliable = FALSE
  HexFiles <- MCHexFiles
  Universal <- MCUniversal
  BinFiles <- MCBinFiles
  FileBlock = 28
  StreamBlocks <- MCStreamBlocks
  Blank <- MCBlank
INVARIANT
  ParsedAsWritten
  SuccessMeansWritten
  AlgorithmReady
  
PROPERTY
  OthersKept
  SessionEnds
CHECK_DEADLOCK FALSE
