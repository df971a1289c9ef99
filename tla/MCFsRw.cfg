CONSTANTS
  d1 = d1  d2 = d2  d3 = d3
  Descs = {d1, d2, d3}
  FileOf <- MCFileOf
  SECTOR_SIZE = 2
  NR_SECTS = 3
  FSBUF_SECTS = 2
  NrFiles = 2
  ReadLens = {3}
  WriteData <- MCWriteData
  LongData <- MCLongData
  MaxPos = 8
SPECIFICATION RwSpec
PROPERTIES
  KeepsBytes
  NeighboursUntouched
  ReadsFromStart
