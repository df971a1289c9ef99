CONSTANTS
  COUNT_LIMIT = 2
  MaxAsk = 3
  NrSectors = 10
  Values = {0, 1}
  NR_PART_PER_DRIVE = 2
  NR_SUB_PER_PART = 3
  Layouts <- MCLayouts
  MaxOpen = 2
  NoRequest = NoRequest
SPECIFICATION HdSpec
INVARIANT PartitionsFound
PROPERTIES
  RefinesBlockDevice
  RequestsEnd
\* A request too long for the count is never answered.
CHECK_DEADLOCK FALSE
