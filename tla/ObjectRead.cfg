SPECIFICATION OFairSpec
CONSTANTS
  Layouts <- MCLayouts
  ChunkSize = 2
  ChunkOverhead = 1
  BufSize = 2
  MaxOffset = 5
  MaxStopped = 1
CHECK_DEADLOCK FALSE
PROPERTY ReadEnds
