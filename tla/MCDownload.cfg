CONSTANTS
  RangeSize = 3
  IntMax = 15
  Lens <- SmallLens
  Honours <- AnyServer
  DiskErrors <- AnyDisk
  Threads = 3
  MaxChunk = 2
  Hole = Hole
SPECIFICATION Spec
INVARIANTS TypeOK SegmentsTile OwnSegmentOnly BytesInPlace SuccessMeansComplete
CHECK_DEADLOCK FALSE
