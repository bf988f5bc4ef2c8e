CONSTANTS
  RangeSize = 3
  IntMax = 15
  Lens <- LargeLens
  Honours <- GoodServer
  DiskErrors <- GoodDisk
  Threads = 2
  MaxChunk = 2
  Hole = Hole
SPECIFICATION Spec
INVARIANT SegmentsTile
CHECK_DEADLOCK FALSE
