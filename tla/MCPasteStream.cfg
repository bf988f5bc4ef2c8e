CONSTANTS
  Announced <- SomeSizes
  MaxChunk = 2
  MaxExtra = 2
  DWordMod = 8
  Junk = Junk
SPECIFICATION FairSpec
INVARIANTS TypeOK PastedExactly NoLostWakeup InBounds
PROPERTIES CancelEndsPaste LastByteEndsPaste
CHECK_DEADLOCK FALSE
