CONSTANTS
  kCheapPrepend = 1
  kInitialSize = 8
  Base = 16
  TAG_NAME <- Tag
  LenWidth = 1
  Width <- Widths
  FileSizes = {4}
  Steps = 2
  Budgets <- CutBudget
  None = None
SPECIFICATION FairSpec

PROPERTIES KeepsWaiting
CHECK_DEADLOCK FALSE
