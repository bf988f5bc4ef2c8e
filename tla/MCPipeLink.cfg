CONSTANTS
  kCheapPrepend = 1
  kInitialSize = 8
  Base = 16
  TAG_NAME <- Tag
  LenWidth = 1
  Width <- Widths
  FileSizes = {4}
  Steps = 2
  Budgets <- SmallBudgets
  None = None
SPECIFICATION FairSpec
INVARIANTS TypeOK StreamIntact MessagesIntact WholeReadsNeverSpin
PROPERTIES ClientListed TransferReported
CHECK_DEADLOCK FALSE
