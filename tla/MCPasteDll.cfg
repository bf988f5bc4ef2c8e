CONSTANTS
  Offers <- TwoOffers
  Pastes <- TwoPastes
  Budgets <- SmallBudgets
  Parts = 2
SPECIFICATION FairSpec
INVARIANTS TypeOK WindowsHaveOwners LocalCopyReported CalmNeverCrashes
PROPERTIES CalmPasteEnds
CHECK_DEADLOCK FALSE
