CONSTANTS
  n1 = n1
  n2 = n2
  n3 = n3
  f1 = f1
  f2 = f2
  c1 = c1
  c2 = c2
  None = None
  Nodes <- TwoNodes
  Files <- OneFile
  Conns <- TwoConns
  FSize <- Sizes
  DropMapped <- MdnsPairs
  Droppers <- TwoNodes
  Budgets <- SmallBudgets
SPECIFICATION Spec
INVARIANTS TypeOK StateMatchesTransfer OneTransferAtATime ReceivedPrefix
ACTION_CONSTRAINT SecondConn
SYMMETRY Symmetry
CHECK_DEADLOCK FALSE
