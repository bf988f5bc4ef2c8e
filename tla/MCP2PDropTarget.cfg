CONSTANTS
  n1 = n1
  n2 = n2
  n3 = n3
  f1 = f1
  f2 = f2
  c1 = c1
  c2 = c2
  None = None
  Nodes <- ThreeNodes
  Files <- TwoFiles
  Conns <- OneConn
  FSize <- Sizes
  DropMapped <- MdnsPairs
  Droppers <- OneDropper
  Budgets <- TwoDrops
SPECIFICATION Spec
INVARIANT DropGoesToChosenPeer
CHECK_DEADLOCK FALSE
