CONSTANTS
  Clients = {a, b}
  Sizes <- SomeSizes
  NoClient = NoClient
  MaxMessages = 6
  MaxClicks = 1
  MaxConns = 3
SPECIFICATION Spec
INVARIANTS TypeOK OneEntryPerClient ShownIsListed ButtonsComeBack
CHECK_DEADLOCK FALSE
