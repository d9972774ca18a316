SPECIFICATION Spec
CONSTANTS
  a = a
  b = b
  c = c
  NoEntry = NoEntry
  BuiltinLists <- OneOrTwo
  Extra <- None
  Cloud <- None
  PingThreads = 2
  TestThreads = 1
  Buttons = {"stop"}
  ProtoModes = {"H3", "TCP", "Hybrid"}
  MaxScans = 2
  MaxEdits = 0
SYMMETRY Symmetry
CONSTRAINT ShortPairs
CHECK_DEADLOCK FALSE
INVARIANTS
  OkMatches
  RunningHasOwner
  SettledIdle
  CompletionComplete
  NeverStuck
PROPERTIES
  StopHolds
  ContractSpec
