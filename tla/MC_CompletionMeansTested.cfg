SPECIFICATION Spec
CONSTANTS
  a = a
  b = b
  c = c
  NoEntry = NoEntry
  BuiltinLists <- OneEntry
  Extra <- None
  Cloud <- None
  PingThreads = 1
  TestThreads = 1
  Buttons = {"stop"}
  ProtoModes = {"H3"}
  MaxScans = 2
  MaxEdits = 0
CHECK_DEADLOCK FALSE
INVARIANTS
  CompletionMeansTested
