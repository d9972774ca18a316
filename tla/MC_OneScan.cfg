SPECIFICATION FairSpec
CONSTANTS
  a = a
  b = b
  c = c
  NoEntry = NoEntry
  BuiltinLists <- OneEntry
  Extra <- JustC
  Cloud <- JustC
  PingThreads = 1
  TestThreads = 2
  Buttons = {"stop", "clear", "destroy"}
  ProtoModes = {"Hybrid"}
  MaxScans = 1
  MaxEdits = 1
CHECK_DEADLOCK FALSE
INVARIANTS
  RowOnce
  OneSuccess
PROPERTIES
  StopHolds
  ScanEnds
  ThreadsRest
