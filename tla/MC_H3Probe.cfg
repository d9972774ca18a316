SPECIFICATION FairSpec
CONSTANTS
  Servers <- AllServers
  Statuses <- AllStatuses
  CaSets <- AllCas
  Deadline = 2
  MaxClock = 5
CHECK_DEADLOCK FALSE
INVARIANTS
  AnswerKept
  AnswerTruthful
  LateBounded
PROPERTIES
  ContractSpec
  Returns
