SPECIFICATION FairSpec
CONSTANTS
  Servers <- AllServers
  ConnectLimit = 3
  IdleLimit = 2
  MaxClock = 16
INVARIANTS HeldBounded
PROPERTIES ContractSpec Returns
CHECK_DEADLOCK FALSE
