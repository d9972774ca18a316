SPECIFICATION Spec
CONSTANTS
    c1 = c1
    a1 = a1
    a2 = a2
    Clients = {c1}
    Addrs = {a1, a2}
    AddrsOf <- MC_AddrsOf
    Descriptors = 1
    MaxConns = 1
    Faults = {}
INVARIANTS
    DeadlineHeard
CHECK_DEADLOCK FALSE
