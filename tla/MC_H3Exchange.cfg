SPECIFICATION FairSpec
CONSTANTS
    c1 = c1
    a1 = a1
    a2 = a2
    Clients = {c1}
    Addrs = {a1, a2}
    AddrsOf <- MC_AddrsOf
    Descriptors = 1
    MaxConns = 2
    Faults = {"send", "recv", "create", "corrupt", "app", "junk", "main"}
INVARIANTS
    UnarmedExcused
    AnswersMatch
    GarbageFreeExcused
PROPERTIES
    ServerFrees
    ClientEnds
\* An idle server and clients that have ended wait for ever.
CHECK_DEADLOCK FALSE
