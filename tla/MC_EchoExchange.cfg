SPECIFICATION Spec
CONSTANTS
    c1 = c1
    a1 = a1
    a2 = a2
    Clients = {c1}
    Addrs = {a1, a2}
    AddrsOf <- MC_AddrsOf
    Descriptors = 2
    MaxConns = 2
    Faults = {"send", "recv", "create", "corrupt", "app", "junk", "main"}
INVARIANTS
    TypeOK
    NoStaleTimer
    UnarmedExcused
    ClosedAreFreed
    OnePerClient
    HandshakeAccepted
    EndsAgree
    ClientUnarmedExcused
PROPERTIES
    AdmissionSpec
\* An idle server and clients that have ended wait for ever.
CHECK_DEADLOCK FALSE
