SPECIFICATION Spec
CONSTANTS
    my = my
    ch = ch
    Nil = Nil
    Clients = {c1}
    Early = {}
    Nonces = {n1, n2, n3}
    Slots = {my, ch}
    MyInfo = my
    Rank <- Rank2
    DumpOrder <- Dump2
    SendBuffer = 4
    ReadOnlyClients = FALSE
    Observability = FALSE
    NonceReuse = TRUE
    Inputs = {"want"}
    Ports = {"rpc"}
    Budget <- HandshakeBudget
    Spent <- All
SYMMETRY Perms
INVARIANTS
    RadioAnswerComplete
    CacheFollowsRadio
    NoMissedUpdate
PROPERTIES
    ImplementsHandshake
CHECK_DEADLOCK FALSE
