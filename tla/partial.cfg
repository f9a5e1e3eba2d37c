SPECIFICATION Spec
CONSTANTS
    my = my
    ch = ch
    Nil = Nil
    Clients = {c1, c2}
    Early = {c1, c2}
    Nonces = {n1, n2, n3}
    Slots = {my, ch}
    MyInfo = my
    Rank <- Rank2
    DumpOrder <- Dump2
    SendBuffer = 4
    ReadOnlyClients = FALSE
    Observability = FALSE
    NonceReuse = FALSE
    Inputs = {"want"}
    Ports = {"rpc"}
    Budget <- PartialBudget
    Spent <- All
SYMMETRY Perms
INVARIANTS
    CachedAnswerComplete
CHECK_DEADLOCK FALSE
