SPECIFICATION FairSpec
CONSTANTS
    my = my
    ch = ch
    Nil = Nil
    Clients = {c1}
    Early = {}
    Nonces = {n1}
    Slots = {my}
    MyInfo = my
    Rank <- Rank1
    DumpOrder <- Dump1
    SendBuffer = 1
    ReadOnlyClients = FALSE
    Observability = FALSE
    NonceReuse = FALSE
    Inputs = {"packet"}
    Ports = {"rpc"}
    Budget <- ShutdownBudget
    Spent <- All
INVARIANTS
    NoSilentLoss
PROPERTIES
    ShutdownClosesClients
    ImplementsSession
CHECK_DEADLOCK FALSE
