SPECIFICATION FairSpec
CONSTANTS
    my = my
    ch = ch
    Nil = Nil
    Clients = {c1}
    Early = {c1}
    Nonces = {n1}
    Slots = {my}
    MyInfo = my
    Rank <- Rank1
    DumpOrder <- Dump1
    SendBuffer = 4
    ReadOnlyClients = FALSE
    Observability = FALSE
    NonceReuse = FALSE
    Inputs = {"packet"}
    Ports = {"rpc"}
    Budget <- FailureBudget
    Spent <- All
PROPERTIES
    FailureEndsRun
CHECK_DEADLOCK FALSE
