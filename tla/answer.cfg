SPECIFICATION FairSpec
CONSTANTS
    my = my
    ch = ch
    Nil = Nil
    Clients = {c1}
    Early = {c1}
    Nonces = {n1, n2, n3, n4}
    Slots = {my}
    MyInfo = my
    Rank <- Rank1
    DumpOrder <- Dump1
    SendBuffer = 4
    ReadOnlyClients = FALSE
    Observability = TRUE
    NonceReuse = FALSE
    Inputs = {"want"}
    Ports = {"rpc"}
    Budget <- AnswerBudget
    Spent <- AnswerSpent
INVARIANTS
    StatusConsistent
PROPERTIES
    WantAnswered
    BootstrapFillsCache
CHECK_DEADLOCK FALSE
