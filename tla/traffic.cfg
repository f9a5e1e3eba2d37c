SPECIFICATION Spec
CONSTANTS
    my = my
    ch = ch
    Nil = Nil
    Clients = {c1, c2}
    Early = {c1, c2}
    Nonces = {n1}
    Slots = {my}
    MyInfo = my
    Rank <- Rank1
    DumpOrder <- Dump1
    SendBuffer = 1
    ReadOnlyClients = TRUE
    Observability = FALSE
    NonceReuse = FALSE
    Inputs = {"packet", "raw"}
    Ports = {"rpc", "chat", "anon"}
    Budget <- TrafficBudget
    Spent <- TrafficSpent
SYMMETRY Perms
INVARIANTS
    EchoReachesSender
    ReadOnlyRespected
CHECK_DEADLOCK FALSE
