SPECIFICATION Spec
CONSTANTS
    my = my
    ch = ch
    Nil = Nil
    Clients = {c1, c2}
    Early = {c1}
    Nonces = {n1, n2}
    Slots = {my}
    MyInfo = my
    Rank <- Rank1
    DumpOrder <- Dump1
    SendBuffer = 2
    ReadOnlyClients = FALSE
    Observability = FALSE
    NonceReuse = FALSE
    Inputs = {"want", "disconnect", "other"}
    Ports = {"rpc"}
    Budget <- MembersBudget
    Spent <- MembersSpent
SYMMETRY Perms
INVARIANTS
    TypeOK
    RegistryOK
    AnsweredOnce
    NoGhostRequests
    OneRequestPerClient
    NoMissedUpdate
CHECK_DEADLOCK FALSE
