SPECIFICATION Spec
CONSTANTS
    Nil = Nil
    Conns = {c1, c2}
    Fetches = {f1, f2}
    MaxSessions = 2
    MaxRapidFails = 2
    ReconnectDelay = TRUE
    MaxEvents = 4
SYMMETRY Perms
INVARIANTS
    SessionsTypeOK
    ShownWhileInstalled
    GivesUpInTime
    WaitersOwned
    CannedAnswerReal
    NoStrayClient
    NoLeakedDescriptor
PROPERTIES
    EachSession
CHECK_DEADLOCK FALSE
