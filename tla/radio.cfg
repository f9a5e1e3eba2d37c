SPECIFICATION Spec
CONSTANTS
    Nil = Nil
    Conns = {c1}
    Fetches = {f1}
    MaxSessions = 1
    MaxRapidFails = 2
    ReconnectDelay = TRUE
    MaxEvents = 2
INVARIANTS
    NilRadioRefused
CHECK_DEADLOCK FALSE
