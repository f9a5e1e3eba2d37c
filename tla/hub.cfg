SPECIFICATION Spec
CONSTANTS
    Nil = Nil
    Threads = {t1, t2}
    Pages = {p1, p2}
    Packets = {m, z, a}
    Anon = {z}
    Chats = {m, z}
    Outgoing = {m, z}
    MaxEvents = 2
    MaxChat = 2
    Window = 1
    MaxProtos = 1
    Buffer = 1
    MaxShown = 4
    Starts <- PagesOrMany
SYMMETRY Perms
INVARIANTS
    HubTypeOK
    NoDuplicateChat
    UpdatesReachPages
    EventsOnce
    NeverHeldUp
CHECK_DEADLOCK FALSE
