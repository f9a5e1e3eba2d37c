SPECIFICATION Spec
CONSTANTS
    Nil = Nil
    Threads = {t1}
    Pages = {p1}
    Packets = {m, a}
    Anon = {}
    Chats = {m}
    Outgoing = {m}
    MaxEvents = 2
    MaxChat = 2
    Window = 1
    MaxProtos = 1
    Buffer = 1
    MaxShown = 1
    Starts <- OnePayload
INVARIANTS
    NoSendOnClosed
CHECK_DEADLOCK FALSE
