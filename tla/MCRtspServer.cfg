CONSTANTS
    Clients = {c1, c2}
    Leaving = {c1}
    NoClient = NoClient
    Files <- ShortFiles
    QueueMax = 1
SPECIFICATION Spec
CHECK_DEADLOCK FALSE
INVARIANTS ServerTypeOK CrashesKnown PacketsSentOnce SessionsEnd
