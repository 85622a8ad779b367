SPECIFICATION Spec
CONSTANTS
    Users = {u1, u2}
    NoUser = NoUser
    Sockets = {s1, s2, s3}
    NoSocket = NoSocket
    Names = {n1, n2}
    Topics = {t1}
    NoTopic = NoTopic
    Convs = {c1, c2}
    NoConv = NoConv
    Procs = {p1, p2}
    MaxMsgs = 2
    MaxCalls = 4
    MaxFaults = 1
CHECK_DEADLOCK FALSE
SYMMETRY Symmetric
INVARIANTS
    PresenceSettles
    RoutesAreLive
    LastMessageIsLatest
    UnreadIsNew
    OneConversationPerTopic
