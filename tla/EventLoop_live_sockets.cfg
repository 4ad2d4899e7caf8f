SPECIFICATION FairSpec
CONSTANTS
    k1 = k1  k2 = k2  k3 = k3  c1 = c1  c2 = c2  c3 = c3
    Client = {c1, c2}
    MaxReq = 2
    Key = {k1, k2}
    Request <- SocketRequests
    Fd = {5, 6}
    MaxEvents = 2
    ExitWhen = {"idle", "waiting", "unread"}
    FreedRead = {"kept"}
    ArrCap = 256
    Listen = Listen  NoConn = NoConn  Nil = Nil  Time = Time
PROPERTIES RequestsRead ConnectionsAccepted DescriptorsClosed
CHECK_DEADLOCK FALSE
