SPECIFICATION Spec
CONSTANTS
    k1 = k1  k2 = k2  k3 = k3  c1 = c1  c2 = c2  c3 = c3
    Client = {c1, c2}
    MaxReq = 1
    Key = {k1, k2}
    Request <- PopRequests
    Fd = {5, 6}
    MaxEvents = 3
    ExitWhen = {}
    FreedRead = {"kept", "garbled", "abort"}
    ArrCap = 256
    Listen = Listen  NoConn = NoConn  Nil = Nil  Time = Time
INVARIANTS ArrayRepliedWhole
CHECK_DEADLOCK FALSE
