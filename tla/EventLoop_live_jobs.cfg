SPECIFICATION FairSpec
CONSTANTS
    k1 = k1  k2 = k2  k3 = k3  c1 = c1  c2 = c2  c3 = c3
    Client = {c1, c2, c3}
    MaxReq = 1
    Key = {k1, k2, k3}
    Request <- LiveRequests
    Fd = {5, 6, 7}
    MaxEvents = 3
    ExitWhen = {}
    FreedRead = {"kept"}
    ArrCap = 256
    Listen = Listen  NoConn = NoConn  Nil = Nil  Time = Time
PROPERTIES TimedWaitEnds PresentServed
CHECK_DEADLOCK FALSE
