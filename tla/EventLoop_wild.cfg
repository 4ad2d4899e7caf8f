SPECIFICATION Spec
CONSTANTS
    k1 = k1  k2 = k2  k3 = k3  c1 = c1  c2 = c2  c3 = c3
    Client = {c1, c2, c3}
    MaxReq = 1
    Key = {k1, k2}
    Request <- WildRequests
    Fd = {5, 6}
    MaxEvents = 3
    ExitWhen = {"idle", "waiting", "unread"}
    FreedRead = {"kept", "garbled", "abort"}
    ArrCap = 256
    Listen = Listen  NoConn = NoConn  Nil = Nil  Time = Time
SYMMETRY Symm
INVARIANTS TypeOK AnsweredOnce NoMissedWakeup
CHECK_DEADLOCK FALSE
