SPECIFICATION Spec
CONSTANTS
    ka = ka  kb = kb  kc = kc  kd = kd  v1 = v1  v2 = v2  SetVal = SetVal
    Key = {ka, kb, kc, kd}
    Val = {v1, v2, SetVal}
    None = None
    NBuckets = 4
    Hash <- Hashes
    Uses = {"keyspace", "set"}
    Count <- Counts
    ArrCap = 4
    MaxDrift = 2
INVARIANTS TypeOK ChainsSound NumCounts RandomAnswers ScanComplete
PROPERTIES IsMap
CHECK_DEADLOCK FALSE
