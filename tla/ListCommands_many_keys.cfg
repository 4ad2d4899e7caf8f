SPECIFICATION Spec
CONSTANTS
    k1 = k1  k2 = k2  x = x  y = y
    Key = {k1, k2}
    Elem = {x, y}
    ArrCap = 256
    MaxLen = 3
    Offset <- Offsets
    MaxBlockKeys = 2
CHECK_DEADLOCK FALSE
INVARIANTS NoEmptyList
