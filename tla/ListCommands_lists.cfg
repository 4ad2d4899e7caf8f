SPECIFICATION Spec
CONSTANTS
    k1 = k1  k2 = k2  x = x  y = y
    Key = {k1, k2}
    Elem = {x, y}
    ArrCap = 2
    MaxLen = 3
    Offset <- Offsets
    MaxBlockKeys = 1
CHECK_DEADLOCK FALSE
SYMMETRY Symm
INVARIANTS TypeOK NoEmptyList RangesAgree RemAgrees InsertAgrees
PROPERTIES ReplyTellsChange
