SPECIFICATION Spec
CONSTANTS
    k1 = k1  k2 = k2  f1 = f1  f2 = f2
    Key = {k1, k2}
    Field = {f1, f2}
    IntMax = 1
    PrintMax = 0
    ArrCap = 4
    MaxArgs = 16
    Empty = Empty  Frac = Frac  Word = Word
    None = None  SetVal = SetVal  Freed = Freed
    KeyArgs <- KeySeqs
    FieldArgs <- FieldSeqs
    Arg <- Args
INVARIANTS TypeOK CountersExact NoFreedMember ArraysAgree RepliesTellChange
PROPERTIES FailureChangesNothing EmptiedOnlyBy
SYMMETRY Symmetric
CHECK_DEADLOCK FALSE
