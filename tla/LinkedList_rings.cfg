SPECIFICATION Spec
CONSTANTS
    List = {l, m}
    Entry = {e1, e2, e3, e4}
INVARIANTS TypeOK RingsClosed NumCounts
SYMMETRY Symmetry
