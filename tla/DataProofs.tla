----------------------------- MODULE DataProofs -----------------------------
(* Theorems about DataCommands. *)
EXTENDS DataCommands, Lemmas

-----------------------------------------------------------------------------
(* Values *)

\* Five names are of five things at most.
LEMMA AtMostFive ==
    ASSUME NEW a, NEW b, NEW c, NEW d, NEW e
    PROVE  Cardinality({a, b, c, d, e}) <= 5
<1>1. /\ IsFiniteSet({a})
      /\ Cardinality({a}) = 1
    BY FS_Singleton
<1>2. /\ IsFiniteSet({a} \cup {b})
      /\ Cardinality({a} \cup {b}) \in 0..2
    BY <1>1, FS_AddElement
<1>3. /\ IsFiniteSet({a} \cup {b} \cup {c})
      /\ Cardinality({a} \cup {b} \cup {c}) \in 0..3
    BY <1>2, FS_AddElement
<1>4. /\ IsFiniteSet({a} \cup {b} \cup {c} \cup {d})
      /\ Cardinality({a} \cup {b} \cup {c} \cup {d}) \in 0..4
    BY <1>3, FS_AddElement
<1>5. Cardinality({a} \cup {b} \cup {c} \cup {d} \cup {e}) \in 0..5
    BY <1>4, FS_AddElement
<1>6. {a} \cup {b} \cup {c} \cup {d} \cup {e} = {a, b, c, d, e}
    OBVIOUS
<1>7. QED BY <1>5, <1>6

\* The texts and the marks that DataAssumption tells apart.
LEMMA MarksDiffer ==
    /\ Empty # Frac /\ Empty # Word /\ Frac # Word
    /\ None \notin Value /\ SetVal \notin Value /\ Freed \notin Value
    /\ SetVal # None /\ Freed # None /\ Freed # SetVal
<1> DEFINE All == {Empty, Frac, Word, None, SetVal, Freed}
<1>1. Cardinality(All) = 6
    BY DataAssumption
<1>2. ASSUME NEW a, NEW b, NEW c, NEW d, NEW e, All = {a, b, c, d, e} PROVE FALSE
    <2>1. Cardinality(All) <= 5
        BY <1>2, AtMostFive
    <2>2. QED BY <1>1, <2>1
<1>3. Empty # Frac
    <2>1. CASE Empty = Frac
        <3>1. All = {Frac, Word, None, SetVal, Freed}
            BY <2>1
        <3>2. QED BY <3>1, <1>2
    <2>2. QED BY <2>1
<1>4. Empty # Word
    <2>1. CASE Empty = Word
        <3>1. All = {Frac, Word, None, SetVal, Freed}
            BY <2>1
        <3>2. QED BY <3>1, <1>2
    <2>2. QED BY <2>1
<1>5. Frac # Word
    <2>1. CASE Frac = Word
        <3>1. All = {Empty, Word, None, SetVal, Freed}
            BY <2>1
        <3>2. QED BY <3>1, <1>2
    <2>2. QED BY <2>1
<1>6. ASSUME NEW m \in {None, SetVal, Freed}, NEW v \in {Empty, Frac, Word} PROVE m # v
    <2>1. SUFFICES ASSUME m = v PROVE FALSE
        OBVIOUS
    <2>2. CASE v = Empty
        <3>1. All = {Frac, Word, None, SetVal, Freed}
            BY <2>1, <2>2
        <3>2. QED BY <3>1, <1>2
    <2>3. CASE v = Frac
        <3>1. All = {Empty, Word, None, SetVal, Freed}
            BY <2>1, <2>3
        <3>2. QED BY <3>1, <1>2
    <2>4. CASE v = Word
        <3>1. All = {Empty, Frac, None, SetVal, Freed}
            BY <2>1, <2>4
        <3>2. QED BY <3>1, <1>2
    <2>5. QED BY <2>2, <2>3, <2>4
<1>7. SetVal # None
    <2>1. CASE SetVal = None
        <3>1. All = {Empty, Frac, Word, None, Freed}
            BY <2>1
        <3>2. QED BY <3>1, <1>2
    <2>2. QED BY <2>1
<1>8. Freed # None
    <2>1. CASE Freed = None
        <3>1. All = {Empty, Frac, Word, None, SetVal}
            BY <2>1
        <3>2. QED BY <3>1, <1>2
    <2>2. QED BY <2>1
<1>9. Freed # SetVal
    <2>1. CASE Freed = SetVal
        <3>1. All = {Empty, Frac, Word, None, SetVal}
            BY <2>1
        <3>2. QED BY <3>1, <1>2
    <2>2. QED BY <2>1
<1>10. ASSUME NEW m \in {None, SetVal, Freed} PROVE m \notin IntMin..IntMax
    BY DataAssumption
<1>11. QED BY <1>3, <1>4, <1>5, <1>6, <1>7, <1>8, <1>9, <1>10 DEF Value

\* No text is an integer.
LEMMA TextsAreNoNumbers ==
    {Empty, Frac, Word} \cap (IntMin..IntMax) = {}
BY DataAssumption

LEMMA Limits == IntMax \in Nat /\ IntMin \in Int /\ IntMin = -IntMax - 1 /\ PrintMax \in 0..IntMax
BY DataAssumption DEF IntMin

\* Wrap stays in range, and leaves alone what is in range.
LEMMA WrapIs ==
    ASSUME NEW n \in Int, NEW max \in Nat
    PROVE  /\ Wrap(n, max) \in (-max - 1)..max
           /\ n \in (-max - 1)..max => Wrap(n, max) = n
<1> DEFINE m == 2 * (max + 1)
           r == (n + max + 1) % m
<1>1. m \in Nat /\ m > 0
    OBVIOUS
<1>2. n + max + 1 \in Int
    OBVIOUS
<1>3. r \in 0..(m - 1)
    <2> HIDE DEF m
    <2>1. QED BY <1>1, <1>2
<1>4. ASSUME n \in (-max - 1)..max PROVE r = n + max + 1
    <2>1. n + max + 1 \in 0..(m - 1)
        BY <1>4
    <2> HIDE DEF m
    <2>2. QED BY <1>1, <2>1
<1>5. Wrap(n, max) = r - (max + 1)
    BY DEF Wrap
<1>6. r \in Int /\ r >= 0 /\ r <= 2 * max + 1
    BY <1>3
<1> HIDE DEF r, m
<1>7. QED BY <1>4, <1>5, <1>6

\* A number is an integer of the width of bss_int_t.
LEMMA NumberIs ==
    ASSUME NEW v, IsInteger(v)
    PROVE  /\ Number(v) \in Int /\ IntMin <= Number(v) /\ Number(v) <= IntMax
           /\ v \in Value
BY Limits DEF IsInteger, Number, Value

\* The test for an overflow is exact.
LEMMA OverflowsIs ==
    ASSUME NEW n \in IntMin..IntMax, NEW origin \in IntMin..IntMax
    PROVE  Overflows(n, origin) <=> n + origin \notin IntMin..IntMax
<1>1. n \in Int /\ origin \in Int /\ n <= IntMax /\ origin <= IntMax
      /\ IntMin <= n /\ IntMin <= origin
    BY Limits
<1>2. CASE n <= 0
    <2>1. Overflows(n, origin) <=> IntMin - n > origin
        BY <1>2 DEF Overflows
    <2>2. n + origin <= IntMax
        BY <1>1, <1>2, Limits
    <2>3. IntMin - n > origin <=> n + origin < IntMin
        BY <1>1, Limits
    <2>4. QED BY <1>1, <2>1, <2>2, <2>3, Limits
<1>3. CASE ~(n <= 0)
    <2>1. Overflows(n, origin) <=> IntMax - n < origin
        BY <1>3 DEF Overflows
    <2>2. n + origin >= IntMin
        BY <1>1, <1>3, Limits
    <2>3. IntMax - n < origin <=> n + origin > IntMax
        BY <1>1, Limits
    <2>4. QED BY <1>1, <2>1, <2>2, <2>3, Limits
<1>4. QED BY <1>2, <1>3

\* incrby and decrby refuse and leave the cell, or store a value.
LEMMA SumIs ==
    ASSUME NEW cell \in Value \cup {None}, NEW arg, NEW sign \in {1, -1},
           NEW c, c = decrbyincrby(cell, arg, sign)
    PROVE  \/ c.ret = "fail" /\ c.cell = cell
           \/ c.ret = "int" /\ c.cell \in Value
<1> DEFINE by == Wrap(sign * Number(arg), IntMax)
           count == Number(cell)
<1>1. CASE ~IsInteger(arg)
    BY <1>1 DEF decrbyincrby, Cell
<1>2. CASE IsInteger(arg) /\ cell = None
    <2>1. Number(arg) \in Int /\ arg \in Value
        BY <1>2, NumberIs
    <2>2. sign * Number(arg) \in Int
        BY <2>1
    <2>3. by \in Int
        BY <2>2, WrapIs, Limits
    <2>4. Wrap(by, PrintMax) \in (-PrintMax - 1)..PrintMax
        <3> HIDE DEF by
        <3>1. QED BY <2>3, WrapIs, Limits
    <2>5. (-PrintMax - 1)..PrintMax \subseteq IntMin..IntMax
        BY Limits
    <2>6. c = Cell("int", IF sign = -1 THEN Wrap(by, PrintMax) ELSE arg, by)
        BY <1>2 DEF decrbyincrby
    <2> HIDE DEF by
    <2>7. QED BY <2>1, <2>4, <2>5, <2>6 DEF Cell, Value
<1>3. CASE IsInteger(arg) /\ cell # None
    <2>1. CASE ~IsInteger(cell) \/ Overflows(by, count)
        <3>1. c = Cell("fail", cell, None)
            BY <1>3, <2>1 DEF decrbyincrby
        <3>2. QED BY <3>1 DEF Cell
    <2>2. CASE IsInteger(cell) /\ ~Overflows(by, count)
        <3>1. Number(arg) \in Int /\ count \in IntMin..IntMax
            BY <1>3, <2>2, NumberIs, Limits
        <3>2. sign * Number(arg) \in Int
            BY <3>1
        <3>3. by \in IntMin..IntMax
            BY <3>2, WrapIs, Limits
        <3> HIDE DEF by, count
        <3>4. by + count \in IntMin..IntMax
            BY <2>2, <3>1, <3>3, OverflowsIs
        <3>5. c = Cell("int", by + count, Wrap(count + sign * Number(arg), IntMax))
            BY <1>3, <2>2 DEF decrbyincrby, by, count
        <3>6. QED BY <3>4, <3>5 DEF Cell, Value
    <2>3. QED BY <2>1, <2>2
<1>4. QED BY <1>1, <1>2, <1>3

\* The statement of CountersExact about one cell.
CounterExact(cell, arg, sign) ==
    LET r == decrbyincrby(cell, arg, sign)
        origin == IF cell = None THEN 0 ELSE Number(cell)
        sum == origin + sign * Number(arg)
        known == \/ sign = 1
                 \/ cell # None /\ Number(arg) # IntMin
                 \/ cell = None /\ -Number(arg) \in (-PrintMax - 1)..PrintMax
    IN  IF IsInteger(arg) /\ (cell = None \/ IsInteger(cell))
        THEN known => IF sum \in IntMin..IntMax
                      THEN r.ret = "int" /\ r.val = sum /\ Number(r.cell) = sum
                      ELSE r.ret = "fail" /\ r.cell = cell
        ELSE r.ret = "fail" /\ r.cell = cell

LEMMA CounterIsExact ==
    ASSUME NEW cell \in Value \cup {None}, NEW arg \in Value, NEW sign \in {1, -1}
    PROVE  CounterExact(cell, arg, sign)
<1> DEFINE r == decrbyincrby(cell, arg, sign)
           by == Wrap(sign * Number(arg), IntMax)
           count == Number(cell)
           known == \/ sign = 1
                    \/ cell # None /\ Number(arg) # IntMin
                    \/ cell = None /\ -Number(arg) \in (-PrintMax - 1)..PrintMax
<1>1. CASE ~IsInteger(arg)
    BY <1>1 DEF CounterExact, decrbyincrby, Cell
<1>2. CASE IsInteger(arg) /\ cell # None /\ ~IsInteger(cell)
    BY <1>2 DEF CounterExact, decrbyincrby, Cell
<1>3. ASSUME IsInteger(arg), known
      PROVE  /\ Number(arg) \in Int
             /\ by = sign * Number(arg)
             /\ by \in IntMin..IntMax
             /\ sign = -1 /\ cell = None => Wrap(by, PrintMax) = by
    <2> DEFINE n == Number(arg)
    <2>1. n \in Int /\ IntMin <= n /\ n <= IntMax
        BY <1>3, NumberIs
    <2>2. sign * n = IF sign = 1 THEN n ELSE -n
        BY <2>1
    <2>3. -n \in (-PrintMax - 1)..PrintMax => -n \in IntMin..IntMax
        BY <2>1, Limits
    <2>4. n # IntMin => -n \in IntMin..IntMax
        BY <2>1, Limits
    <2>5. sign * n \in IntMin..IntMax
        BY <1>3, <2>1, <2>2, <2>3, <2>4, Limits
    <2> HIDE DEF n
    <2>6. Wrap(sign * n, IntMax) = sign * n
        BY <2>5, WrapIs, Limits
    <2>7. ASSUME sign = -1, cell = None PROVE Wrap(sign * n, PrintMax) = sign * n
        <3>1. sign * n \in (-PrintMax - 1)..PrintMax
            BY <1>3, <2>2, <2>7 DEF n
        <3>2. QED BY <2>5, <3>1, WrapIs, Limits
    <2>8. QED BY <2>1, <2>5, <2>6, <2>7 DEF n
<1>4. CASE IsInteger(arg) /\ cell = None
    <2>1. SUFFICES ASSUME known
                   PROVE  IF 0 + sign * Number(arg) \in IntMin..IntMax
                          THEN r.ret = "int" /\ r.val = 0 + sign * Number(arg)
                               /\ Number(r.cell) = 0 + sign * Number(arg)
                          ELSE r.ret = "fail" /\ r.cell = cell
        BY <1>4 DEF CounterExact
    <2>2. r = Cell("int", IF sign = -1 THEN Wrap(by, PrintMax) ELSE arg, by)
        BY <1>4 DEF decrbyincrby
    <2>3. 0 + sign * Number(arg) = by /\ by \in IntMin..IntMax
        BY <1>3, <1>4, <2>1
    <2>4. r.ret = "int" /\ r.val = by
        BY <2>2 DEF Cell
    <2>5. Number(r.cell) = by
        <3>1. CASE sign = -1
            <4>1. r.cell = by
                BY <1>3, <1>4, <2>1, <2>2, <3>1 DEF Cell
            <4>2. by # Empty
                BY <2>3, TextsAreNoNumbers
            <4>3. QED BY <4>1, <4>2 DEF Number
        <3>2. CASE sign = 1
            <4>1. r.cell = arg
                BY <2>2, <3>2 DEF Cell
            <4>2. Number(arg) = by
                BY <1>3, <1>4, <2>1, <3>2
            <4>3. QED BY <4>1, <4>2
        <3>3. QED BY <3>1, <3>2
    <2>6. QED BY <2>3, <2>4, <2>5
<1>5. CASE IsInteger(arg) /\ cell # None /\ IsInteger(cell)
    <2>1. SUFFICES ASSUME known
                   PROVE  IF count + sign * Number(arg) \in IntMin..IntMax
                          THEN r.ret = "int" /\ r.val = count + sign * Number(arg)
                               /\ Number(r.cell) = count + sign * Number(arg)
                          ELSE r.ret = "fail" /\ r.cell = cell
        BY <1>5 DEF CounterExact
    <2>2. by = sign * Number(arg) /\ by \in IntMin..IntMax /\ count \in IntMin..IntMax
        BY <1>3, <1>5, <2>1, NumberIs, Limits
    <2>3. Overflows(by, count) <=> by + count \notin IntMin..IntMax
        <3> HIDE DEF by, count
        <3>1. QED BY <2>2, OverflowsIs
    <2>4. by + count = count + sign * Number(arg)
        <3> HIDE DEF by, count
        <3>1. by \in Int /\ count \in Int
            BY <2>2, Limits
        <3>2. QED BY <2>2, <3>1
    <2>5. CASE by + count \in IntMin..IntMax
        <3>1. r = Cell("int", by + count, Wrap(count + sign * Number(arg), IntMax))
            BY <1>5, <2>3, <2>5 DEF decrbyincrby
        <3>2. Wrap(by + count, IntMax) = by + count
            <4> HIDE DEF by, count
            <4>1. QED BY <2>5, WrapIs, Limits
        <3>3. by + count # Empty
            BY <2>5, TextsAreNoNumbers
        <3> HIDE DEF r, by, count
        <3>4. Number(by + count) = by + count
            BY <3>3 DEF Number
        <3>5. QED BY <2>4, <2>5, <3>1, <3>2, <3>4 DEF Cell
    <2>6. CASE by + count \notin IntMin..IntMax
        <3>1. r = Cell("fail", cell, None)
            BY <1>5, <2>3, <2>6 DEF decrbyincrby
        <3>2. QED BY <2>4, <2>6, <3>1 DEF Cell
    <2>7. QED BY <2>5, <2>6
<1>6. QED BY <1>1, <1>2, <1>4, <1>5

\* The sum of two floats, and what incrbyfloat does with it.
LEMMA FloatIs ==
    ASSUME NEW cell, NEW arg, NEW sum \in FloatSum(FloatOf(cell), arg),
           NEW c, c = incrbyfloat(cell, arg, sum)
    PROVE  \/ c.ret = "fail" /\ c.cell = cell
           \/ c.ret = "str" /\ c.cell \in Value
<1>1. sum \in Value
    BY DEF FloatSum, Value
<1>2. QED BY <1>1 DEF incrbyfloat, Cell

-----------------------------------------------------------------------------
(* Folds *)

\* The pairs of hmset are put in one after the other.
Filled(c, pairs) == FoldLeft(LAMBDA e, p : [e EXCEPT ![p[1]] = p[2]], c, pairs)

LEMMA FilledIs ==
    ASSUME NEW c \in [Field -> Value \cup {None}], NEW v \in Value,
           NEW fields \in Seq(Field)
    PROVE  Filled(c, [i \in DOMAIN fields |-> <<fields[i], v>>])
               = [f \in Field |-> IF f \in ToSet(fields) THEN v ELSE c[f]]
<1> DEFINE n == Len(fields)
           V == [Field -> Value \cup {None}]
           pairs == [i \in DOMAIN fields |-> <<fields[i], v>>]
           Eq(g) == g = [s \in SUBSET (DOMAIN pairs) |->
                            IF s = {} THEN c
                            ELSE [g[s \ {Max(s)}] EXCEPT ![pairs[Max(s)][1]] = pairs[Max(s)][2]]]
           iter == CHOOSE g : Eq(g)
           F == [i \in 1..n |-> [e \in V |-> [e EXCEPT ![fields[i]] = v]]]
           W == [s \in SUBSET (1..n) |->
                   {[f \in Field |-> IF \E i \in s : f = fields[i] THEN v ELSE c[f]]}]
<1>1. Filled(c, pairs) = iter[DOMAIN pairs]
    BY DEF Filled, FoldLeft, MapThenFoldSet
<1>2. n \in Nat /\ DOMAIN pairs = 1..n /\ DOMAIN fields = 1..n
    OBVIOUS
<1>3. ASSUME NEW i \in 1..n PROVE pairs[i][1] = fields[i] /\ pairs[i][2] = v /\ fields[i] \in Field
    BY <1>2
<1> HIDE DEF n, pairs
<1>4. F \in [1..n -> [V -> V]]
    BY <1>3
<1>5. PICK g \in [SUBSET (1..n) -> V] : FoldsTo(g, n, F, c)
    <2> HIDE DEF F, V
    <2>1. c \in V
        BY DEF V
    <2>2. QED BY <1>2, <1>4, <2>1, FoldExists
<1>6. ASSUME NEW s \in SUBSET (1..n), s # {} PROVE Max(s) \in 1..n /\ Max(s) \in s
    BY <1>2, <1>6, MaxOfNats
<1>7. Eq(g)
    <2>1. ASSUME NEW s \in SUBSET (1..n), s # {}
          PROVE  g[s] = [g[s \ {Max(s)}] EXCEPT ![pairs[Max(s)][1]] = pairs[Max(s)][2]]
        <3>1. Max(s) \in 1..n
            BY <1>6, <2>1
        <3>2. g[s] = F[Max(s)][g[s \ {Max(s)}]]
            BY <1>5, <2>1 DEF FoldsTo
        <3>3. g[s \ {Max(s)}] \in V
            BY <1>5
        <3> HIDE DEF V
        <3>4. QED BY <1>3, <3>1, <3>2, <3>3
    <2>2. g[{}] = c
        BY <1>5 DEF FoldsTo
    <2>3. g = [s \in SUBSET (1..n) |-> g[s]]
        BY <1>5
    <2>4. QED BY <1>2, <2>1, <2>2, <2>3
<1>8. Eq(iter)
    <2> HIDE DEF Eq
    <2>1. QED BY <1>7
<1>9. /\ iter[{}] = c
      /\ \A s \in SUBSET (1..n) : s # {} =>
            iter[s] = [iter[s \ {Max(s)}] EXCEPT ![pairs[Max(s)][1]] = pairs[Max(s)][2]]
    <2> HIDE DEF iter
    <2>1. QED BY <1>2, <1>8
<1> HIDE DEF iter, Eq, F
<1>10. iter[{}] \in W[{}]
    <2>1. c = [f \in Field |-> c[f]]
        OBVIOUS
    <2>2. QED BY <1>9, <2>1
<1>11. ASSUME NEW s \in SUBSET (1..n), s # {}, iter[s \ {Max(s)}] \in W[s \ {Max(s)}]
       PROVE  iter[s] \in W[s]
    <2> DEFINE m == Max(s)
               before == [f \in Field |-> IF \E i \in s \ {m} : f = fields[i] THEN v ELSE c[f]]
               after == [f \in Field |-> IF \E i \in s : f = fields[i] THEN v ELSE c[f]]
    <2>1. m \in 1..n /\ m \in s
        BY <1>6, <1>11
    <2> HIDE DEF m
    <2>2. iter[s \ {m}] = before
        BY <1>11 DEF m
    <2>3. iter[s] = [before EXCEPT ![fields[m]] = v]
        BY <1>3, <1>9, <1>11, <2>1, <2>2 DEF m
    <2>4. [before EXCEPT ![fields[m]] = v] = after
        <3>1. ASSUME NEW f \in Field
              PROVE  [before EXCEPT ![fields[m]] = v][f] = after[f]
            <4>1. CASE f = fields[m]
                BY <2>1, <4>1
            <4>2. CASE f # fields[m]
                BY <2>1, <4>2
            <4>3. QED BY <4>1, <4>2
        <3>2. QED BY <3>1
    <2>5. QED BY <2>3, <2>4
<1> HIDE DEF W
<1>12. iter[1..n] \in W[1..n]
    <2>1. \A s \in SUBSET (1..n) : iter[s] \in W[s]
        BY <1>2, <1>10, <1>11, FoldKeeps
    <2>2. QED BY <2>1
<1>13. iter[1..n] = [f \in Field |-> IF \E i \in 1..n : f = fields[i] THEN v ELSE c[f]]
    BY <1>12 DEF W
<1>14. ASSUME NEW f PROVE f \in ToSet(fields) <=> \E i \in 1..n : f = fields[i]
    BY <1>2 DEF ToSet
<1>15. QED BY <1>1, <1>2, <1>13, <1>14 DEF pairs

\* Temporary tables that have freed no string; their entries have their strings from
\* the sets in S.
Clean(S) == [owner : [Field -> S], freed : {{}}]

\* Each of these three folds frees nothing, if what it begins with has not.
Diffed(d, base, keys) == FoldLeft(LAMBDA t, k : RmAll(t, Fields(d[k])), base, keys)
Intersected(d, base, keys) == FoldLeft(LAMBDA t, k : RmAll(t, Field \ Fields(d[k])), base, keys)
United(d, base, keys) == FoldLeft(LAMBDA t, k : AddAllShallow(d, t, k), base, keys)

LEMMA DiffedIs ==
    ASSUME NEW d, NEW S, None \in S, Key \subseteq S, NEW base \in Clean(S), NEW keys \in Seq(Key)
    PROVE  /\ Diffed(d, base, keys) \in Clean(S)
           /\ \A f \in Field : Diffed(d, base, keys).owner[f] # None <=>
                 /\ base.owner[f] # None
                 /\ \A i \in DOMAIN keys : f \notin Fields(d[keys[i]])
<1> DEFINE n == Len(keys)
           V == Clean(S)
           Eq(g) == g = [s \in SUBSET (DOMAIN keys) |->
                            IF s = {} THEN base
                            ELSE RmAll(g[s \ {Max(s)}], Fields(d[keys[Max(s)]]))]
           iter == CHOOSE g : Eq(g)
           F == [i \in 1..n |-> [t \in V |-> RmAll(t, Fields(d[keys[i]]))]]
           Has(s, f) == /\ base.owner[f] # None
                        /\ \A i \in s : f \notin Fields(d[keys[i]])
           W == [s \in SUBSET (1..n) |-> {t \in V : \A f \in Field : t.owner[f] # None <=> Has(s, f)}]
<1>1. Diffed(d, base, keys) = iter[DOMAIN keys]
    BY DEF Diffed, FoldLeft, MapThenFoldSet
<1>2. n \in Nat /\ DOMAIN keys = 1..n
    OBVIOUS
<1>3. ASSUME NEW t \in V, NEW i \in 1..n PROVE RmAll(t, Fields(d[keys[i]])) \in V
    <2>1. keys[i] \in Key
        BY <1>2
    <2>2. QED BY <2>1 DEF Clean, RmAll
<1> HIDE DEF n, V
<1>4. F \in [1..n -> [V -> V]]
    BY <1>3
<1>5. PICK g \in [SUBSET (1..n) -> V] : FoldsTo(g, n, F, base)
    <2> HIDE DEF F
    <2>1. base \in V
        BY DEF V
    <2>2. QED BY <1>2, <1>4, <2>1, FoldExists
<1>6. ASSUME NEW s \in SUBSET (1..n), s # {} PROVE Max(s) \in 1..n /\ Max(s) \in s
    BY <1>2, <1>6, MaxOfNats
<1>7. Eq(g)
    <2>1. ASSUME NEW s \in SUBSET (1..n), s # {}
          PROVE  g[s] = RmAll(g[s \ {Max(s)}], Fields(d[keys[Max(s)]]))
        <3>1. Max(s) \in 1..n
            BY <1>6, <2>1
        <3>2. g[s] = F[Max(s)][g[s \ {Max(s)}]]
            BY <1>5, <2>1 DEF FoldsTo
        <3>3. g[s \ {Max(s)}] \in V
            BY <1>5
        <3>4. QED BY <3>1, <3>2, <3>3
    <2>2. g[{}] = base
        BY <1>5 DEF FoldsTo
    <2>3. g = [s \in SUBSET (1..n) |-> g[s]]
        BY <1>5
    <2>4. QED BY <1>2, <2>1, <2>2, <2>3
<1>8. Eq(iter)
    <2> HIDE DEF Eq
    <2>1. QED BY <1>7
<1>9. /\ iter[{}] = base
      /\ \A s \in SUBSET (1..n) : s # {} =>
            iter[s] = RmAll(iter[s \ {Max(s)}], Fields(d[keys[Max(s)]]))
    <2> HIDE DEF iter
    <2>1. QED BY <1>2, <1>8
<1> HIDE DEF iter, Eq, F
<1>10. iter[{}] \in W[{}]
    BY <1>9 DEF V
<1>11. ASSUME NEW s \in SUBSET (1..n), s # {}, iter[s \ {Max(s)}] \in W[s \ {Max(s)}]
       PROVE  iter[s] \in W[s]
    <2> DEFINE m == Max(s)
               u == iter[s \ {m}]
    <2>1. u \in V /\ \A f \in Field : u.owner[f] # None <=> Has(s \ {m}, f)
        BY <1>11
    <2>2. m \in 1..n /\ m \in s /\ keys[m] \in Key
        BY <1>2, <1>6, <1>11
    <2>3. iter[s] = RmAll(u, Fields(d[keys[m]])) /\ iter[s] \in V
        BY <1>3, <1>9, <1>11, <2>1, <2>2
    <2> HIDE DEF m, u, W
    <2>4. ASSUME NEW f \in Field PROVE iter[s].owner[f] # None <=> Has(s, f)
        <3>1. iter[s].owner[f] = IF f \in Fields(d[keys[m]]) THEN None ELSE u.owner[f]
            BY <2>1, <2>3 DEF RmAll, V, Clean
        <3>2. Has(s, f) <=> Has(s \ {m}, f) /\ f \notin Fields(d[keys[m]])
            BY <2>2
        <3> HIDE DEF Has
        <3>3. QED BY <2>1, <2>2, <3>1, <3>2
    <2>5. QED BY <2>3, <2>4 DEF W
<1>12. iter[1..n] \in W[1..n]
    <2> HIDE DEF W
    <2>1. \A s \in SUBSET (1..n) : iter[s] \in W[s]
        BY <1>2, <1>10, <1>11, FoldKeeps
    <2>2. QED BY <2>1
<1>13. QED BY <1>1, <1>2, <1>12 DEF V

LEMMA IntersectedIs ==
    ASSUME NEW d, NEW S, None \in S, Key \subseteq S, NEW base \in Clean(S), NEW keys \in Seq(Key)
    PROVE  /\ Intersected(d, base, keys) \in Clean(S)
           /\ \A f \in Field : Intersected(d, base, keys).owner[f] # None <=>
                 /\ base.owner[f] # None
                 /\ \A i \in DOMAIN keys : f \in Fields(d[keys[i]])
<1> DEFINE n == Len(keys)
           V == Clean(S)
           Eq(g) == g = [s \in SUBSET (DOMAIN keys) |->
                            IF s = {} THEN base
                            ELSE RmAll(g[s \ {Max(s)}], Field \ Fields(d[keys[Max(s)]]))]
           iter == CHOOSE g : Eq(g)
           F == [i \in 1..n |-> [t \in V |-> RmAll(t, Field \ Fields(d[keys[i]]))]]
           Has(s, f) == /\ base.owner[f] # None
                        /\ \A i \in s : f \in Fields(d[keys[i]])
           W == [s \in SUBSET (1..n) |-> {t \in V : \A f \in Field : t.owner[f] # None <=> Has(s, f)}]
<1>1. Intersected(d, base, keys) = iter[DOMAIN keys]
    BY DEF Intersected, FoldLeft, MapThenFoldSet
<1>2. n \in Nat /\ DOMAIN keys = 1..n
    OBVIOUS
<1>3. ASSUME NEW t \in V, NEW i \in 1..n PROVE RmAll(t, Field \ Fields(d[keys[i]])) \in V
    <2>1. keys[i] \in Key
        BY <1>2
    <2>2. QED BY <2>1 DEF Clean, RmAll
<1> HIDE DEF n, V
<1>4. F \in [1..n -> [V -> V]]
    BY <1>3
<1>5. PICK g \in [SUBSET (1..n) -> V] : FoldsTo(g, n, F, base)
    <2> HIDE DEF F
    <2>1. base \in V
        BY DEF V
    <2>2. QED BY <1>2, <1>4, <2>1, FoldExists
<1>6. ASSUME NEW s \in SUBSET (1..n), s # {} PROVE Max(s) \in 1..n /\ Max(s) \in s
    BY <1>2, <1>6, MaxOfNats
<1>7. Eq(g)
    <2>1. ASSUME NEW s \in SUBSET (1..n), s # {}
          PROVE  g[s] = RmAll(g[s \ {Max(s)}], Field \ Fields(d[keys[Max(s)]]))
        <3>1. Max(s) \in 1..n
            BY <1>6, <2>1
        <3>2. g[s] = F[Max(s)][g[s \ {Max(s)}]]
            BY <1>5, <2>1 DEF FoldsTo
        <3>3. g[s \ {Max(s)}] \in V
            BY <1>5
        <3>4. QED BY <3>1, <3>2, <3>3
    <2>2. g[{}] = base
        BY <1>5 DEF FoldsTo
    <2>3. g = [s \in SUBSET (1..n) |-> g[s]]
        BY <1>5
    <2>4. QED BY <1>2, <2>1, <2>2, <2>3
<1>8. Eq(iter)
    <2> HIDE DEF Eq
    <2>1. QED BY <1>7
<1>9. /\ iter[{}] = base
      /\ \A s \in SUBSET (1..n) : s # {} =>
            iter[s] = RmAll(iter[s \ {Max(s)}], Field \ Fields(d[keys[Max(s)]]))
    <2> HIDE DEF iter
    <2>1. QED BY <1>2, <1>8
<1> HIDE DEF iter, Eq, F
<1>10. iter[{}] \in W[{}]
    BY <1>9 DEF V
<1>11. ASSUME NEW s \in SUBSET (1..n), s # {}, iter[s \ {Max(s)}] \in W[s \ {Max(s)}]
       PROVE  iter[s] \in W[s]
    <2> DEFINE m == Max(s)
               u == iter[s \ {m}]
    <2>1. u \in V /\ \A f \in Field : u.owner[f] # None <=> Has(s \ {m}, f)
        BY <1>11
    <2>2. m \in 1..n /\ m \in s /\ keys[m] \in Key
        BY <1>2, <1>6, <1>11
    <2>3. iter[s] = RmAll(u, Field \ Fields(d[keys[m]])) /\ iter[s] \in V
        <3>1. iter[s] = RmAll(u, Field \ Fields(d[keys[m]]))
            BY <1>9, <1>11
        <3> HIDE DEF m, u
        <3>2. QED BY <1>3, <2>1, <2>2, <3>1
    <2> HIDE DEF m, u, W
    <2>4. ASSUME NEW f \in Field PROVE iter[s].owner[f] # None <=> Has(s, f)
        <3>1. iter[s].owner[f] = IF f \in Fields(d[keys[m]]) THEN u.owner[f] ELSE None
            BY <2>1, <2>3 DEF RmAll, V, Clean
        <3>2. Has(s, f) <=> Has(s \ {m}, f) /\ f \in Fields(d[keys[m]])
            BY <2>2
        <3> HIDE DEF Has
        <3>3. QED BY <2>1, <2>2, <3>1, <3>2
    <2>5. QED BY <2>3, <2>4 DEF W
<1>12. iter[1..n] \in W[1..n]
    <2> HIDE DEF W
    <2>1. \A s \in SUBSET (1..n) : iter[s] \in W[s]
        BY <1>2, <1>10, <1>11, FoldKeeps
    <2>2. QED BY <2>1
<1>13. QED BY <1>1, <1>2, <1>12 DEF V

LEMMA UnitedIs ==
    ASSUME NEW d, NEW S, None \in S, Key \subseteq S, NEW base \in Clean(S), NEW keys \in Seq(Key)
    PROVE  /\ United(d, base, keys) \in Clean(S)
           /\ \A f \in Field : United(d, base, keys).owner[f] # None <=>
                 \/ base.owner[f] # None
                 \/ \E i \in DOMAIN keys : f \in Fields(d[keys[i]])
<1> DEFINE n == Len(keys)
           V == Clean(S)
           Eq(g) == g = [s \in SUBSET (DOMAIN keys) |->
                            IF s = {} THEN base
                            ELSE AddAllShallow(d, g[s \ {Max(s)}], keys[Max(s)])]
           iter == CHOOSE g : Eq(g)
           F == [i \in 1..n |-> [t \in V |-> AddAllShallow(d, t, keys[i])]]
           Has(s, f) == \/ base.owner[f] # None
                        \/ \E i \in s : f \in Fields(d[keys[i]])
           W == [s \in SUBSET (1..n) |-> {t \in V : \A f \in Field : t.owner[f] # None <=> Has(s, f)}]
<1>1. United(d, base, keys) = iter[DOMAIN keys]
    BY DEF United, FoldLeft, MapThenFoldSet
<1>2. n \in Nat /\ DOMAIN keys = 1..n
    OBVIOUS
<1>3. ASSUME NEW t \in V, NEW i \in 1..n PROVE AddAllShallow(d, t, keys[i]) \in V
    <2>1. keys[i] \in Key
        BY <1>2
    <2>2. QED BY <2>1 DEF Clean, AddAllShallow
<1> HIDE DEF n, V
<1>4. F \in [1..n -> [V -> V]]
    BY <1>3
<1>5. PICK g \in [SUBSET (1..n) -> V] : FoldsTo(g, n, F, base)
    <2> HIDE DEF F
    <2>1. base \in V
        BY DEF V
    <2>2. QED BY <1>2, <1>4, <2>1, FoldExists
<1>6. ASSUME NEW s \in SUBSET (1..n), s # {} PROVE Max(s) \in 1..n /\ Max(s) \in s
    BY <1>2, <1>6, MaxOfNats
<1>7. Eq(g)
    <2>1. ASSUME NEW s \in SUBSET (1..n), s # {}
          PROVE  g[s] = AddAllShallow(d, g[s \ {Max(s)}], keys[Max(s)])
        <3>1. Max(s) \in 1..n
            BY <1>6, <2>1
        <3>2. g[s] = F[Max(s)][g[s \ {Max(s)}]]
            BY <1>5, <2>1 DEF FoldsTo
        <3>3. g[s \ {Max(s)}] \in V
            BY <1>5
        <3>4. QED BY <3>1, <3>2, <3>3
    <2>2. g[{}] = base
        BY <1>5 DEF FoldsTo
    <2>3. g = [s \in SUBSET (1..n) |-> g[s]]
        BY <1>5
    <2>4. QED BY <1>2, <2>1, <2>2, <2>3
<1>8. Eq(iter)
    <2> HIDE DEF Eq
    <2>1. QED BY <1>7
<1>9. /\ iter[{}] = base
      /\ \A s \in SUBSET (1..n) : s # {} =>
            iter[s] = AddAllShallow(d, iter[s \ {Max(s)}], keys[Max(s)])
    <2> HIDE DEF iter
    <2>1. QED BY <1>2, <1>8
<1> HIDE DEF iter, Eq, F
<1>10. iter[{}] \in W[{}]
    BY <1>9 DEF V
<1>11. ASSUME NEW s \in SUBSET (1..n), s # {}, iter[s \ {Max(s)}] \in W[s \ {Max(s)}]
       PROVE  iter[s] \in W[s]
    <2> DEFINE m == Max(s)
               u == iter[s \ {m}]
    <2>1. u \in V /\ \A f \in Field : u.owner[f] # None <=> Has(s \ {m}, f)
        BY <1>11
    <2>2. m \in 1..n /\ m \in s /\ keys[m] \in Key
        BY <1>2, <1>6, <1>11
    <2>3. iter[s] = AddAllShallow(d, u, keys[m]) /\ iter[s] \in V
        BY <1>3, <1>9, <1>11, <2>1, <2>2
    <2> HIDE DEF m, u, W
    <2>4. ASSUME NEW f \in Field PROVE iter[s].owner[f] # None <=> Has(s, f)
        <3>1. iter[s].owner[f] = IF f \in Fields(d[keys[m]]) /\ u.owner[f] = None THEN keys[m] ELSE u.owner[f]
            BY <2>1, <2>3 DEF AddAllShallow, V, Clean
        <3>2. Has(s, f) <=> Has(s \ {m}, f) \/ f \in Fields(d[keys[m]])
            BY <2>2
        <3> HIDE DEF Has
        <3>3. QED BY <2>1, <2>2, <3>1, <3>2, DataAssumption
    <2>5. QED BY <2>3, <2>4 DEF W
<1>12. iter[1..n] \in W[1..n]
    <2> HIDE DEF W
    <2>1. \A s \in SUBSET (1..n) : iter[s] \in W[s]
        BY <1>2, <1>10, <1>11, FoldKeeps
    <2>2. QED BY <2>1
<1>13. QED BY <1>1, <1>2, <1>12 DEF V

-----------------------------------------------------------------------------
(* The keyspace *)

\* An object as commands leave it: TypeOK without the strings that have been freed,
\* and with finitely many fields.
Good(o) ==
    \/ o = NoObj
    \/ \E v \in Value : o = StrObj(v)
    \/ \E c \in [Field -> Value \cup {None}] : o = HashObj(c) /\ IsFiniteSet(Fields(o))
    \/ \E c \in [Field -> {None, SetVal}] : o = SetObj(c) /\ IsFiniteSet(Fields(o))

Present(d) == {k \in Key : ~Missing(d, k)}

Table(d) ==
    /\ d = [k \in Key |-> d[k]]
    /\ \A k \in Key : Good(d[k])
    /\ IsFiniteSet(Present(d))

\* o is a collection without elements.
Hollow(o) == o.type \in {"hash", "set"} /\ Fields(o) = {}

\* What the type of a good object says of its parts.
LEMMA GoodIs ==
    ASSUME NEW o, Good(o)
    PROVE  /\ o.type \in {"none", "string", "hash", "set"}
           /\ o.type = "none" => o = NoObj
           /\ o.type = "string" => o.val \in Value /\ o = StrObj(o.val)
           /\ o.type # "string" => o.val = None
           /\ o.type \in {"none", "string", "hash"} => o.dict \in [Field -> Value \cup {None}]
           /\ o.type \in {"none", "string", "set"} => o.dict \in [Field -> {None, SetVal}]
           /\ o.type \in {"hash", "set"} => o = Obj(o.type, None, o.dict)
           /\ IsFiniteSet(Fields(o))
<1>1. NoFields \in [Field -> Value \cup {None}] /\ NoFields \in [Field -> {None, SetVal}]
    BY DEF NoFields
<1>2. CASE o = NoObj
    <2>1. o.type = "none" /\ o.val = None /\ o.dict = NoFields
        BY <1>2 DEF NoObj, Obj
    <2>2. Fields(o) = {}
        BY <2>1 DEF Fields, NoFields
    <2>3. QED BY <1>1, <1>2, <2>1, <2>2, FS_EmptySet
<1>3. CASE \E v \in Value : o = StrObj(v)
    <2>1. o.type = "string" /\ o.val \in Value /\ o = StrObj(o.val) /\ o.dict = NoFields
        BY <1>3 DEF StrObj, Obj
    <2>2. Fields(o) = {}
        BY <2>1 DEF Fields, NoFields
    <2>3. QED BY <1>1, <2>1, <2>2, FS_EmptySet
<1>4. CASE \E c \in [Field -> Value \cup {None}] : o = HashObj(c) /\ IsFiniteSet(Fields(o))
    BY <1>4 DEF HashObj, Obj
<1>5. CASE \E c \in [Field -> {None, SetVal}] : o = SetObj(c) /\ IsFiniteSet(Fields(o))
    BY <1>5 DEF SetObj, Obj
<1>6. QED BY <1>2, <1>3, <1>4, <1>5 DEF Good

\* The objects that commands make are good.
LEMMA GoodOnes ==
    /\ Good(NoObj) /\ ~Hollow(NoObj) /\ NoObj.type = "none"
    /\ \A v \in Value : Good(StrObj(v)) /\ ~Hollow(StrObj(v)) /\ StrObj(v).type = "string"
    /\ \A c \in [Field -> Value \cup {None}] : IsFiniteSet({f \in Field : c[f] # None}) =>
          /\ Good(HashObj(c))
          /\ Fields(HashObj(c)) = {f \in Field : c[f] # None}
    /\ \A c \in [Field -> {None, SetVal}] : IsFiniteSet({f \in Field : c[f] # None}) =>
          /\ Good(SetObj(c))
          /\ Fields(SetObj(c)) = {f \in Field : c[f] # None}
BY DEF Good, Hollow, NoObj, StrObj, HashObj, SetObj, Obj, Fields

\* A sequence has finitely many elements.
LEMMA FiniteToSet ==
    ASSUME NEW S, NEW s \in Seq(S)
    PROVE  IsFiniteSet(ToSet(s)) /\ ToSet(s) \subseteq S
<1>1. DOMAIN s = 1..Len(s) /\ Len(s) \in Nat
    OBVIOUS
<1>2. IsFiniteSet(1..Len(s))
    BY <1>1, FS_Interval
<1>3. IsFiniteSet({s[i] : i \in 1..Len(s)})
    <2>1. s \in Surjection(1..Len(s), {s[i] : i \in 1..Len(s)})
        BY <1>1 DEF Surjection
    <2>2. QED BY <1>2, <2>1, FS_Surjection
<1>4. QED BY <1>1, <1>3 DEF ToSet

-----------------------------------------------------------------------------
(* What a command does: the conditions of the type invariant and of the two  *)
(* action properties, for the command op that takes d to the result r.       *)

Rets == {"ok", "int", "nil", "str", "arr", "fail", "stale", "wild", "loops"}

FailsWell(op, d, r) ==
    r.ret = "fail" =>
        \/ r.db = d
        \/ op = "hincr" /\ \E k \in Key : Missing(d, k) /\ r.db = Put(d, k, HashObj(NoFields))

EmptiesWell(op, d, r) ==
    Cardinality(EmptyOnes(r.db)) > Cardinality(EmptyOnes(d)) =>
        op \in {"smove", "spop"} \/ (op = "hincr" /\ r.ret = "fail")

Does(op, d, r) ==
    Table(r.db) /\ r.ret \in Rets /\ FailsWell(op, d, r) /\ EmptiesWell(op, d, r)

\* The empty collections are among the finitely many keys there are.
LEMMA EmptyOnesFinite ==
    ASSUME NEW d, Table(d)
    PROVE  IsFiniteSet(EmptyOnes(d)) /\ Cardinality(EmptyOnes(d)) \in Nat
<1>1. EmptyOnes(d) \subseteq Present(d)
    BY DEF EmptyOnes, Present, Missing
<1>2. QED BY <1>1, FS_Subset, FS_CardinalityType DEF Table

\* A command that leaves the keyspace alone.
LEMMA Stays ==
    ASSUME NEW d, Table(d), NEW op, NEW ret \in Rets, NEW val
    PROVE  Does(op, d, Result(ret, d, val))
BY EmptyOnesFinite DEF Does, FailsWell, EmptiesWell, Result

\* A command that gives the keys in S the same object.
LEMMA Writes ==
    ASSUME NEW d, Table(d), NEW S \in SUBSET Key, IsFiniteSet(S),
           NEW o, Good(o),
           NEW e, e = [k \in Key |-> IF k \in S THEN o ELSE d[k]]
    PROVE  Table(e) /\ (Hollow(o) \/ EmptyOnes(e) \subseteq EmptyOnes(d))
<1>1. \A k \in Key : e[k] = IF k \in S THEN o ELSE d[k]
    OBVIOUS
<1>2. e = [k \in Key |-> e[k]]
    OBVIOUS
<1>3. \A k \in Key : Good(e[k])
    BY <1>1 DEF Table
<1>4. IsFiniteSet(Present(e))
    <2>1. IsFiniteSet(Present(d) \cup S)
        BY FS_Union DEF Table
    <2>2. Present(e) \subseteq Present(d) \cup S
        BY <1>1 DEF Present, Missing
    <2>3. QED BY <2>1, <2>2, FS_Subset
<1>5. ASSUME ~Hollow(o) PROVE EmptyOnes(e) \subseteq EmptyOnes(d)
    BY <1>1, <1>5 DEF EmptyOnes, Hollow
<1>6. QED BY <1>2, <1>3, <1>4, <1>5 DEF Table

LEMMA DoesWrite ==
    ASSUME NEW d, Table(d), NEW S \in SUBSET Key, IsFiniteSet(S),
           NEW o, Good(o), ~Hollow(o), NEW op, NEW ret \in Rets \ {"fail"}, NEW val
    PROVE  Does(op, d, Result(ret, [k \in Key |-> IF k \in S THEN o ELSE d[k]], val))
<1> DEFINE e == [k \in Key |-> IF k \in S THEN o ELSE d[k]]
<1>1. Table(e) /\ EmptyOnes(e) \subseteq EmptyOnes(d)
    BY Writes
<1> HIDE DEF e
<1>2. Cardinality(EmptyOnes(e)) <= Cardinality(EmptyOnes(d))
    BY <1>1, EmptyOnesFinite, FS_Subset
<1>3. /\ Cardinality(EmptyOnes(e)) \in Nat
      /\ Cardinality(EmptyOnes(d)) \in Nat
    BY <1>1, EmptyOnesFinite
<1>4. Does(op, d, Result(ret, e, val))
    BY <1>1, <1>2, <1>3 DEF Does, FailsWell, EmptiesWell, Result
<1>5. QED BY <1>4 DEF e

LEMMA PutIs ==
    ASSUME NEW d, Table(d), NEW k \in Key, NEW o
    PROVE  Put(d, k, o) = [n \in Key |-> IF n \in {k} THEN o ELSE d[n]]
BY DEF Put, Table

LEMMA PutTable ==
    ASSUME NEW d, Table(d), NEW k \in Key, NEW o, Good(o)
    PROVE  Table(Put(d, k, o)) /\ (Hollow(o) \/ EmptyOnes(Put(d, k, o)) \subseteq EmptyOnes(d))
<1>1. IsFiniteSet({k})
    BY FS_Singleton
<1>2. QED BY <1>1, PutIs, Writes

\* A command that gives one key an object.
LEMMA Puts ==
    ASSUME NEW d, Table(d), NEW k \in Key, NEW o, Good(o), ~Hollow(o),
           NEW op, NEW ret \in Rets \ {"fail"}, NEW val
    PROVE  Does(op, d, Result(ret, Put(d, k, o), val))
<1>1. IsFiniteSet({k})
    BY FS_Singleton
<1>2. Does(op, d, Result(ret, [n \in Key |-> IF n \in {k} THEN o ELSE d[n]], val))
    BY <1>1, DoesWrite
<1>3. QED BY <1>2, PutIs

-----------------------------------------------------------------------------
(* Commands on keys and scalars *)

LEMMA SetDoes ==
    ASSUME NEW d, Table(d), NEW k \in Key, NEW v \in Value
    PROVE  /\ Does("set", d, set_command(d, k, v))
           /\ Does("setnx", d, setnx_command(d, k, v))
           /\ Does("get", d, get_command(d, k))
<1>1. Good(StrObj(v)) /\ ~Hollow(StrObj(v))
    BY GoodOnes
<1>2. \A op : Does(op, d, Result("ok", Put(d, k, StrObj(v)), None))
    BY <1>1, Puts DEF Rets
<1>3. \A op, val : \A ret \in Rets : Does(op, d, Result(ret, d, val))
    BY Stays
<1>4. Does("set", d, set_command(d, k, v))
    BY <1>2 DEF set_command
<1>5. Does("setnx", d, setnx_command(d, k, v))
    BY <1>2, <1>3 DEF setnx_command, set_command, IntReply, Rets
<1>6. Does("get", d, get_command(d, k))
    BY <1>3 DEF get_command, Fail, Rets
<1>7. QED BY <1>4, <1>5, <1>6

\* incrby, decrby and incrbyfloat with what has become of the cell.
LEMMA ScalarDoes ==
    ASSUME NEW d, Table(d), NEW k \in Key, NEW c, NEW op,
           \/ c.ret = "fail"
           \/ c.ret \in {"int", "str"} /\ c.cell \in Value
    PROVE  Does(op, d, ScalarStep(d, k, c))
<1>1. CASE c.ret = "fail" \/ WrongType(d, k, "string")
    BY <1>1, Stays DEF ScalarStep, Fail, Rets
<1>2. CASE c.ret # "fail" /\ ~WrongType(d, k, "string")
    <2>1. Good(StrObj(c.cell)) /\ ~Hollow(StrObj(c.cell))
        BY <1>2, GoodOnes
    <2>2. c.ret \in Rets \ {"fail"}
        BY <1>2 DEF Rets
    <2>3. Does(op, d, Result(c.ret, Put(d, k, StrObj(c.cell)), c.val))
        BY <2>1, <2>2, Puts
    <2>4. QED BY <1>2, <2>3 DEF ScalarStep
<1>3. QED BY <1>1, <1>2

LEMMA IncrDoes ==
    ASSUME NEW d, Table(d), NEW k \in Key, NEW v
    PROVE  /\ Does("incr", d, incrby_command(d, k, v))
           /\ Does("incr", d, decrby_command(d, k, v))
           /\ \A sum \in FloatSum(FloatOf(d[k].val), v) :
                 Does("incr", d, incrbyfloat_command(d, k, v, sum))
<1>1. d[k].val \in Value \cup {None}
    BY GoodIs DEF Table
<1>2. ASSUME NEW sign \in {1, -1}
      PROVE  Does("incr", d, ScalarStep(d, k, decrbyincrby(d[k].val, v, sign)))
    <2> DEFINE c == decrbyincrby(d[k].val, v, sign)
    <2>1. \/ c.ret = "fail" /\ c.cell = d[k].val
          \/ c.ret = "int" /\ c.cell \in Value
        BY <1>1, SumIs
    <2> HIDE DEF c
    <2>2. Does("incr", d, ScalarStep(d, k, c))
        BY <2>1, ScalarDoes
    <2>3. QED BY <2>2 DEF c
<1>3. ASSUME NEW sum \in FloatSum(FloatOf(d[k].val), v)
      PROVE  Does("incr", d, ScalarStep(d, k, incrbyfloat(d[k].val, v, sum)))
    <2> DEFINE c == incrbyfloat(d[k].val, v, sum)
    <2>1. \/ c.ret = "fail" /\ c.cell = d[k].val
          \/ c.ret = "str" /\ c.cell \in Value
        BY FloatIs
    <2> HIDE DEF c
    <2>2. Does("incr", d, ScalarStep(d, k, c))
        BY <2>1, ScalarDoes
    <2>3. QED BY <2>2 DEF c
<1>4. QED BY <1>2, <1>3 DEF incrby_command, decrby_command, incrbyfloat_command

LEMMA ManyDoes ==
    ASSUME NEW d, Table(d), NEW keys \in Seq(Key), NEW v \in Value
    PROVE  /\ Does("msetnx", d, msetnx_command(d, keys, v))
           /\ Does("del", d, del_command(d, keys))
<1>1. IsFiniteSet(ToSet(keys)) /\ ToSet(keys) \in SUBSET Key
    BY FiniteToSet
<1>2. Does("msetnx", d, msetnx_command(d, keys, v))
    <2>1. CASE \E k \in ToSet(keys) : ~Missing(d, k)
        BY <2>1, Stays DEF msetnx_command, IntReply, Rets
    <2>2. CASE ~\E k \in ToSet(keys) : ~Missing(d, k)
        <3>1. Good(StrObj(v)) /\ ~Hollow(StrObj(v))
            BY GoodOnes
        <3>2. Does("msetnx", d, Result("int",
                       [k \in Key |-> IF k \in ToSet(keys) THEN StrObj(v) ELSE d[k]], 1))
            BY <1>1, <3>1, DoesWrite DEF Rets
        <3>3. QED BY <2>2, <3>2 DEF msetnx_command, IntReply
    <2>3. QED BY <2>1, <2>2
<1>3. Does("del", d, del_command(d, keys))
    <2> DEFINE n == Cardinality({k \in ToSet(keys) : ~Missing(d, k)})
    <2>1. Good(NoObj) /\ ~Hollow(NoObj)
        BY GoodOnes
    <2> HIDE DEF n
    <2>2. Does("del", d, Result("int",
                   [k \in Key |-> IF k \in ToSet(keys) THEN NoObj ELSE d[k]], n))
        BY <1>1, <2>1, DoesWrite DEF Rets
    <2>3. QED BY <2>2 DEF del_command, IntReply, n
<1>4. QED BY <1>2, <1>3

\* A rename moves an empty collection, and makes none.
LEMMA RenameDoes ==
    ASSUME NEW d, Table(d), NEW k \in Key, NEW n \in Key
    PROVE  Does("rename", d, rename_command(d, k, n))
<1> DEFINE c == Put(d, k, NoObj)
           e == Put(c, n, d[k])
<1>1. CASE Missing(d, k)
    BY <1>1, Stays DEF rename_command, Fail, Rets
<1>2. CASE ~Missing(d, k)
    <2>1. Good(NoObj) /\ Good(d[k]) /\ ~Hollow(NoObj)
        BY GoodOnes DEF Table
    <2>2. Table(c) /\ EmptyOnes(c) \subseteq EmptyOnes(d)
        BY <2>1, PutTable
    <2>3. k \notin EmptyOnes(c)
        BY <2>1 DEF EmptyOnes, Put, Table, Hollow
    <2> HIDE DEF c
    <2>4. Table(e) /\ (Hollow(d[k]) \/ EmptyOnes(e) \subseteq EmptyOnes(c))
        BY <2>1, <2>2, PutTable
    <2>5. EmptyOnes(e) \subseteq EmptyOnes(c) \cup {n}
        BY <2>2 DEF EmptyOnes, Put, Table
    <2>6. IsFiniteSet(EmptyOnes(d)) /\ IsFiniteSet(EmptyOnes(c)) /\ IsFiniteSet(EmptyOnes(e))
        BY <2>2, <2>4, EmptyOnesFinite
    <2>7. Cardinality(EmptyOnes(e)) <= Cardinality(EmptyOnes(d))
        <3>1. CASE ~Hollow(d[k])
            <4>1. EmptyOnes(e) \subseteq EmptyOnes(d)
                BY <2>2, <2>4, <3>1
            <4>2. QED BY <2>6, <4>1, FS_Subset
        <3>2. CASE Hollow(d[k])
            <4>1. k \in EmptyOnes(d)
                BY <3>2 DEF Hollow, EmptyOnes
            <4>2. /\ IsFiniteSet(EmptyOnes(d) \ {k})
                  /\ Cardinality(EmptyOnes(d) \ {k}) = Cardinality(EmptyOnes(d)) - 1
                BY <2>6, <4>1, FS_RemoveElement
            <4>3. EmptyOnes(c) \subseteq EmptyOnes(d) \ {k}
                BY <2>2, <2>3
            <4>4. Cardinality(EmptyOnes(c)) <= Cardinality(EmptyOnes(d)) - 1
                BY <4>2, <4>3, FS_Subset
            <4>5. /\ IsFiniteSet(EmptyOnes(c) \cup {n})
                  /\ Cardinality(EmptyOnes(c) \cup {n}) \in
                         {Cardinality(EmptyOnes(c)), Cardinality(EmptyOnes(c)) + 1}
                BY <2>6, FS_AddElement
            <4>6. Cardinality(EmptyOnes(e)) <= Cardinality(EmptyOnes(c) \cup {n})
                BY <2>5, <4>5, FS_Subset
            <4>7. /\ Cardinality(EmptyOnes(c)) \in Nat
                  /\ Cardinality(EmptyOnes(d)) \in Nat
                  /\ Cardinality(EmptyOnes(e)) \in Nat
                BY <2>6, FS_CardinalityType
            <4>8. QED BY <4>4, <4>5, <4>6, <4>7
        <3>3. QED BY <3>1, <3>2
    <2>8. Cardinality(EmptyOnes(d)) \in Nat /\ Cardinality(EmptyOnes(e)) \in Nat
        BY <2>6, FS_CardinalityType
    <2> HIDE DEF e
    <2>9. Does("rename", d, Result("ok", e, None))
        BY <2>4, <2>7, <2>8 DEF Does, FailsWell, EmptiesWell, Result, Rets
    <2>10. QED BY <1>2, <2>9 DEF rename_command, c, e
<1>3. QED BY <1>1, <1>2

-----------------------------------------------------------------------------
(* Commands on hashes *)

\* The table behind a key of the right type, or an empty one.
LEMMA DictIs ==
    ASSUME NEW d, Table(d), NEW k \in Key
    PROVE  /\ IsFiniteSet(Fields(d[k]))
           /\ ~WrongType(d, k, "hash") => d[k].dict \in [Field -> Value \cup {None}]
           /\ ~WrongType(d, k, "set") => d[k].dict \in [Field -> {None, SetVal}]
           /\ Missing(d, k) => d[k] = NoObj /\ d[k].dict = NoFields
<1>1. Good(d[k])
    BY DEF Table
<1>2. NoObj.dict = NoFields
    BY DEF NoObj, Obj
<1>3. QED BY <1>1, <1>2, GoodIs DEF WrongType, Missing

\* A hash that gets a value for a field.
LEMMA FieldPuts ==
    ASSUME NEW d, Table(d), NEW k \in Key, ~WrongType(d, k, "hash"),
           NEW f \in Field, NEW v \in Value, NEW op, NEW ret \in Rets \ {"fail"}, NEW val
    PROVE  Does(op, d, Result(ret, PutField(d, k, f, v), val))
<1> DEFINE c == [d[k].dict EXCEPT ![f] = v]
<1>1. d[k].dict \in [Field -> Value \cup {None}]
    BY DictIs
<1>2. c \in [Field -> Value \cup {None}] /\ c[f] = v
    BY <1>1
<1>3. {g \in Field : c[g] # None} \subseteq Fields(d[k]) \cup {f}
    BY <1>1 DEF Fields
<1>4. IsFiniteSet(Fields(d[k]) \cup {f})
    BY DictIs, FS_AddElement
<1>5. IsFiniteSet({g \in Field : c[g] # None})
    BY <1>3, <1>4, FS_Subset
<1> HIDE DEF c
<1>6. Good(HashObj(c)) /\ f \in Fields(HashObj(c))
    BY <1>2, <1>5, GoodOnes, MarksDiffer
<1>7. ~Hollow(HashObj(c))
    BY <1>6 DEF Hollow
<1>8. Does(op, d, Result(ret, Put(d, k, HashObj(c)), val))
    BY <1>6, <1>7, Puts
<1>9. QED BY <1>8 DEF PutField, c

LEMMA HsetDoes ==
    ASSUME NEW d, Table(d), NEW k \in Key, NEW f \in Field, NEW v \in Value
    PROVE  /\ Does("hset", d, hset_command(d, k, f, v))
           /\ Does("hset", d, hsetnx_command(d, k, f, v))
<1>1. CASE WrongType(d, k, "hash")
    BY <1>1, Stays DEF hset_command, hsetnx_command, Fail, Rets
<1>2. CASE ~WrongType(d, k, "hash")
    <2>1. \A val : \A ret \in Rets \ {"fail"} :
             Does("hset", d, Result(ret, PutField(d, k, f, v), val))
        BY <1>2, FieldPuts
    <2>2. Does("hset", d, hset_command(d, k, f, v))
        BY <1>2, <2>1 DEF hset_command, IntReply, Rets
    <2>3. \A val : Does("hset", d, Result("int", d, val))
        BY Stays DEF Rets
    <2>4. Does("hset", d, hsetnx_command(d, k, f, v))
        BY <1>2, <2>1, <2>3 DEF hsetnx_command, IntReply, Rets
    <2>5. QED BY <2>2, <2>4
<1>3. QED BY <1>1, <1>2

\* An amount that is refused leaves the hash as it was, or an empty one.
LEMMA HashStepDoes ==
    ASSUME NEW d, Table(d), NEW k \in Key, NEW f \in Field, NEW c,
           ~WrongType(d, k, "hash") =>
               \/ c.ret = "fail" /\ c.cell = d[k].dict[f]
               \/ c.ret \in {"int", "str"} /\ c.cell \in Value
    PROVE  Does("hincr", d, HashStep(d, k, f, c))
<1>1. CASE WrongType(d, k, "hash")
    BY <1>1, Stays DEF HashStep, Fail, Rets
<1>2. CASE ~WrongType(d, k, "hash") /\ c.ret \in {"int", "str"} /\ c.cell \in Value
    <2>1. c.ret \in Rets \ {"fail"}
        BY <1>2 DEF Rets
    <2>2. Does("hincr", d, Result(c.ret, PutField(d, k, f, c.cell), c.val))
        BY <1>2, <2>1, FieldPuts
    <2>3. QED BY <1>2, <2>2 DEF HashStep
<1>3. CASE ~WrongType(d, k, "hash") /\ c.ret = "fail" /\ c.cell = d[k].dict[f]
    <2>1. [d[k].dict EXCEPT ![f] = c.cell] = d[k].dict
        BY <1>3, DictIs
    <2>2. HashStep(d, k, f, c) = Result("fail", Put(d, k, HashObj(d[k].dict)), c.val)
        BY <1>3, <2>1 DEF HashStep, PutField
    <2>3. CASE Missing(d, k)
        <3> DEFINE e == Put(d, k, HashObj(NoFields))
        <3>1. d[k].dict = NoFields
            BY <2>3, DictIs
        <3>2. Good(HashObj(NoFields))
            <4>1. NoFields \in [Field -> Value \cup {None}]
                BY DEF NoFields
            <4>2. {g \in Field : NoFields[g] # None} = {}
                BY DEF NoFields
            <4>3. QED BY <4>1, <4>2, GoodOnes, FS_EmptySet
        <3>3. Table(e)
            BY <3>2, PutTable
        <3>4. Does("hincr", d, Result("fail", e, c.val))
            BY <2>3, <3>3 DEF Does, FailsWell, EmptiesWell, Result, Rets
        <3>5. QED BY <2>2, <3>1, <3>4
    <2>4. CASE ~Missing(d, k)
        <3>1. d[k] = HashObj(d[k].dict)
            BY <1>3, <2>4, GoodIs DEF Table, WrongType, Missing, HashObj
        <3>2. Put(d, k, d[k]) = d
            BY DEF Put, Table
        <3>3. QED BY <2>2, <3>1, <3>2, Stays DEF Rets
    <2>5. QED BY <2>3, <2>4
<1>4. QED BY <1>1, <1>2, <1>3

LEMMA HincrDoes ==
    ASSUME NEW d, Table(d), NEW k \in Key, NEW f \in Field, NEW v
    PROVE  /\ Does("hincr", d, hincrby_command(d, k, f, v))
           /\ \A sum \in FloatSum(FloatOf(d[k].dict[f]), v) :
                 Does("hincr", d, hincrbyfloat_command(d, k, f, v, sum))
<1>1. ~WrongType(d, k, "hash") => d[k].dict[f] \in Value \cup {None}
    BY DictIs
<1>2. Does("hincr", d, HashStep(d, k, f, decrbyincrby(d[k].dict[f], v, 1)))
    <2> DEFINE c == decrbyincrby(d[k].dict[f], v, 1)
    <2>1. ~WrongType(d, k, "hash") => \/ c.ret = "fail" /\ c.cell = d[k].dict[f]
                                      \/ c.ret = "int" /\ c.cell \in Value
        BY <1>1, SumIs
    <2> HIDE DEF c
    <2>2. Does("hincr", d, HashStep(d, k, f, c))
        BY <2>1, HashStepDoes
    <2>3. QED BY <2>2 DEF c
<1>3. ASSUME NEW sum \in FloatSum(FloatOf(d[k].dict[f]), v)
      PROVE  Does("hincr", d, HashStep(d, k, f, incrbyfloat(d[k].dict[f], v, sum)))
    <2> DEFINE c == incrbyfloat(d[k].dict[f], v, sum)
    <2>1. \/ c.ret = "fail" /\ c.cell = d[k].dict[f]
          \/ c.ret = "str" /\ c.cell \in Value
        BY FloatIs
    <2> HIDE DEF c
    <2>2. Does("hincr", d, HashStep(d, k, f, c))
        BY <2>1, HashStepDoes
    <2>3. QED BY <2>2 DEF c
<1>4. QED BY <1>2, <1>3 DEF hincrby_command, hincrbyfloat_command

LEMMA HmsetDoes ==
    ASSUME NEW d, Table(d), NEW k \in Key, NEW fields \in Seq(Field), fields # <<>>, NEW v \in Value
    PROVE  Does("hset", d, hmset_command(d, k, [i \in DOMAIN fields |-> <<fields[i], v>>]))
<1> DEFINE pairs == [i \in DOMAIN fields |-> <<fields[i], v>>]
           c == [f \in Field |-> IF f \in ToSet(fields) THEN v ELSE d[k].dict[f]]
<1>1. CASE WrongType(d, k, "hash")
    BY <1>1, Stays DEF hmset_command, Fail, Rets
<1>2. CASE ~WrongType(d, k, "hash")
    <2>1. d[k].dict \in [Field -> Value \cup {None}] /\ IsFiniteSet(Fields(d[k]))
        BY <1>2, DictIs
    <2>2. Filled(d[k].dict, pairs) = c
        BY <2>1, FilledIs
    <2>3. c \in [Field -> Value \cup {None}]
        BY <2>1
    <2>4. IsFiniteSet(ToSet(fields)) /\ ToSet(fields) \subseteq Field
        BY FiniteToSet
    <2>5. IsFiniteSet({g \in Field : c[g] # None})
        <3>1. {g \in Field : c[g] # None} \subseteq Fields(d[k]) \cup ToSet(fields)
            BY DEF Fields
        <3>2. QED BY <2>1, <2>4, <3>1, FS_Union, FS_Subset
    <2>6. fields[1] \in ToSet(fields)
        BY DEF ToSet
    <2>7. fields[1] \in Field /\ c[fields[1]] # None
        BY <2>4, <2>6, MarksDiffer
    <2> HIDE DEF c
    <2>8. Good(HashObj(c)) /\ ~Hollow(HashObj(c))
        BY <2>3, <2>5, <2>7, GoodOnes DEF Hollow
    <2>9. Does("hset", d, Result("ok", Put(d, k, HashObj(c)), None))
        BY <2>8, Puts DEF Rets
    <2> HIDE DEF pairs
    <2>10. hmset_command(d, k, pairs)
               = Result("ok", Put(d, k, HashObj(Filled(d[k].dict, pairs))), None)
        BY <1>2 DEF hmset_command, Filled, FoldLeft, MapThenFoldSet
    <2>11. Does("hset", d, hmset_command(d, k, pairs))
        BY <2>2, <2>9, <2>10
    <2>12. QED BY <2>11 DEF pairs
<1>3. QED BY <1>1, <1>2

\* hdel and srem: the collection goes with its last element.
LEMMA DelDoes ==
    ASSUME NEW d, Table(d), NEW k \in Key, NEW fields, NEW type \in {"hash", "set"}, NEW op
    PROVE  Does(op, d, hdelsrem_command(d, k, fields, type))
<1> DEFINE rest == [f \in Field |-> IF f \in ToSet(fields) THEN None ELSE d[k].dict[f]]
           gone == Fields(d[k]) \cap ToSet(fields)
<1>1. CASE WrongType(d, k, type)
    BY <1>1, Stays DEF hdelsrem_command, Fail, Rets
<1>2. CASE ~WrongType(d, k, type) /\ Missing(d, k)
    BY <1>2, Stays DEF hdelsrem_command, IntReply, Rets
<1>3. CASE ~WrongType(d, k, type) /\ ~Missing(d, k)
    <2> DEFINE o == IF rest = NoFields THEN NoObj ELSE Obj(type, None, rest)
    <2>1. hdelsrem_command(d, k, fields, type) = Result("int", Put(d, k, o), Cardinality(gone))
        BY <1>3 DEF hdelsrem_command, IntReply
    <2>2. Good(o) /\ ~Hollow(o)
        <3>1. CASE rest = NoFields
            BY <3>1, GoodOnes
        <3>2. CASE rest # NoFields
            <4>1. IsFiniteSet(Fields(d[k]))
                BY DictIs
            <4>2. {g \in Field : rest[g] # None} \subseteq Fields(d[k])
                BY DEF Fields
            <4>3. IsFiniteSet({g \in Field : rest[g] # None})
                BY <4>1, <4>2, FS_Subset
            <4>4. PICK g \in Field : rest[g] # None
                BY <3>2 DEF NoFields
            <4>5. type = "hash" => rest \in [Field -> Value \cup {None}]
                BY <1>3, DictIs
            <4>6. type = "set" => rest \in [Field -> {None, SetVal}]
                BY <1>3, DictIs
            <4>7. o = Obj(type, None, rest)
                BY <3>2
            <4> HIDE DEF rest, o
            <4>8. CASE type = "hash"
                <5>1. o = HashObj(rest)
                    BY <4>7, <4>8 DEF HashObj
                <5>2. QED BY <4>3, <4>4, <4>5, <4>8, <5>1, GoodOnes DEF Hollow
            <4>9. CASE type = "set"
                <5>1. o = SetObj(rest)
                    BY <4>7, <4>9 DEF SetObj
                <5>2. QED BY <4>3, <4>4, <4>6, <4>9, <5>1, GoodOnes DEF Hollow
            <4>10. QED BY <4>8, <4>9
        <3>3. QED BY <3>1, <3>2
    <2> HIDE DEF o, gone
    <2>3. Does(op, d, Result("int", Put(d, k, o), Cardinality(gone)))
        BY <2>2, Puts DEF Rets
    <2>4. QED BY <2>1, <2>3
<1>4. QED BY <1>1, <1>2, <1>3

-----------------------------------------------------------------------------
(* Commands on sets *)

\* A set in which one member comes or goes.
LEMMA MemberPuts ==
    ASSUME NEW d, Table(d), NEW k \in Key, ~WrongType(d, k, "set"),
           NEW f \in Field, NEW v \in {None, SetVal}
    PROVE  Table(Put(d, k, SetObj([d[k].dict EXCEPT ![f] = v])))
<1> DEFINE c == [d[k].dict EXCEPT ![f] = v]
<1>1. d[k].dict \in [Field -> {None, SetVal}]
    BY DictIs
<1>2. c \in [Field -> {None, SetVal}]
    BY <1>1
<1>3. {g \in Field : c[g] # None} \subseteq Fields(d[k]) \cup {f}
    BY <1>1 DEF Fields
<1>4. IsFiniteSet(Fields(d[k]) \cup {f})
    BY DictIs, FS_AddElement
<1>5. IsFiniteSet({g \in Field : c[g] # None})
    BY <1>3, <1>4, FS_Subset
<1> HIDE DEF c
<1>6. Good(SetObj(c))
    BY <1>2, <1>5, GoodOnes
<1>7. Table(Put(d, k, SetObj(c)))
    BY <1>6, PutTable
<1>8. QED BY <1>7 DEF c

\* smove and spop may leave an empty set.
LEMMA Takes ==
    ASSUME NEW d, NEW e, Table(e), NEW op \in {"smove", "spop"}, NEW ret \in Rets \ {"fail"},
           NEW val
    PROVE  Does(op, d, Result(ret, e, val))
<1> DEFINE r == Result(ret, e, val)
<1>1. r.ret = ret /\ r.db = e
    BY DEF Result
<1> HIDE DEF r
<1>2. FailsWell(op, d, r)
    BY <1>1 DEF FailsWell
<1>3. EmptiesWell(op, d, r)
    BY DEF EmptiesWell
<1>4. Table(r.db) /\ r.ret \in Rets
    BY <1>1
<1>5. Does(op, d, r)
    BY <1>2, <1>3, <1>4 DEF Does
<1>6. QED BY <1>5 DEF r

LEMMA SaddDoes ==
    ASSUME NEW d, Table(d), NEW k \in Key, NEW members \in Seq(Field), members # <<>>
    PROVE  Does("sadd", d, sadd_command(d, k, members))
<1> DEFINE c == [f \in Field |-> IF f \in ToSet(members) /\ d[k].dict[f] = None
                                 THEN SetVal ELSE d[k].dict[f]]
           n == Cardinality(ToSet(members) \ Fields(d[k]))
<1>1. CASE WrongType(d, k, "set")
    BY <1>1, Stays DEF sadd_command, Fail, Rets
<1>2. CASE ~WrongType(d, k, "set")
    <2>1. d[k].dict \in [Field -> {None, SetVal}] /\ IsFiniteSet(Fields(d[k]))
        BY <1>2, DictIs
    <2>2. c \in [Field -> {None, SetVal}]
        BY <2>1
    <2>3. IsFiniteSet(ToSet(members)) /\ ToSet(members) \subseteq Field
        BY FiniteToSet
    <2>4. IsFiniteSet({g \in Field : c[g] # None})
        <3>1. {g \in Field : c[g] # None} \subseteq Fields(d[k]) \cup ToSet(members)
            BY DEF Fields
        <3>2. QED BY <2>1, <2>3, <3>1, FS_Union, FS_Subset
    <2>5. members[1] \in ToSet(members)
        BY DEF ToSet
    <2>6. members[1] \in Field /\ c[members[1]] # None
        BY <2>3, <2>5, MarksDiffer
    <2>7. sadd_command(d, k, members) = Result("int", Put(d, k, SetObj(c)), n)
        BY <1>2 DEF sadd_command, IntReply
    <2> HIDE DEF c, n
    <2>8. Good(SetObj(c)) /\ ~Hollow(SetObj(c))
        BY <2>2, <2>4, <2>6, GoodOnes DEF Hollow
    <2>9. Does("sadd", d, Result("int", Put(d, k, SetObj(c)), n))
        BY <2>8, Puts DEF Rets
    <2>10. QED BY <2>7, <2>9
<1>3. QED BY <1>1, <1>2

LEMMA SmoveDoes ==
    ASSUME NEW d, Table(d), NEW src \in Key, NEW dst \in Key, NEW f \in Field
    PROVE  Does("smove", d, smove_command(d, src, dst, f))
<1> DEFINE moved == Put(d, src, SetObj([d[src].dict EXCEPT ![f] = None]))
           both == Put(moved, dst, SetObj([moved[dst].dict EXCEPT ![f] = SetVal]))
<1>1. CASE WrongType(d, src, "set") \/ WrongType(d, dst, "set")
    BY <1>1, Stays DEF smove_command, Fail, Rets
<1>2. CASE /\ ~(WrongType(d, src, "set") \/ WrongType(d, dst, "set"))
           /\ Missing(d, src) \/ f \notin Fields(d[src])
    BY <1>2, Stays DEF smove_command, IntReply, Rets
<1>3. CASE /\ ~(WrongType(d, src, "set") \/ WrongType(d, dst, "set"))
           /\ ~(Missing(d, src) \/ f \notin Fields(d[src]))
    <2>1. Table(moved)
        BY <1>3, MemberPuts
    <2>2. ~WrongType(moved, dst, "set")
        BY <1>3 DEF WrongType, Put, SetObj, Obj, Table
    <2>3. \/ smove_command(d, src, dst, f) = Result("wild", moved, None)
          \/ smove_command(d, src, dst, f) = Result("int", both, 1)
        BY <1>3 DEF smove_command, IntReply
    <2> HIDE DEF moved
    <2>4. Table(both)
        BY <2>1, <2>2, MemberPuts
    <2> HIDE DEF both
    <2>5. Does("smove", d, Result("wild", moved, None)) /\ Does("smove", d, Result("int", both, 1))
        BY <2>1, <2>4, Takes DEF Rets
    <2>6. QED BY <2>3, <2>5
<1>4. QED BY <1>1, <1>2, <1>3

LEMMA SpopDoes ==
    ASSUME NEW d, Table(d), NEW k \in Key
    PROVE  /\ \A f \in Drawn(d, k) : Does("spop", d, spop_command(d, k, f))
           /\ Does("spop", d, spop_cnt_command(d))
           /\ Does("srandmember", d, srandmember_command(d, k))
<1>1. ASSUME NEW f \in Drawn(d, k) PROVE Does("spop", d, spop_command(d, k, f))
    <2> DEFINE e == Put(d, k, SetObj([d[k].dict EXCEPT ![f] = None]))
    <2>1. CASE WrongType(d, k, "set")
        BY <2>1, Stays DEF spop_command, Fail, Rets
    <2>2. CASE ~WrongType(d, k, "set") /\ (Missing(d, k) \/ Fields(d[k]) = {})
        BY <2>2, Stays DEF spop_command, Rets
    <2>3. CASE ~WrongType(d, k, "set") /\ ~(Missing(d, k) \/ Fields(d[k]) = {})
        <3>1. f \in Field
            BY DEF Drawn, Fields
        <3>2. Table(e)
            BY <2>3, <3>1, MemberPuts
        <3>3. spop_command(d, k, f) = Result("str", e, f)
            BY <2>3 DEF spop_command
        <3> HIDE DEF e
        <3>4. QED BY <3>2, <3>3, Takes DEF Rets
    <2>4. QED BY <2>1, <2>2, <2>3
<1>2. Does("spop", d, spop_cnt_command(d))
    BY Stays DEF spop_cnt_command, Rets
<1>3. Does("srandmember", d, srandmember_command(d, k))
    BY Stays DEF srandmember_command, Fail, Rets
<1>4. QED BY <1>1, <1>2, <1>3

\* A temporary table that has freed nothing leaves all sets as they were.
LEMMA NothingFreed ==
    ASSUME NEW d, Table(d), NEW S, NEW tmp \in Clean(S), NEW order, NEW op
    PROVE  LET s == Walked(order, {f \in Field : tmp.owner[f] # None})
           IN  /\ TempReply(d, tmp, order) = ArrReply(d, s)
               /\ Does(op, d, TempReply(d, tmp, order))
<1>1. tmp.freed = {}
    BY DEF Clean
<1>2. ASSUME NEW k \in Key, d[k].type = "set"
      PROVE  [d[k] EXCEPT !.dict = [f \in Field |-> IF <<k, f>> \in tmp.freed THEN Freed ELSE @[f]]]
                 = d[k]
    <2>1. d[k].dict = [f \in Field |-> d[k].dict[f]]
        BY <1>2, GoodIs DEF Table
    <2>2. d[k] = Obj("set", None, d[k].dict)
        BY <1>2, GoodIs DEF Table
    <2>3. QED BY <1>1, <2>1, <2>2 DEF Obj
<1>3. WithoutFreed(d, tmp) = [k \in Key |-> d[k]]
    BY <1>2 DEF WithoutFreed
<1>4. WithoutFreed(d, tmp) = d
    BY <1>3 DEF Table
<1> DEFINE s == Walked(order, {f \in Field : tmp.owner[f] # None})
<1>5. TempReply(d, tmp, order) = ArrReply(d, s)
    BY <1>4 DEF TempReply
<1> HIDE DEF s
<1>6. PICK val : ArrReply(d, s) = Result("arr", d, val)
    BY DEF ArrReply
<1>7. Does(op, d, TempReply(d, tmp, order))
    BY <1>5, <1>6, Stays DEF Rets
<1>8. QED BY <1>5, <1>7 DEF s

\* The table that sdiff and sinter begin with: no member is there twice.
LEMMA FirstIsClean ==
    ASSUME NEW d, NEW k
    PROVE  AddAll(d, NoTemp, k) \in Clean(Key \cup {None, k})
BY DEF AddAll, NoTemp, Clean, Fields

LEMMA AlgebraDoes ==
    ASSUME NEW d, Table(d), NEW keys \in Seq(Key), keys # <<>>, NEW order
    PROVE  /\ Does("sdiff", d, sdiff_command(d, keys, order))
           /\ Does("sinter", d, sinter_command(d, keys, order))
           /\ Does("sunion", d, sunion_command(d, keys, order))
<1>1. Does("sdiff", d, sdiff_command(d, keys, order))
    <2> DEFINE tmp == Diffed(d, AddAll(d, NoTemp, Head(keys)), Tail(keys))
    <2>1. tmp \in Clean(Key \cup {None, Head(keys)})
        <3>1. Tail(keys) \in Seq(Key)
            OBVIOUS
        <3>2. QED BY <3>1, FirstIsClean, DiffedIs
    <2>2. sdiff_command(d, keys, order)
              = IF AnyWrongType(d, keys) THEN Fail(d) ELSE TempReply(d, tmp, order)
        BY DEF sdiff_command, Diffed, FoldLeft, MapThenFoldSet
    <2> HIDE DEF tmp
    <2>3. QED BY <2>1, <2>2, NothingFreed, Stays DEF Fail, Rets
<1>2. Does("sinter", d, sinter_command(d, keys, order))
    <2> DEFINE first == Smallest(d, keys)
    <2> HIDE DEF first
    <2> DEFINE tmp == Intersected(d, AddAll(d, NoTemp, first), keys)
    <2>1. tmp \in Clean(Key \cup {None, first})
        BY FirstIsClean, IntersectedIs
    <2>2. sinter_command(d, keys, order)
              = IF AnyWrongType(d, keys) THEN Fail(d)
                ELSE IF \E i \in DOMAIN keys : Missing(d, keys[i]) THEN ArrReply(d, <<>>)
                ELSE TempReply(d, tmp, order)
        BY DEF sinter_command, Intersected, FoldLeft, MapThenFoldSet, first
    <2> HIDE DEF tmp
    <2>3. PICK val : ArrReply(d, <<>>) = Result("arr", d, val)
        BY DEF ArrReply
    <2>4. Does("sinter", d, Result("arr", d, val)) /\ Does("sinter", d, Fail(d))
        BY Stays DEF Fail, Rets
    <2>5. Does("sinter", d, TempReply(d, tmp, order))
        BY <2>1, NothingFreed
    <2>6. QED BY <2>2, <2>3, <2>4, <2>5
<1>3. Does("sunion", d, sunion_command(d, keys, order))
    <2> DEFINE tmp == United(d, NoTemp, keys)
    <2>1. tmp \in Clean(Key \cup {None})
        <3>1. NoTemp \in Clean(Key \cup {None})
            BY DEF NoTemp, Clean
        <3>2. QED BY <3>1, UnitedIs
    <2>2. sunion_command(d, keys, order)
              = IF AnyWrongType(d, keys) THEN Fail(d) ELSE TempReply(d, tmp, order)
        BY DEF sunion_command, United, FoldLeft, MapThenFoldSet
    <2> HIDE DEF tmp
    <2>3. QED BY <2>1, <2>2, NothingFreed, Stays DEF Fail, Rets
<1>4. QED BY <1>1, <1>2, <1>3

-----------------------------------------------------------------------------
(* Steps *)

LEMMA NextDoes ==
    ASSUME Table(db), Next
    PROVE  \E op, r : Does(op, db, r) /\ Step(op, r)
<1>1. ASSUME NEW k \in Key, ScalarCommand(k) PROVE \E op, r : Does(op, db, r) /\ Step(op, r)
    <2>1. ASSUME NEW v \in Arg
          PROVE  /\ Does("set", db, set_command(db, k, v))
                 /\ Does("setnx", db, setnx_command(db, k, v))
                 /\ Does("incr", db, incrby_command(db, k, v))
                 /\ Does("incr", db, decrby_command(db, k, v))
        <3>1. v \in Value
            BY ArgAssumption
        <3>2. QED BY <3>1, SetDoes, IncrDoes
    <2>2. Does("incr", db, incr_command(db, k)) /\ Does("incr", db, decr_command(db, k))
        BY IncrDoes DEF incr_command, decr_command
    <2>3. Does("get", db, get_command(db, k))
        <3>1. Word \in Value
            BY DEF Value
        <3>2. QED BY <3>1, SetDoes
    <2>4. QED BY <1>1, <2>1, <2>2, <2>3 DEF ScalarCommand
<1>2. ASSUME NEW k \in Key, FloatCommand(k) PROVE \E op, r : Does(op, db, r) /\ Step(op, r)
    BY <1>2, IncrDoes DEF FloatCommand
<1>3. ASSUME NEW k \in Key, HashCommand(k) PROVE \E op, r : Does(op, db, r) /\ Step(op, r)
    <2>1. PICK f \in Field, v \in Arg : \/ Step("hset", hset_command(db, k, f, v))
                                       \/ Step("hset", hsetnx_command(db, k, f, v))
                                       \/ Step("hincr", hincrby_command(db, k, f, v))
        BY <1>3 DEF HashCommand
    <2>2. v \in Value
        BY ArgAssumption
    <2>3. /\ Does("hset", db, hset_command(db, k, f, v))
          /\ Does("hset", db, hsetnx_command(db, k, f, v))
          /\ Does("hincr", db, hincrby_command(db, k, f, v))
        BY <2>2, HsetDoes, HincrDoes
    <2>4. QED BY <2>1, <2>3
<1>4. ASSUME NEW k \in Key, HashFloatCommand(k) PROVE \E op, r : Does(op, db, r) /\ Step(op, r)
    BY <1>4, HincrDoes DEF HashFloatCommand
<1>5. ASSUME NEW k \in Key, NEW fields \in FieldArgs, FieldsCommand(k, fields)
      PROVE  \E op, r : Does(op, db, r) /\ Step(op, r)
    <2>1. fields \in Seq(Field) /\ fields # <<>>
        BY ArgAssumption
    <2>2. ASSUME NEW v \in Arg
          PROVE  Does("hset", db, hmset_command(db, k, [i \in DOMAIN fields |-> <<fields[i], v>>]))
        <3>1. v \in Value
            BY ArgAssumption
        <3>2. QED BY <2>1, <3>1, HmsetDoes
    <2>3. /\ Does("hdel", db, hdel_command(db, k, fields))
          /\ Does("srem", db, srem_command(db, k, fields))
        BY DelDoes DEF hdel_command, srem_command
    <2>4. Does("sadd", db, sadd_command(db, k, fields))
        BY <2>1, SaddDoes
    <2>5. QED BY <1>5, <2>2, <2>3, <2>4 DEF FieldsCommand
<1>6. ASSUME NEW k \in Key, SetCommand(k) PROVE \E op, r : Does(op, db, r) /\ Step(op, r)
    <2>1. ASSUME NEW f \in Field, NEW dst \in Key
          PROVE  Does("smove", db, smove_command(db, k, dst, f))
        BY SmoveDoes
    <2>2. QED BY <1>6, <2>1, SpopDoes DEF SetCommand
<1>7. ASSUME NEW keys \in KeyArgs, KeyCommand(keys) PROVE \E op, r : Does(op, db, r) /\ Step(op, r)
    <2>1. keys \in Seq(Key)
        BY ArgAssumption
    <2>2. ASSUME NEW v \in Arg PROVE Does("msetnx", db, msetnx_command(db, keys, v))
        <3>1. v \in Value
            BY ArgAssumption
        <3>2. QED BY <2>1, <3>1, ManyDoes
    <2>3. Does("del", db, del_command(db, keys))
        <3>1. Word \in Value
            BY DEF Value
        <3>2. QED BY <2>1, <3>1, ManyDoes
    <2>4. ASSUME Len(keys) = 2 PROVE Does("rename", db, rename_command(db, keys[1], keys[2]))
        <3>1. keys[1] \in Key /\ keys[2] \in Key
            BY <2>1, <2>4
        <3>2. QED BY <3>1, RenameDoes
    <2>5. QED BY <1>7, <2>2, <2>3, <2>4 DEF KeyCommand
<1>8. ASSUME NEW keys \in KeyArgs, AlgebraCommand(keys)
      PROVE  \E op, r : Does(op, db, r) /\ Step(op, r)
    <2>1. keys \in Seq(Key) /\ keys # <<>>
        BY ArgAssumption
    <2>2. QED BY <1>8, <2>1, AlgebraDoes DEF AlgebraCommand
<1>9. QED BY <1>1, <1>2, <1>3, <1>4, <1>5, <1>6, <1>7, <1>8 DEF Next

\* The inductive invariant.
TableInv == Table(db) /\ last.ret \in Rets

LEMMA TableInit ==
    ASSUME Init PROVE TableInv
<1>1. db = [k \in Key |-> NoObj]
    BY DEF Init
<1>2. \A k \in Key : db[k] = NoObj /\ db[k].type = "none"
    BY <1>1, GoodOnes
<1>3. Present(db) = {}
    BY <1>2 DEF Present, Missing
<1>4. db = [k \in Key |-> db[k]]
    BY <1>1
<1>5. Table(db)
    BY <1>2, <1>3, <1>4, GoodOnes, FS_EmptySet DEF Table
<1>6. QED BY <1>5 DEF TableInv, Init, Rets

LEMMA TableNext ==
    ASSUME TableInv, [Next]_vars PROVE TableInv'
<1>1. CASE Next
    <2>1. PICK op, r : Does(op, db, r) /\ Step(op, r)
        BY <1>1, NextDoes DEF TableInv
    <2>2. Table(r.db) /\ r.ret \in Rets /\ db' = r.db /\ last'.ret = r.ret
        BY <2>1 DEF Does, Step
    <2>3. Table(db')
        BY <2>2
    <2>4. Table(db)'
        BY <2>3 DEF Table, Present, Missing, Good, Fields, NoObj, StrObj, HashObj, SetObj, Obj, NoFields
    <2>5. QED BY <2>2, <2>4 DEF TableInv, Rets
<1>2. CASE UNCHANGED vars
    BY <1>2 DEF TableInv, vars, Table, Present, Missing
<1>3. QED BY <1>1, <1>2

LEMMA TableAlways == Spec => []TableInv
BY TableInit, TableNext, PTL DEF Spec

\* Every key is missing or holds an object of one of three types with values of the
\* right kind: no sum leaves the range of bss_int_t.
THEOREM TypeCorrect == Spec => []TypeOK
<1>1. TableInv => TypeOK
    <2>1. SUFFICES ASSUME TableInv, NEW k \in Key PROVE ObjOK(db[k])
        BY DEF TypeOK, TableInv, Rets
    <2>2. Good(db[k])
        BY <2>1 DEF TableInv, Table
    <2>3. CASE db[k].type = "none"
        BY <2>2, <2>3, GoodIs DEF ObjOK
    <2>4. CASE db[k].type = "string"
        BY <2>2, <2>4, GoodIs DEF ObjOK
    <2>5. CASE db[k].type = "hash"
        BY <2>2, <2>5, GoodIs DEF ObjOK, HashObj
    <2>6. CASE db[k].type = "set"
        BY <2>2, <2>6, GoodIs DEF ObjOK, SetObj
    <2>7. QED BY <2>2, <2>3, <2>4, <2>5, <2>6, GoodIs
<1>2. QED BY <1>1, TableAlways, PTL

\* The set algebra frees no string of a set: the temporary table never has a member
\* twice when dict_add fills it, and dict_add_shallow and dict_rm_nf free nothing.
THEOREM NoMemberFreed == Spec => []NoFreedMember
<1>1. TableInv => NoFreedMember
    <2>1. SUFFICES ASSUME TableInv, NEW k \in Key, NEW f \in Field PROVE db[k].dict[f] # Freed
        BY DEF NoFreedMember
    <2>2. Good(db[k])
        BY <2>1 DEF TableInv, Table
    <2>3. \/ db[k].dict \in [Field -> Value \cup {None}]
          \/ db[k].dict \in [Field -> {None, SetVal}]
        BY <2>2, GoodIs
    <2>4. QED BY <2>3, MarksDiffer
<1>2. QED BY <1>1, TableAlways, PTL

\* incrby, decrby, hincrby, incr and decr compute the sum and refuse exactly those that
\* do not fit, but for the two cases that CountersExact leaves out.
THEOREM CountersAlwaysExact == Spec => []CountersExact
<1>1. TableInv => CountersExact
    <2>1. SUFFICES ASSUME TableInv, NEW cell \in Cells, NEW arg \in Value, NEW sign \in {1, -1}
                   PROVE  CounterExact(cell, arg, sign)
        BY DEF CountersExact, CounterExact
    <2>2. \A k \in Key : Good(db[k])
        BY <2>1 DEF TableInv, Table
    <2>3. cell \in Value \cup {None}
        <3>1. CASE cell = None
            BY <3>1
        <3>2. CASE \E k \in Key : db[k].type = "string" /\ cell = db[k].val
            BY <2>2, <3>2, GoodIs
        <3>3. CASE \E k \in Key, f \in Field : db[k].type = "hash" /\ cell = db[k].dict[f]
            BY <2>2, <3>3, GoodIs
        <3>4. QED BY <3>1, <3>2, <3>3 DEF Cells
    <2>4. QED BY <2>3, CounterIsExact
<1>2. QED BY <1>1, TableAlways, PTL

\* A command that fails has changed nothing, but for the empty hash of an hincrby or
\* hincrbyfloat that refuses the amount.
THEOREM FailuresChangeNothing == Spec => FailureChangesNothing
<1> DEFINE A == last'.ret = "fail" =>
                  \/ db' = db
                  \/ /\ last'.op = "hincr"
                     /\ \E k \in Key : Missing(db, k) /\ db' = Put(db, k, HashObj(NoFields))
<1>1. TableInv /\ [Next]_vars => [A]_vars
    <2>1. SUFFICES ASSUME TableInv, Next PROVE A
        OBVIOUS
    <2>2. PICK op, r : Does(op, db, r) /\ Step(op, r)
        BY <2>1, NextDoes DEF TableInv
    <2>3. db' = r.db /\ last'.ret = r.ret /\ last'.op = op /\ FailsWell(op, db, r)
        BY <2>2 DEF Does, Step
    <2>4. QED BY <2>3 DEF FailsWell
<1>2. QED BY <1>1, TableAlways, PTL DEF Spec, FailureChangesNothing

\* Only smove, spop and a refused amount leave an empty collection behind.
THEOREM EmptiedOnlyByThese == Spec => EmptiedOnlyBy
<1> DEFINE A == Cardinality(EmptyOnes(db')) > Cardinality(EmptyOnes(db)) =>
                    last'.op \in {"smove", "spop"} \/ last' = [op |-> "hincr", ret |-> "fail"]
<1>1. TableInv /\ [Next]_vars => [A]_vars
    <2>1. SUFFICES ASSUME TableInv, Next PROVE A
        OBVIOUS
    <2>2. PICK op, r : Does(op, db, r) /\ Step(op, r)
        BY <2>1, NextDoes DEF TableInv
    <2>3. /\ db' = r.db
          /\ last' = [op |-> op, ret |-> r.ret] /\ last'.op = op
          /\ EmptiesWell(op, db, r)
        BY <2>2 DEF Does, Step
    <2>4. QED BY <2>3 DEF EmptiesWell
<1>2. QED BY <1>1, TableAlways, PTL DEF Spec, EmptiedOnlyBy

-----------------------------------------------------------------------------
(* Replies *)

\* The statements of RepliesTellChange about a state d.
SaddTells(d) ==
    \A k \in Key, fields \in FieldArgs :
        LET add == sadd_command(d, k, fields)
        IN  add.ret = "int" => /\ add.val = scard_command(add.db, k).val - Cardinality(Fields(d[k]))
                               /\ ToSet(fields) \subseteq Fields(add.db[k])

DelTells(d) ==
    \A k \in Key, fields \in FieldArgs, type \in {"hash", "set"} :
        LET r == hdelsrem_command(d, k, fields, type)
        IN  r.ret = "int" => /\ r.val = Cardinality(Fields(d[k])) - Cardinality(Fields(r.db[k]))
                             /\ ToSet(fields) \cap Fields(r.db[k]) = {}

There(d) == {k \in Key : exists_command(d, k).val = 1}

KeysTell(d) ==
    /\ \A keys \in KeyArgs :
          LET r == del_command(d, keys)
          IN  r.val = Cardinality(There(d)) - Cardinality(There(r.db))
    /\ \A keys \in KeyArgs, v \in Arg :
          LET r == msetnx_command(d, keys, v)
          IN  IF r.val = 0 THEN r.db = d
              ELSE \A k \in ToSet(keys) :
                      type_command(d, k).val = "none" /\ get_command(r.db, k).val = v

HsetTells(d) ==
    \A k \in Key, f \in Field, v \in Arg :
        LET r == hset_command(d, k, f, v)
        IN  r.ret = "int" => /\ r.val = hlen_command(r.db, k).val - Cardinality(Fields(d[k]))
                             /\ hget_command(r.db, k, f).val = v

SmoveTells(d) ==
    \A src, dst \in Key, f \in Field :
        LET r == smove_command(d, src, dst, f)
        IN  /\ r.ret = "int" /\ r.val = 1 =>
                   /\ sismember_command(d, src, f).val = 1
                   /\ sismember_command(r.db, dst, f).val = 1
                   /\ src # dst => sismember_command(r.db, src, f).val = 0
            /\ r.ret = "int" /\ r.val = 0 => r.db = d

\* What hlen, scard, hexists and sismember reply for a collection that is there.
LEMMA SizeIs ==
    ASSUME NEW d, NEW k, NEW type, ~WrongType(d, k, type)
    PROVE  /\ entry_num_command(d, k, type).val = Cardinality(Fields(d[k]))
           /\ \A f : has_command(d, k, f, type).val = IF f \in Fields(d[k]) THEN 1 ELSE 0
BY DEF entry_num_command, has_command, IntReply, Result

LEMMA SaddIsTold ==
    ASSUME NEW d, Table(d) PROVE SaddTells(d)
<1> SUFFICES ASSUME NEW k \in Key, NEW fields \in FieldArgs,
                    NEW add, add = sadd_command(d, k, fields), add.ret = "int"
             PROVE  /\ add.val = scard_command(add.db, k).val - Cardinality(Fields(d[k]))
                    /\ ToSet(fields) \subseteq Fields(add.db[k])
    BY DEF SaddTells
<1> DEFINE c == [f \in Field |-> IF f \in ToSet(fields) /\ d[k].dict[f] = None
                                 THEN SetVal ELSE d[k].dict[f]]
           old == Fields(d[k])
           new == ToSet(fields)
<1>1. ~WrongType(d, k, "set")
    BY DEF sadd_command, Fail, Result
<1>2. IsFiniteSet(old) /\ d[k].dict \in [Field -> {None, SetVal}]
    BY <1>1, DictIs
<1>3. IsFiniteSet(new) /\ new \subseteq Field
    BY ArgAssumption, FiniteToSet
<1>4. add = Result("int", Put(d, k, SetObj(c)), Cardinality(new \ old))
    BY <1>1 DEF sadd_command, IntReply
<1>5. add.db[k] = SetObj(c) /\ add.val = Cardinality(new \ old)
    BY <1>4 DEF Result, Put, Table
<1>6. Fields(add.db[k]) = old \cup new
    <2>1. Fields(SetObj(c)) = {f \in Field : c[f] # None}
        BY DEF Fields, SetObj, Obj
    <2>2. \A f \in Field : c[f] # None <=> f \in old \cup new
        BY MarksDiffer DEF Fields
    <2>3. old \cup new \subseteq Field
        BY <1>3 DEF Fields
    <2> HIDE DEF c, old, new
    <2>4. QED BY <1>5, <2>1, <2>2, <2>3
<1>7. scard_command(add.db, k).val = Cardinality(old \cup new)
    <2>1. ~WrongType(add.db, k, "set")
        BY <1>5 DEF WrongType, SetObj, Obj
    <2>2. QED BY <1>6, <2>1, SizeIs DEF scard_command
<1>8. Cardinality(new \ old) = Cardinality(old \cup new) - Cardinality(old)
    <2> HIDE DEF old, new
    <2>1. Cardinality(old \cup new) = Cardinality(old) + Cardinality(new) - Cardinality(old \cap new)
        BY <1>2, <1>3, FS_Union
    <2>2. Cardinality(new \ old) = Cardinality(new) - Cardinality(new \cap old)
        BY <1>2, <1>3, FS_Difference
    <2>3. new \cap old = old \cap new /\ IsFiniteSet(new \cap old)
        BY <1>2, <1>3, FS_Intersection
    <2>4. /\ Cardinality(old) \in Nat /\ Cardinality(new) \in Nat
          /\ Cardinality(new \cap old) \in Nat
        BY <1>2, <1>3, <2>3, FS_CardinalityType
    <2>5. QED BY <2>1, <2>2, <2>3, <2>4
<1>9. QED BY <1>5, <1>6, <1>7, <1>8

LEMMA DelIsTold ==
    ASSUME NEW d, Table(d) PROVE DelTells(d)
<1> SUFFICES ASSUME NEW k \in Key, NEW fields \in FieldArgs, NEW type \in {"hash", "set"},
                    NEW r, r = hdelsrem_command(d, k, fields, type), r.ret = "int"
             PROVE  /\ r.val = Cardinality(Fields(d[k])) - Cardinality(Fields(r.db[k]))
                    /\ ToSet(fields) \cap Fields(r.db[k]) = {}
    BY DEF DelTells
<1> DEFINE rest == [f \in Field |-> IF f \in ToSet(fields) THEN None ELSE d[k].dict[f]]
           old == Fields(d[k])
           gone == ToSet(fields)
<1>1. ~WrongType(d, k, type)
    BY DEF hdelsrem_command, Fail, Result
<1>2. IsFiniteSet(old)
    BY DictIs
<1>3. IsFiniteSet(gone)
    BY ArgAssumption, FiniteToSet
<1>4. CASE Missing(d, k)
    <2>1. r.db = d /\ r.val = 0
        BY <1>1, <1>4 DEF hdelsrem_command, IntReply, Result
    <2>2. old = {}
        <3>1. d[k].dict = NoFields
            BY <1>4, DictIs
        <3>2. \A f \in Field : d[k].dict[f] = None
            BY <3>1 DEF NoFields
        <3>3. QED BY <3>2 DEF Fields
    <2>3. Cardinality(old) = 0
        BY <2>2, FS_EmptySet
    <2>4. QED BY <2>1, <2>2, <2>3
<1>5. CASE ~Missing(d, k)
    <2> DEFINE o == IF rest = NoFields THEN NoObj ELSE Obj(type, None, rest)
    <2>1. r = Result("int", Put(d, k, o), Cardinality(old \cap gone))
        BY <1>1, <1>5 DEF hdelsrem_command, IntReply
    <2>2. r.db[k] = o /\ r.val = Cardinality(old \cap gone)
        <3> HIDE DEF o, old, gone
        <3>1. QED BY <2>1 DEF Result, Put, Table
    <2>3. o.dict = rest
        BY DEF NoObj, Obj
    <2>4. Fields(r.db[k]) = old \ gone
        <3>1. \A f \in Field : rest[f] # None <=> f \in old \ gone
            BY DEF Fields
        <3>2. Fields(o) = {f \in Field : rest[f] # None}
            BY <2>3 DEF Fields
        <3>3. old \ gone \subseteq Field
            BY DEF Fields
        <3> HIDE DEF o, old, gone, rest
        <3>4. QED BY <2>2, <3>1, <3>2, <3>3
    <2> HIDE DEF old, gone, o
    <2>5. Cardinality(old \ gone) = Cardinality(old) - Cardinality(old \cap gone)
        BY <1>2, <1>3, FS_Difference
    <2>6. IsFiniteSet(old \cap gone)
        BY <1>2, FS_Intersection
    <2>7. Cardinality(old) \in Nat /\ Cardinality(old \cap gone) \in Nat
        BY <1>2, <2>6, FS_CardinalityType
    <2>8. r.val = Cardinality(old) - Cardinality(Fields(r.db[k]))
        BY <2>2, <2>4, <2>5, <2>7
    <2>9. gone \cap Fields(r.db[k]) = {}
        BY <2>4
    <2>10. QED BY <2>8, <2>9 DEF old, gone
<1>6. QED BY <1>4, <1>5

LEMMA KeysAreTold ==
    ASSUME NEW d, Table(d) PROVE KeysTell(d)
<1>1. \A e : There(e) = Present(e)
    <2>1. ASSUME NEW e, NEW k \in Key PROVE exists_command(e, k).val = 1 <=> ~Missing(e, k)
        BY DEF exists_command, IntReply, Result
    <2>2. QED BY <2>1 DEF There, Present
<1>2. ASSUME NEW keys \in KeyArgs, NEW r, r = del_command(d, keys)
      PROVE  r.val = Cardinality(There(d)) - Cardinality(There(r.db))
    <2> DEFINE gone == ToSet(keys)
               old == Present(d)
               e == [k \in Key |-> IF k \in gone THEN NoObj ELSE d[k]]
    <2>1. gone \subseteq Key /\ IsFiniteSet(gone)
        BY ArgAssumption, FiniteToSet
    <2>2. r.db = e /\ r.val = Cardinality({k \in gone : ~Missing(d, k)})
        BY <1>2 DEF del_command, IntReply, Result
    <2>3. {k \in gone : ~Missing(d, k)} = old \cap gone
        BY <2>1 DEF Present
    <2>4. Present(e) = old \ gone
        <3>1. ASSUME NEW k \in Key PROVE ~Missing(e, k) <=> k \in old \ gone
            BY GoodOnes DEF Missing, Present
        <3>2. QED BY <3>1 DEF Present
    <2>5. IsFiniteSet(old)
        BY DEF Table
    <2> HIDE DEF old, gone
    <2>6. Cardinality(old \ gone) = Cardinality(old) - Cardinality(old \cap gone)
        BY <2>5, FS_Difference
    <2>7. IsFiniteSet(old \cap gone)
        BY <2>5, FS_Intersection
    <2>8. Cardinality(old) \in Nat /\ Cardinality(old \cap gone) \in Nat
        BY <2>5, <2>7, FS_CardinalityType
    <2>9. There(d) = old /\ There(r.db) = old \ gone
        BY <1>1, <2>2, <2>4 DEF old
    <2>10. r.val = Cardinality(old \cap gone)
        BY <2>2, <2>3 DEF old, gone
    <2> HIDE DEF e
    <2>11. QED BY <2>6, <2>8, <2>9, <2>10
<1>3. ASSUME NEW keys \in KeyArgs, NEW v \in Arg, NEW r, r = msetnx_command(d, keys, v)
      PROVE  IF r.val = 0 THEN r.db = d
             ELSE \A k \in ToSet(keys) :
                     type_command(d, k).val = "none" /\ get_command(r.db, k).val = v
    <2>1. CASE \E k \in ToSet(keys) : ~Missing(d, k)
        BY <1>3, <2>1 DEF msetnx_command, IntReply, Result
    <2>2. CASE ~\E k \in ToSet(keys) : ~Missing(d, k)
        <3>1. /\ r.val = 1
              /\ r.db = [k \in Key |-> IF k \in ToSet(keys) THEN StrObj(v) ELSE d[k]]
            BY <1>3, <2>2 DEF msetnx_command, IntReply, Result
        <3>2. ASSUME NEW k \in ToSet(keys)
              PROVE  type_command(d, k).val = "none" /\ get_command(r.db, k).val = v
            <4>1. k \in Key
                BY ArgAssumption, FiniteToSet
            <4>2. r.db[k] = StrObj(v)
                BY <3>1, <4>1
            <4>3. r.db[k].type = "string" /\ r.db[k].val = v
                BY <4>2 DEF StrObj, Obj
            <4>4. get_command(r.db, k).val = v
                BY <4>3 DEF get_command, WrongType, Missing, Result
            <4>5. type_command(d, k).val = "none"
                BY <2>2 DEF type_command, Missing, Result
            <4>6. QED BY <4>4, <4>5
        <3>3. QED BY <3>1, <3>2
    <2>3. QED BY <2>1, <2>2
<1>4. QED BY <1>2, <1>3 DEF KeysTell

LEMMA HsetIsTold ==
    ASSUME NEW d, Table(d) PROVE HsetTells(d)
<1> SUFFICES ASSUME NEW k \in Key, NEW f \in Field, NEW v \in Arg,
                    NEW r, r = hset_command(d, k, f, v), r.ret = "int"
             PROVE  /\ r.val = hlen_command(r.db, k).val - Cardinality(Fields(d[k]))
                    /\ hget_command(r.db, k, f).val = v
    BY DEF HsetTells
<1> DEFINE c == [d[k].dict EXCEPT ![f] = v]
           old == Fields(d[k])
<1>1. ~WrongType(d, k, "hash")
    BY DEF hset_command, Fail, Result
<1>2. IsFiniteSet(old) /\ d[k].dict \in [Field -> Value \cup {None}]
    BY <1>1, DictIs
<1>3. v \in Value /\ v # None
    BY ArgAssumption, MarksDiffer
<1>4. r = Result("int", Put(d, k, HashObj(c)), IF d[k].dict[f] = None THEN 1 ELSE 0)
    BY <1>1 DEF hset_command, IntReply, PutField
<1>5. r.db[k] = HashObj(c) /\ r.val = IF d[k].dict[f] = None THEN 1 ELSE 0
    <2> HIDE DEF c
    <2>1. QED BY <1>4 DEF Result, Put, Table
<1>6. c[f] = v /\ \A g \in Field : g # f => c[g] = d[k].dict[g]
    BY <1>2
<1>7. Fields(r.db[k]) = old \cup {f}
    <2>1. Fields(HashObj(c)) = {g \in Field : c[g] # None}
        BY DEF Fields, HashObj, Obj
    <2>2. \A g \in Field : c[g] # None <=> g \in old \cup {f}
        BY <1>3, <1>6 DEF Fields
    <2>3. old \cup {f} \subseteq Field
        BY DEF Fields
    <2> HIDE DEF c, old
    <2>4. QED BY <1>5, <2>1, <2>2, <2>3
<1>8. ~WrongType(r.db, k, "hash") /\ r.db[k].dict = c
    BY <1>5 DEF WrongType, HashObj, Obj
<1>9. hlen_command(r.db, k).val = Cardinality(old \cup {f})
    <2> HIDE DEF c, old
    <2>1. hlen_command(r.db, k).val = Cardinality(Fields(r.db[k]))
        BY <1>8, SizeIs DEF hlen_command
    <2>2. QED BY <1>7, <2>1
<1>10. f \in old <=> d[k].dict[f] # None
    BY DEF Fields
<1> HIDE DEF c, old
<1>11. r.val = Cardinality(old \cup {f}) - Cardinality(old)
    <2>1. Cardinality(old \cup {f}) = IF f \in old THEN Cardinality(old) ELSE Cardinality(old) + 1
        BY <1>2, FS_AddElement
    <2>2. Cardinality(old) \in Nat
        BY <1>2, FS_CardinalityType
    <2>3. QED BY <1>5, <1>10, <2>1, <2>2
<1>12. hget_command(r.db, k, f).val = v
    BY <1>3, <1>6, <1>8 DEF hget_command, Result
<1>13. QED BY <1>9, <1>11, <1>12 DEF old

LEMMA SmoveIsTold ==
    ASSUME NEW d, Table(d) PROVE SmoveTells(d)
<1> SUFFICES ASSUME NEW src \in Key, NEW dst \in Key, NEW f \in Field,
                    NEW r, r = smove_command(d, src, dst, f), r.ret = "int"
             PROVE  /\ r.val = 1 =>
                          /\ sismember_command(d, src, f).val = 1
                          /\ sismember_command(r.db, dst, f).val = 1
                          /\ src # dst => sismember_command(r.db, src, f).val = 0
                    /\ r.val = 0 => r.db = d
    BY DEF SmoveTells
<1> DEFINE a == [d[src].dict EXCEPT ![f] = None]
           moved == Put(d, src, SetObj(a))
           b == [moved[dst].dict EXCEPT ![f] = SetVal]
<1>1. ~WrongType(d, src, "set") /\ ~WrongType(d, dst, "set")
    BY DEF smove_command, Fail, Result
<1>2. CASE Missing(d, src) \/ f \notin Fields(d[src])
    BY <1>1, <1>2 DEF smove_command, IntReply, Result
<1>3. CASE ~Missing(d, src) /\ f \in Fields(d[src])
    <2>1. r = Result("int", Put(moved, dst, SetObj(b)), 1)
        BY <1>1, <1>3 DEF smove_command, IntReply, Result
    <2>2. sismember_command(d, src, f).val = 1
        BY <1>1, <1>3, SizeIs DEF sismember_command
    <2>3. Table(moved) /\ moved[src] = SetObj(a)
        <3>1. Table(moved)
            BY <1>1, MemberPuts
        <3>2. moved[src] = SetObj(a)
            BY DEF Put, Table
        <3>3. QED BY <3>1, <3>2
    <2>4. ~WrongType(moved, dst, "set")
        BY <1>1 DEF WrongType, Put, SetObj, Obj, Table
    <2>5. a[f] = None
        <3>1. d[src].dict \in [Field -> {None, SetVal}]
            BY <1>1, DictIs
        <3>2. QED BY <3>1
    <2> HIDE DEF moved, a
    <2>6. b[f] = SetVal
        <3>1. moved[dst].dict \in [Field -> {None, SetVal}]
            BY <2>3, <2>4, DictIs
        <3>2. QED BY <3>1
    <2> HIDE DEF b
    <2>7. /\ r.val = 1
          /\ r.db[dst] = SetObj(b)
          /\ src # dst => r.db[src] = SetObj(a)
        BY <2>1, <2>3 DEF Result, Put, Table
    <2>8. sismember_command(r.db, dst, f).val = 1
        <3>1. ~WrongType(r.db, dst, "set")
            BY <2>7 DEF WrongType, SetObj, Obj
        <3>2. f \in Fields(r.db[dst])
            BY <2>6, <2>7, MarksDiffer DEF Fields, SetObj, Obj
        <3>3. QED BY <3>1, <3>2, SizeIs DEF sismember_command
    <2>9. ASSUME src # dst PROVE sismember_command(r.db, src, f).val = 0
        <3>1. ~WrongType(r.db, src, "set")
            BY <2>7, <2>9 DEF WrongType, SetObj, Obj
        <3>2. f \notin Fields(r.db[src])
            BY <2>5, <2>7, <2>9 DEF Fields, SetObj, Obj
        <3>3. QED BY <3>1, <3>2, SizeIs DEF sismember_command
    <2>10. QED BY <2>2, <2>7, <2>8, <2>9
<1>4. QED BY <1>2, <1>3

\* The numbers that sadd, srem, hdel, del, msetnx, hset and smove reply tell what they
\* have changed, also if an argument is repeated.
THEOREM RepliesAlwaysTellChange == Spec => []RepliesTellChange
<1>1. TableInv => RepliesTellChange
    <2>1. SUFFICES ASSUME Table(db) PROVE RepliesTellChange
        BY DEF TableInv
    <2>2. SaddTells(db) /\ DelTells(db) /\ KeysTell(db) /\ HsetTells(db) /\ SmoveTells(db)
        BY <2>1, SaddIsTold, DelIsTold, KeysAreTold, HsetIsTold, SmoveIsTold
    <2>3. ASSUME NEW k \in Key, NEW fields \in FieldArgs
          PROVE  LET add == sadd_command(db, k, fields)
                     hdel == hdel_command(db, k, fields)
                     srem == srem_command(db, k, fields)
                     size == Cardinality(Fields(db[k]))
                 IN  /\ add.ret = "int" => /\ add.val = scard_command(add.db, k).val - size
                                           /\ ToSet(fields) \subseteq Fields(add.db[k])
                     /\ \A r \in {hdel, srem} :
                           r.ret = "int" => /\ r.val = size - Cardinality(Fields(r.db[k]))
                                            /\ ToSet(fields) \cap Fields(r.db[k]) = {}
        BY <2>2 DEF SaddTells, DelTells, hdel_command, srem_command
    <2>4. \A keys \in KeyArgs :
             LET there(d) == {k \in Key : exists_command(d, k).val = 1}
                 r == del_command(db, keys)
             IN  r.val = Cardinality(there(db)) - Cardinality(there(r.db))
        BY <2>2 DEF KeysTell, There
    <2>5. \A keys \in KeyArgs, v \in Arg :
             LET r == msetnx_command(db, keys, v)
             IN  IF r.val = 0 THEN r.db = db
                 ELSE \A k \in ToSet(keys) :
                         type_command(db, k).val = "none" /\ get_command(r.db, k).val = v
        BY <2>2 DEF KeysTell
    <2>6. HsetTells(db) /\ SmoveTells(db)
        BY <2>2
    <2>7. QED BY <2>3, <2>4, <2>5, <2>6 DEF RepliesTellChange, HsetTells, SmoveTells
<1>2. QED BY <1>1, TableAlways, PTL

-----------------------------------------------------------------------------
(* Arrays *)

\* The reply array, filled with s.
Collected(s) == FoldLeft(addto_reply_arr, NoArr, s)

\* The array that is replied is what has been put into it, as long as it does not
\* overflow, and as long as the length that has wrapped says.
LEMMA ArrIs ==
    ASSUME NEW d, NEW S, NEW s \in Seq(S)
    PROVE  Tells(ArrReply(d, s), s)
<1> DEFINE n == Len(s)
           V == [len : 0..(ArrCap - 1), cell : [0..(ArrCap - 1) -> S \cup {None}]]
           Eq(g) == g = [t \in SUBSET (DOMAIN s) |->
                            IF t = {} THEN NoArr
                            ELSE addto_reply_arr(g[t \ {Max(t)}], s[Max(t)])]
           iter == CHOOSE g : Eq(g)
           F == [i \in 1..n |-> [a \in V |-> addto_reply_arr(a, s[i])]]
           W == [m \in 0..n |->
                   {a \in V : /\ a.len = m % ArrCap
                              /\ m < ArrCap => \A i \in 1..m : a.cell[i - 1] = s[i]}]
           arr == iter[1..n]
<1>1. n \in Nat /\ DOMAIN s = 1..n /\ \A i \in 1..n : s[i] \in S
    OBVIOUS
<1>2. ArrCap \in Nat \ {0} /\ MaxArgs \in Nat /\ MaxArgs >= ArrCap
    BY DataAssumption
<1>3. ArrReply(d, s) = Result("arr", d, [i \in 1..arr.len |-> arr.cell[i - 1]])
    <2>1. Collected(s) = iter[DOMAIN s]
        BY DEF Collected, FoldLeft, MapThenFoldSet
    <2>2. Collected(s) = arr
        <3> HIDE DEF iter
        <3>1. QED BY <1>1, <2>1
    <2>3. ArrReply(d, s) = Result("arr", d, [i \in 1..Collected(s).len |-> Collected(s).cell[i - 1]])
        BY DEF ArrReply, Collected
    <2> HIDE DEF arr
    <2>4. QED BY <2>2, <2>3
<1>4. NoArr \in V /\ NoArr.len = 0
    BY <1>2 DEF NoArr
<1> HIDE DEF n
<1>5. ASSUME NEW a \in V, NEW i \in 1..n
      PROVE  /\ addto_reply_arr(a, s[i]) \in V
             /\ addto_reply_arr(a, s[i]).len = (a.len + 1) % ArrCap
             /\ addto_reply_arr(a, s[i]).cell = [a.cell EXCEPT ![a.len] = s[i]]
    <2>1. a.len # MaxArgs
        BY <1>2
    <2>2. (a.len + 1) % ArrCap \in 0..(ArrCap - 1)
        <3>1. PICK l \in Nat : l = a.len + 1
            BY <1>2
        <3>2. QED BY <1>2, <3>1, WrapsOn
    <2>3. QED BY <1>1, <2>1, <2>2 DEF addto_reply_arr
<1> HIDE DEF V
<1>6. F \in [1..n -> [V -> V]]
    BY <1>5
<1>7. PICK g \in [SUBSET (1..n) -> V] : FoldsTo(g, n, F, NoArr)
    <2> HIDE DEF F
    <2>1. QED BY <1>1, <1>4, <1>6, FoldExists
<1>8. ASSUME NEW t \in SUBSET (1..n), t # {} PROVE Max(t) \in 1..n /\ Max(t) \in t
    BY <1>1, <1>8, MaxOfNats
<1>9. Eq(g)
    <2>1. ASSUME NEW t \in SUBSET (1..n), t # {}
          PROVE  g[t] = addto_reply_arr(g[t \ {Max(t)}], s[Max(t)])
        <3>1. Max(t) \in 1..n
            BY <1>8, <2>1
        <3>2. g[t] = F[Max(t)][g[t \ {Max(t)}]]
            BY <1>7, <2>1 DEF FoldsTo
        <3>3. g[t \ {Max(t)}] \in V
            BY <1>7
        <3>4. QED BY <3>1, <3>2, <3>3
    <2>2. g[{}] = NoArr
        BY <1>7 DEF FoldsTo
    <2>3. g = [t \in SUBSET (1..n) |-> g[t]]
        BY <1>7
    <2>4. QED BY <1>1, <2>1, <2>2, <2>3
<1>10. Eq(iter)
    <2> HIDE DEF Eq
    <2>1. QED BY <1>9
<1>11. /\ iter[{}] = NoArr
       /\ \A t \in SUBSET (1..n) : t # {} =>
             iter[t] = addto_reply_arr(iter[t \ {Max(t)}], s[Max(t)])
    <2> HIDE DEF iter
    <2>1. QED BY <1>1, <1>10
<1> HIDE DEF iter, Eq, F
<1>12. iter[{}] \in W[0]
    <2>1. 0 \in 0..n /\ 0 % ArrCap = 0 /\ 1..0 = {}
        BY <1>1, <1>2
    <2>2. QED BY <1>4, <1>11, <2>1
<1>13. ASSUME NEW m \in 1..n, iter[(1..m) \ {Max(1..m)}] \in W[m - 1]
       PROVE  iter[1..m] \in W[m]
    <2> DEFINE a == iter[(1..m) \ {Max(1..m)}]
               b == iter[1..m]
    <2>1. Max(1..m) = m /\ 1..m # {}
        BY MaxOfFirst
    <2>2. b = addto_reply_arr(a, s[m])
        <3>1. 1..m \in SUBSET (1..n)
            BY <1>1
        <3>2. iter[1..m] = addto_reply_arr(iter[(1..m) \ {Max(1..m)}], s[Max(1..m)])
            BY <1>11, <2>1, <3>1
        <3>3. QED BY <2>1, <3>2
    <2>3. m - 1 \in 0..n /\ m \in 0..n /\ m - 1 \in Nat /\ (m - 1) + 1 = m
        BY <1>1
    <2>4. /\ a \in V /\ a.len = (m - 1) % ArrCap
          /\ m - 1 < ArrCap => \A i \in 1..(m - 1) : a.cell[i - 1] = s[i]
        BY <1>13, <2>3
    <2> HIDE DEF a, b, W
    <2>5. b \in V /\ b.len = (a.len + 1) % ArrCap /\ b.cell = [a.cell EXCEPT ![a.len] = s[m]]
        BY <1>5, <2>2, <2>4
    <2>6. b.len = m % ArrCap
        <3>1. (((m - 1) % ArrCap) + 1) % ArrCap = ((m - 1) + 1) % ArrCap
            BY <1>2, <2>3, WrapsOn
        <3>2. QED BY <2>3, <2>4, <2>5, <3>1
    <2>7. ASSUME m < ArrCap, NEW i \in 1..m PROVE b.cell[i - 1] = s[i]
        <3>1. a.len = m - 1
            <4>1. m - 1 < ArrCap
                BY <1>2, <2>7
            <4>2. QED BY <1>2, <2>3, <2>4, <4>1, WrapsOn
        <3>2. a.cell \in [0..(ArrCap - 1) -> S \cup {None}]
            BY <2>4 DEF V
        <3>3. i - 1 \in 0..(ArrCap - 1) /\ m - 1 < ArrCap
            BY <1>2, <2>7
        <3>4. CASE i = m
            BY <2>5, <3>1, <3>2, <3>3, <3>4
        <3>5. CASE i # m
            <4>1. i \in 1..(m - 1) /\ i - 1 # m - 1
                BY <3>5
            <4>2. QED BY <2>4, <2>5, <3>1, <3>2, <3>3, <4>1
        <3>6. QED BY <3>4, <3>5
    <2>8. b \in W[m]
        BY <2>3, <2>5, <2>6, <2>7 DEF W
    <2>9. QED BY <2>8 DEF b
<1>14. arr \in W[n]
    <2> HIDE DEF W
    <2>1. QED BY <1>1, <1>12, <1>13, FoldClimbs
<1>15. /\ arr.len = n % ArrCap
       /\ n < ArrCap => \A i \in 1..n : arr.cell[i - 1] = s[i]
    <2> HIDE DEF arr
    <2>1. n \in 0..n
        BY <1>1
    <2>2. QED BY <1>14, <2>1
<1> HIDE DEF arr, W
<1> DEFINE val == [i \in 1..arr.len |-> arr.cell[i - 1]]
<1>16. Len(val) = n % ArrCap
    <2>1. n % ArrCap \in Nat
        BY <1>1, <1>2, WrapsOn
    <2>2. QED BY <1>15, <2>1
<1>17. n < ArrCap => val = s
    <2>1. SUFFICES ASSUME n < ArrCap PROVE val = s
        OBVIOUS
    <2>2. arr.len = n
        BY <1>1, <1>2, <1>15, <2>1, WrapsOn
    <2>3. s = [i \in 1..n |-> s[i]]
        BY <1>1
    <2>4. QED BY <1>15, <2>1, <2>2, <2>3
<1> HIDE DEF val
<1>18. ArrReply(d, s).ret = "arr" /\ ArrReply(d, s).val = val
    BY <1>3 DEF Result, val
<1>19. QED BY <1>16, <1>17, <1>18 DEF Tells, n

\* A sequence in which each thing in X is once.
Complete(order, X) ==
    /\ order \in Seq(X)
    /\ \A i, j \in DOMAIN order : order[i] = order[j] => i = j
    /\ \A x \in X : \E i \in DOMAIN order : order[i] = x

\* The orders that the table can have are such sequences.
LEMMA OrderIs ==
    ASSUME NEW X, IsFiniteSet(X),
           NEW order \in SetToAllKPermutations(X) \cap [1..Cardinality(X) -> X]
    PROVE  Complete(order, X)
<1> DEFINE n == Cardinality(X)
<1>1. n \in Nat /\ order \in [1..n -> X]
    BY FS_CardinalityType
<1>2. PICK t \in SUBSET X : order \in SetToSeqs(t)
    BY DEF SetToAllKPermutations
<1>3. \A i, j \in DOMAIN order : order[i] = order[j] => i = j
    BY <1>2 DEF SetToSeqs
<1>4. IsFiniteSet(1..n) /\ Cardinality(1..n) = n
    BY <1>1, FS_Interval
<1> HIDE DEF n
<1>5. order \in Injection(1..n, X)
    BY <1>1, <1>3 DEF Injection, IsInjective
<1>6. order \in Surjection(1..n, X)
    <2>1. Cardinality(1..n) = Cardinality(X) <=> order \in Surjection(1..n, X)
        BY <1>5, FS_Injection
    <2>2. QED BY <1>4, <2>1 DEF n
<1>7. order \in Seq(X) /\ DOMAIN order = 1..n
    BY <1>1
<1>8. QED BY <1>3, <1>6, <1>7 DEF Complete, Surjection

\* A walk finds each of what it looks for once.
LEMMA WalkedIs ==
    ASSUME NEW X, NEW order, Complete(order, X), NEW S, S \subseteq X
    PROVE  /\ Walked(order, S) \in Seq(S)
           /\ Len(Walked(order, S)) = Cardinality(S)
           /\ ToSet(Walked(order, S)) = S
<1> DEFINE n == Len(order)
           V == Seq(S)
           Add(w, x) == IF x \in S THEN Append(w, x) ELSE w
           Eq(g) == g = [t \in SUBSET (DOMAIN order) |->
                            IF t = {} THEN <<>> ELSE Add(g[t \ {Max(t)}], order[Max(t)])]
           iter == CHOOSE g : Eq(g)
           F == [i \in 1..n |-> [w \in V |-> Add(w, order[i])]]
           Found(m) == {order[i] : i \in {j \in 1..m : order[j] \in S}}
           W == [m \in 0..n |-> {w \in V : /\ IsFiniteSet(Found(m))
                                           /\ Len(w) = Cardinality(Found(m))
                                           /\ ToSet(w) = Found(m)}]
<1>1. /\ order \in Seq(X) /\ n \in Nat /\ DOMAIN order = 1..n
      /\ \A i, j \in 1..n : order[i] = order[j] => i = j
      /\ \A x \in X : \E i \in 1..n : order[i] = x
    BY DEF Complete
<1>2. Walked(order, S) = iter[1..n]
    <2>1. Walked(order, S) = iter[DOMAIN order]
        BY DEF Walked, FoldLeft, MapThenFoldSet
    <2> HIDE DEF iter
    <2>2. QED BY <1>1, <2>1
<1> HIDE DEF n
<1>3. <<>> \in V /\ \A w \in V : \A x : Add(w, x) \in V
    OBVIOUS
<1> HIDE DEF V, Add
<1>4. F \in [1..n -> [V -> V]]
    BY <1>3
<1>5. PICK g \in [SUBSET (1..n) -> V] : FoldsTo(g, n, F, <<>>)
    <2> HIDE DEF F
    <2>1. QED BY <1>1, <1>3, <1>4, FoldExists
<1>6. ASSUME NEW t \in SUBSET (1..n), t # {} PROVE Max(t) \in 1..n /\ Max(t) \in t
    BY <1>1, <1>6, MaxOfNats
<1>7. Eq(g)
    <2>1. ASSUME NEW t \in SUBSET (1..n), t # {}
          PROVE  g[t] = Add(g[t \ {Max(t)}], order[Max(t)])
        <3>1. Max(t) \in 1..n
            BY <1>6, <2>1
        <3>2. g[t] = F[Max(t)][g[t \ {Max(t)}]]
            BY <1>5, <2>1 DEF FoldsTo
        <3>3. g[t \ {Max(t)}] \in V
            BY <1>5
        <3>4. QED BY <3>1, <3>2, <3>3
    <2>2. g[{}] = <<>>
        BY <1>5 DEF FoldsTo
    <2>3. g = [t \in SUBSET (1..n) |-> g[t]]
        BY <1>5
    <2>4. QED BY <1>1, <2>1, <2>2, <2>3
<1>8. Eq(iter)
    <2> HIDE DEF Eq
    <2>1. QED BY <1>7
<1>9. /\ iter[{}] = <<>>
      /\ \A t \in SUBSET (1..n) : t # {} => iter[t] = Add(iter[t \ {Max(t)}], order[Max(t)])
    <2> HIDE DEF iter
    <2>1. QED BY <1>1, <1>8
<1> HIDE DEF iter, Eq, F
<1>10. iter[{}] \in W[0]
    <2>1. 0 \in 0..n /\ Found(0) = {} /\ Len(<<>>) = 0 /\ ToSet(<<>>) = {}
        BY <1>1 DEF ToSet
    <2> HIDE DEF Found
    <2>2. QED BY <1>3, <1>9, <2>1, FS_EmptySet
<1>11. ASSUME NEW m \in 1..n, iter[(1..m) \ {Max(1..m)}] \in W[m - 1]
       PROVE  iter[1..m] \in W[m]
    <2> DEFINE v == iter[(1..m) \ {Max(1..m)}]
               w == iter[1..m]
    <2>1. Max(1..m) = m /\ 1..m # {}
        BY MaxOfFirst
    <2>2. w = Add(v, order[m])
        <3>1. 1..m \in SUBSET (1..n)
            BY <1>1
        <3>2. iter[1..m] = Add(iter[(1..m) \ {Max(1..m)}], order[Max(1..m)])
            BY <1>9, <2>1, <3>1
        <3>3. QED BY <2>1, <3>2
    <2>3. m - 1 \in 0..n /\ m \in 0..n
        BY <1>1
    <2>4. /\ v \in Seq(S) /\ IsFiniteSet(Found(m - 1))
          /\ Len(v) = Cardinality(Found(m - 1)) /\ ToSet(v) = Found(m - 1)
        <3> HIDE DEF Found, v
        <3>1. v \in W[m - 1]
            BY <1>11 DEF v
        <3>2. QED BY <2>3, <3>1 DEF V
    <2> HIDE DEF v, w, W
    <2>5. CASE order[m] \in S
        <3>1. w = Append(v, order[m])
            BY <2>2, <2>5 DEF Add
        <3>2. Found(m) = Found(m - 1) \cup {order[m]}
            BY <1>1, <2>5
        <3>3. order[m] \notin Found(m - 1)
            BY <1>1
        <3>4. w \in Seq(S) /\ Len(w) = Len(v) + 1 /\ ToSet(w) = ToSet(v) \cup {order[m]}
            <4>1. /\ w \in Seq(S) /\ Len(w) = Len(v) + 1 /\ Len(v) \in Nat
                  /\ \A i \in 1..Len(v) : w[i] = v[i]
                  /\ w[Len(v) + 1] = order[m]
                <5>1. PICK e \in S : e = order[m]
                    BY <2>5
                <5>2. v \in Seq(S) /\ w = Append(v, e)
                    BY <2>4, <3>1, <5>1
                <5>3. QED BY <5>1, <5>2
            <4>2. DOMAIN w = 1..(Len(v) + 1) /\ DOMAIN v = 1..Len(v)
                BY <2>4, <4>1
            <4>3. 1..(Len(v) + 1) = (1..Len(v)) \cup {Len(v) + 1}
                BY <4>1
            <4>4. QED BY <4>1, <4>2, <4>3 DEF ToSet
        <3> HIDE DEF Found
        <3>5. IsFiniteSet(Found(m)) /\ Cardinality(Found(m)) = Cardinality(Found(m - 1)) + 1
            BY <2>4, <3>2, <3>3, FS_AddElement
        <3>6. QED BY <2>3, <2>4, <3>2, <3>4, <3>5 DEF W, V, w
    <2>6. CASE order[m] \notin S
        <3>1. w = v
            BY <2>2, <2>6 DEF Add
        <3>2. Found(m) = Found(m - 1)
            BY <2>6
        <3> HIDE DEF Found
        <3>3. QED BY <2>3, <2>4, <3>1, <3>2 DEF W, V, w
    <2>7. QED BY <2>5, <2>6
<1>12. iter[1..n] \in W[n]
    <2> HIDE DEF W
    <2>1. QED BY <1>1, <1>10, <1>11, FoldClimbs
<1>13. Found(n) = S
    BY <1>1
<1> HIDE DEF Found
<1>14. n \in 0..n
    BY <1>1
<1>15. QED BY <1>2, <1>12, <1>13, <1>14 DEF V

\* So that an array of what a walk finds lists it.
LEMMA WalkLists ==
    ASSUME NEW d, NEW X, NEW order, Complete(order, X), NEW S, S \subseteq X
    PROVE  ListsSet(ArrReply(d, Walked(order, S)), S)
<1> DEFINE w == Walked(order, S)
<1>1. w \in Seq(S) /\ Len(w) = Cardinality(S) /\ ToSet(w) = S
    BY WalkedIs
<1> HIDE DEF w
<1>2. Tells(ArrReply(d, w), w)
    BY <1>1, ArrIs
<1>3. QED BY <1>1, <1>2 DEF Tells, ListsSet, Lists, w

\* sinter begins with one of its sets.
LEMMA SmallestIs ==
    ASSUME NEW d, NEW keys \in Seq(Key), keys # <<>>
    PROVE  \E i \in DOMAIN keys : Smallest(d, keys) = keys[i]
<1> DEFINE n == Len(Tail(keys))
           V == {keys[i] : i \in DOMAIN keys}
           base == Head(keys)
           rest == Tail(keys)
           Less(s, k) == IF Cardinality(Fields(d[k])) < Cardinality(Fields(d[s])) THEN k ELSE s
           Eq(g) == g = [t \in SUBSET (DOMAIN rest) |->
                            IF t = {} THEN base ELSE Less(g[t \ {Max(t)}], rest[Max(t)])]
           iter == CHOOSE g : Eq(g)
           F == [i \in 1..n |-> [v \in V |-> Less(v, rest[i])]]
           W == [s \in SUBSET (1..n) |-> V]
<1>1. n \in Nat /\ DOMAIN rest = 1..n /\ base \in V /\ \A i \in 1..n : rest[i] \in V
    <2>1. Len(keys) \in Nat /\ Len(keys) >= 1 /\ DOMAIN keys = 1..Len(keys)
        BY EmptySeq
    <2>2. rest \in Seq(Key) /\ Len(rest) = Len(keys) - 1 /\ \A i \in 1..Len(rest) : rest[i] = keys[i + 1]
        BY <2>1, HeadTailProperties
    <2>3. base = keys[1] /\ 1 \in DOMAIN keys
        BY <2>1
    <2>4. ASSUME NEW i \in 1..n PROVE rest[i] \in V
        <3>1. i + 1 \in DOMAIN keys
            BY <2>1, <2>2
        <3>2. QED BY <2>2, <3>1
    <2>5. QED BY <2>1, <2>2, <2>3, <2>4
<1>2. Smallest(d, keys) = iter[1..n]
    <2>1. Smallest(d, keys) = iter[DOMAIN rest]
        BY DEF Smallest, FoldLeft, MapThenFoldSet
    <2> HIDE DEF iter
    <2>2. QED BY <1>1, <2>1
<1> HIDE DEF n, rest, base
<1>3. \A v, k \in V : Less(v, k) \in V
    <2> HIDE DEF V
    <2>1. QED OBVIOUS
<1> HIDE DEF V, Less
<1>4. F \in [1..n -> [V -> V]]
    BY <1>1, <1>3
<1>5. PICK g \in [SUBSET (1..n) -> V] : FoldsTo(g, n, F, base)
    <2> HIDE DEF F
    <2>1. QED BY <1>1, <1>4, FoldExists
<1>6. ASSUME NEW t \in SUBSET (1..n), t # {} PROVE Max(t) \in 1..n /\ Max(t) \in t
    BY <1>1, <1>6, MaxOfNats
<1>7. Eq(g)
    <2>1. ASSUME NEW t \in SUBSET (1..n), t # {}
          PROVE  g[t] = Less(g[t \ {Max(t)}], rest[Max(t)])
        <3>1. Max(t) \in 1..n
            BY <1>6, <2>1
        <3>2. g[t] = F[Max(t)][g[t \ {Max(t)}]]
            BY <1>5, <2>1 DEF FoldsTo
        <3>3. g[t \ {Max(t)}] \in V
            BY <1>5
        <3>4. QED BY <3>1, <3>2, <3>3
    <2>2. g[{}] = base
        BY <1>5 DEF FoldsTo
    <2>3. g = [t \in SUBSET (1..n) |-> g[t]]
        BY <1>5
    <2>4. QED BY <1>1, <2>1, <2>2, <2>3
<1>8. Eq(iter)
    <2> HIDE DEF Eq
    <2>1. QED BY <1>7
<1>9. /\ iter[{}] = base
      /\ \A t \in SUBSET (1..n) : t # {} => iter[t] = Less(iter[t \ {Max(t)}], rest[Max(t)])
    <2> HIDE DEF iter
    <2>1. QED BY <1>1, <1>8
<1> HIDE DEF iter, Eq, F
<1>10. iter[{}] \in W[{}]
    BY <1>1, <1>9
<1>11. ASSUME NEW s \in SUBSET (1..n), s # {}, iter[s \ {Max(s)}] \in W[s \ {Max(s)}]
       PROVE  iter[s] \in W[s]
    <2>1. iter[s \ {Max(s)}] \in V
        BY <1>11
    <2>2. Max(s) \in 1..n
        BY <1>6, <1>11
    <2>3. rest[Max(s)] \in V
        BY <1>1, <2>2
    <2>4. iter[s] = Less(iter[s \ {Max(s)}], rest[Max(s)])
        BY <1>9, <1>11
    <2>5. QED BY <1>3, <2>1, <2>3, <2>4
<1>12. iter[1..n] \in V
    <2>1. \A s \in SUBSET (1..n) : iter[s] \in W[s]
        <3> HIDE DEF W
        <3>1. QED BY <1>1, <1>10, <1>11, FoldKeeps
    <2>2. QED BY <2>1
<1>13. QED BY <1>2, <1>12 DEF V

-----------------------------------------------------------------------------
(* What the arrays list *)

\* The array of a temporary table lists the members it has.
LEMMA TempLists ==
    ASSUME NEW d, Table(d), NEW S, NEW tmp \in Clean(S), NEW order, Complete(order, Field),
           NEW found, found \subseteq Field,
           \A f \in Field : tmp.owner[f] # None <=> f \in found
    PROVE  ListsSet(TempReply(d, tmp, order), found)
<1> DEFINE s == {f \in Field : tmp.owner[f] # None}
<1>1. s = found
    OBVIOUS
<1>2. TempReply(d, tmp, order) = ArrReply(d, Walked(order, s))
    BY NothingFreed
<1> HIDE DEF s
<1>3. QED BY <1>1, <1>2, WalkLists

\* sdiff, sinter and sunion reply the difference, the intersection and the union.
LEMMA AlgebraLists ==
    ASSUME NEW d, Table(d), NEW keys \in Seq(Key), keys # <<>>,
           NEW order, Complete(order, Field), ~AnyWrongType(d, keys)
    PROVE  LET s == [i \in DOMAIN keys |-> Fields(d[keys[i]])]
           IN  /\ ListsSet(sunion_command(d, keys, order), UNION Range(s))
               /\ ListsSet(sdiff_command(d, keys, order), s[1] \ UNION Range(Tail(s)))
               /\ ListsSet(sinter_command(d, keys, order),
                           {f \in s[1] : \A i \in DOMAIN keys : f \in s[i]})
<1> DEFINE n == Len(keys)
           s == [i \in DOMAIN keys |-> Fields(d[keys[i]])]
<1>1. /\ n \in Nat /\ n >= 1 /\ DOMAIN keys = 1..n
      /\ \A i \in 1..n : keys[i] \in Key /\ Fields(d[keys[i]]) \subseteq Field
    BY EmptySeq DEF Fields
<1>2. s \in Seq(SUBSET Field) /\ Len(s) = n /\ \A i \in 1..n : s[i] = Fields(d[keys[i]])
    BY <1>1
<1>3. ASSUME NEW k, NEW f \in Field
      PROVE  AddAll(d, NoTemp, k).owner[f] = IF f \in Fields(d[k]) THEN k ELSE None
    BY DEF AddAll, NoTemp
<1>4. ListsSet(sunion_command(d, keys, order), UNION Range(s))
    <2> DEFINE tmp == United(d, NoTemp, keys)
               found == UNION Range(s)
    <2>1. NoTemp \in Clean(Key \cup {None}) /\ \A f \in Field : NoTemp.owner[f] = None
        BY DEF NoTemp, Clean
    <2>2. /\ tmp \in Clean(Key \cup {None})
          /\ \A f \in Field : tmp.owner[f] # None <=>
                NoTemp.owner[f] # None \/ \E i \in DOMAIN keys : f \in Fields(d[keys[i]])
        BY <2>1, UnitedIs
    <2>3. sunion_command(d, keys, order) = TempReply(d, tmp, order)
        BY DEF sunion_command, United, FoldLeft, MapThenFoldSet
    <2> HIDE DEF tmp
    <2>4. \A f : f \in found <=> \E i \in DOMAIN keys : f \in Fields(d[keys[i]])
        BY <1>1, <1>2 DEF Range
    <2>5. found \subseteq Field
        BY <1>1, <2>4
    <2> HIDE DEF found
    <2>6. \A f \in Field : tmp.owner[f] # None <=> f \in found
        BY <2>1, <2>2, <2>4
    <2>7. QED BY <2>2, <2>3, <2>5, <2>6, TempLists DEF found
<1>5. ListsSet(sdiff_command(d, keys, order), s[1] \ UNION Range(Tail(s)))
    <2> DEFINE k == Head(keys)
               rest == Tail(keys)
               base == AddAll(d, NoTemp, k)
               tmp == Diffed(d, base, rest)
               found == s[1] \ UNION Range(Tail(s))
    <2>1. k = keys[1] /\ rest \in Seq(Key) /\ DOMAIN rest = 1..(n - 1)
          /\ \A i \in 1..(n - 1) : rest[i] = keys[i + 1]
        BY <1>1, HeadTailProperties
    <2>2. sdiff_command(d, keys, order) = TempReply(d, tmp, order)
        BY DEF sdiff_command, Diffed, FoldLeft, MapThenFoldSet
    <2>3. base \in Clean(Key \cup {None, k})
        BY FirstIsClean
    <2>4. \A f \in Field : base.owner[f] # None <=> f \in Fields(d[k])
        <3>1. k \in Key /\ k # None
            BY <1>1, <2>1, DataAssumption
        <3> HIDE DEF k
        <3>2. QED BY <1>3, <3>1
    <2> HIDE DEF base, k, rest
    <2>5. /\ tmp \in Clean(Key \cup {None, k})
          /\ \A f \in Field : tmp.owner[f] # None <=>
                base.owner[f] # None /\ \A i \in DOMAIN rest : f \notin Fields(d[rest[i]])
        BY <2>1, <2>3, DiffedIs
    <2> HIDE DEF tmp
    <2>6. DOMAIN Tail(s) = 1..(n - 1) /\ \A i \in 1..(n - 1) : Tail(s)[i] = Fields(d[rest[i]])
        <3>1. s # <<>>
            BY <1>1, <1>2
        <3>2. Len(Tail(s)) = n - 1 /\ Tail(s) \in Seq(SUBSET Field)
              /\ \A i \in 1..(n - 1) : Tail(s)[i] = s[i + 1]
            <4> HIDE DEF s, n
            <4>1. QED BY <1>1, <1>2, <3>1, HeadTailProperties
        <3>3. \A i \in 1..(n - 1) : i + 1 \in 1..n
            BY <1>1
        <3> HIDE DEF s
        <3>4. QED BY <1>2, <2>1, <3>2, <3>3
    <2>7. s[1] = Fields(d[k]) /\ Fields(d[k]) \subseteq Field
        BY <1>1, <1>2, <2>1
    <2>8. \A f : f \in found <=>
             f \in Fields(d[k]) /\ \A i \in 1..(n - 1) : f \notin Fields(d[rest[i]])
        <3> DEFINE u == Tail(s)
        <3> HIDE DEF s, n, u
        <3>1. \A f : f \in UNION Range(u) <=> \E i \in 1..(n - 1) : f \in Fields(d[rest[i]])
            BY <2>6 DEF Range, u
        <3>2. QED BY <2>7, <3>1 DEF u
    <2>9. found \subseteq Field
        BY <2>7, <2>8
    <2> HIDE DEF found
    <2>10. \A f \in Field : tmp.owner[f] # None <=> f \in found
        BY <2>1, <2>4, <2>5, <2>8
    <2> DEFINE S == Key \cup {None, k}
    <2> HIDE DEF S
    <2>11. tmp \in Clean(S)
        BY <2>5 DEF S
    <2>12. ListsSet(TempReply(d, tmp, order), found)
        BY <2>9, <2>10, <2>11, TempLists
    <2>13. QED BY <2>2, <2>12 DEF found
<1>6. ListsSet(sinter_command(d, keys, order), {f \in s[1] : \A i \in DOMAIN keys : f \in s[i]})
    <2> DEFINE found == {f \in s[1] : \A i \in DOMAIN keys : f \in s[i]}
    <2>1. 1 \in 1..n
        BY <1>1
    <2>2. \A f : f \in found <=> \A i \in 1..n : f \in Fields(d[keys[i]])
        BY <1>1, <1>2, <2>1
    <2>3. found \subseteq Field
        BY <1>1, <2>1, <2>2
    <2> HIDE DEF found
    <2>4. CASE \E i \in DOMAIN keys : Missing(d, keys[i])
        <3>1. PICK i \in 1..n : Missing(d, keys[i])
            BY <1>1, <2>4
        <3>2. d[keys[i]] = NoObj
            BY <1>1, <3>1, GoodIs DEF Table, Missing
        <3>3. Fields(d[keys[i]]) = {}
            BY <3>2 DEF Fields, NoObj, NoFields, Obj
        <3>4. found = {}
            BY <2>2, <3>3
        <3>5. sinter_command(d, keys, order) = ArrReply(d, <<>>)
            BY <2>4 DEF sinter_command
        <3>6. <<>> \in Seq(Field) /\ Len(<<>>) = 0 /\ ToSet(<<>>) = {}
            BY DEF ToSet
        <3>7. Tells(ArrReply(d, <<>>), <<>>)
            BY <3>6, ArrIs
        <3>8. ListsSet(ArrReply(d, <<>>), {})
            BY <3>6, <3>7, FS_EmptySet DEF Tells, ListsSet, Lists
        <3>9. QED BY <3>4, <3>5, <3>8 DEF found
    <2>5. CASE ~\E i \in DOMAIN keys : Missing(d, keys[i])
        <3> DEFINE first == Smallest(d, keys)
        <3>1. PICK j \in 1..n : first = keys[j]
            BY <1>1, SmallestIs
        <3> HIDE DEF first
        <3> DEFINE base == AddAll(d, NoTemp, first)
                   tmp == Intersected(d, base, keys)
        <3>2. sinter_command(d, keys, order) = TempReply(d, tmp, order)
            BY <2>5 DEF sinter_command, Intersected, FoldLeft, MapThenFoldSet, first
        <3>3. base \in Clean(Key \cup {None, first})
            BY FirstIsClean
        <3>4. \A f \in Field : base.owner[f] # None <=> f \in Fields(d[first])
            <4>1. first \in Key /\ first # None
                BY <1>1, <3>1, DataAssumption
            <4>2. QED BY <1>3, <4>1
        <3> HIDE DEF base
        <3>5. /\ tmp \in Clean(Key \cup {None, first})
              /\ \A f \in Field : tmp.owner[f] # None <=>
                    base.owner[f] # None /\ \A i \in DOMAIN keys : f \in Fields(d[keys[i]])
            BY <3>3, IntersectedIs
        <3> HIDE DEF tmp
        <3>6. \A f \in Field : tmp.owner[f] # None <=> f \in found
            BY <1>1, <2>2, <3>1, <3>4, <3>5
        <3> DEFINE S == Key \cup {None, first}
        <3> HIDE DEF S
        <3>7. tmp \in Clean(S)
            BY <3>5 DEF S
        <3>8. ListsSet(TempReply(d, tmp, order), found)
            BY <2>3, <3>6, <3>7, TempLists
        <3>9. QED BY <3>2, <3>8 DEF found
    <2>6. QED BY <2>4, <2>5
<1>7. QED BY <1>4, <1>5, <1>6

\* What hkeys, hvals, hgetall and hmget reply of the hash of k.
HashTells(d, k, order) ==
    LET c == d[k].dict
        fields == Fields(d[k])
        all == hgetall_command(d, k, order, TRUE)
    IN  /\ ListsSet(hkeys_command(d, k, order), fields)
        /\ Lists(hvals_command(d, k, order), Cardinality(fields), {c[f] : f \in fields})
        /\ Lists(all, 2 * Cardinality(fields), fields \cup {c[f] : f \in fields})
        /\ 2 * Cardinality(fields) < ArrCap =>
              \A i \in DOMAIN all.val : i % 2 = 1 =>
                 \E f \in fields : all.val[i] = f /\ all.val[i + 1] = c[f]
        /\ Tells(hmget_command(d, k, order), [i \in DOMAIN order |-> c[order[i]]])

\* hkeys, hvals, hgetall and hmget reply the fields and the values of a hash.
LEMMA HashLists ==
    ASSUME NEW d, Table(d), NEW k \in Key, ~WrongType(d, k, "hash"),
           NEW order, Complete(order, Field)
    PROVE  HashTells(d, k, order)
<1> DEFINE c == d[k].dict
           fields == Fields(d[k])
           found == InOrder(d, k, order)
           n == Cardinality(fields)
           cells == Value \cup {None}
           vals == {c[f] : f \in fields}
           pairs == Pairs(c, found)
           all == hgetall_command(d, k, order, TRUE)
<1>1. c \in [Field -> cells] /\ fields \subseteq Field /\ IsFiniteSet(fields)
    BY GoodIs DEF Table, WrongType, Fields
<1>2. n \in Nat
    BY <1>1, FS_CardinalityType
<1>3. found \in Seq(fields) /\ Len(found) = n /\ ToSet(found) = fields
    BY <1>1, WalkedIs DEF InOrder
<1>4. /\ hkeys_command(d, k, order) = ArrReply(d, Walked(order, fields))
      /\ hvals_command(d, k, order) = ArrReply(d, [i \in DOMAIN found |-> c[found[i]]])
      /\ all = ArrReply(d, pairs)
      /\ hmget_command(d, k, order) = ArrReply(d, [i \in DOMAIN order |-> c[order[i]]])
    BY DEF hkeys_command, hkeyssmembers_command, hvals_command, hgetall_command, hmget_command, InOrder
<1> HIDE DEF all
<1>5. ListsSet(hkeys_command(d, k, order), fields)
    <2> HIDE DEF fields
    <2>1. QED BY <1>1, <1>4, WalkLists
<1> HIDE DEF c, fields, found, n, cells
<1>6. /\ DOMAIN found = 1..n
      /\ \A i \in 1..n : found[i] \in fields
      /\ \A f \in fields : \E i \in 1..n : found[i] = f
    BY <1>2, <1>3 DEF ToSet
<1>7. Lists(hvals_command(d, k, order), n, vals)
    <2> DEFINE s == [i \in DOMAIN found |-> c[found[i]]]
    <2>1. s \in Seq(cells) /\ Len(s) = n
        BY <1>1, <1>2, <1>6
    <2>2. ToSet(s) = vals
        BY <1>6 DEF ToSet
    <2>3. hvals_command(d, k, order) = ArrReply(d, s)
        BY <1>4
    <2> HIDE DEF s
    <2>4. Tells(ArrReply(d, s), s)
        BY <2>1, ArrIs
    <2>5. QED BY <2>1, <2>2, <2>3, <2>4 DEF Tells, Lists
<1>8. /\ pairs \in Seq(fields \cup cells) /\ Len(pairs) = 2 * n /\ DOMAIN pairs = 1..(2 * n)
      /\ \A i \in 1..(2 * n) : /\ (i + 1) \div 2 \in 1..n
                               /\ i % 2 = 1 => pairs[i] = found[(i + 1) \div 2]
                               /\ i % 2 # 1 => pairs[i] = c[found[(i + 1) \div 2]]
    <2>1. \A i \in 1..(2 * n) : (i + 1) \div 2 \in 1..n
        BY <1>2
    <2>2. pairs = [i \in 1..(2 * n) |-> IF i % 2 = 1 THEN found[(i + 1) \div 2]
                                        ELSE c[found[(i + 1) \div 2]]]
        BY <1>3 DEF Pairs
    <2> HIDE DEF pairs
    <2>3. \A i \in 1..(2 * n) : pairs[i] \in fields \cup cells
        BY <1>1, <1>6, <2>1, <2>2
    <2>4. 2 * n \in Nat
        BY <1>2
    <2>5. pairs \in [1..(2 * n) -> fields \cup cells]
        BY <2>2, <2>3
    <2>6. pairs \in Seq(fields \cup cells) /\ Len(pairs) = 2 * n
        BY <2>4, <2>5
    <2>7. QED BY <2>1, <2>2, <2>6
<1> HIDE DEF pairs
<1>9. Tells(all, pairs)
    BY <1>4, <1>8, ArrIs
<1>10. ToSet(pairs) = fields \cup vals
    <2>1. ASSUME NEW x \in ToSet(pairs) PROVE x \in fields \cup vals
        <3>1. PICK i \in 1..(2 * n) : x = pairs[i]
            BY <1>8, <2>1 DEF ToSet
        <3>2. PICK j \in 1..n : j = (i + 1) \div 2
            BY <1>8
        <3>3. QED BY <1>6, <1>8, <3>1, <3>2
    <2>2. ASSUME NEW f \in fields PROVE f \in ToSet(pairs) /\ c[f] \in ToSet(pairs)
        <3>1. PICK j \in 1..n : found[j] = f
            BY <1>6
        <3>2. /\ 2 * j \in 1..(2 * n) /\ (2 * j + 1) \div 2 = j /\ (2 * j) % 2 # 1
              /\ 2 * j - 1 \in 1..(2 * n) /\ ((2 * j - 1) + 1) \div 2 = j /\ (2 * j - 1) % 2 = 1
            BY <1>2
        <3>3. pairs[2 * j] = c[f] /\ pairs[2 * j - 1] = f
            BY <1>8, <3>1, <3>2
        <3>4. QED BY <1>8, <3>2, <3>3 DEF ToSet
    <2>3. QED BY <2>1, <2>2
<1>11. Lists(all, 2 * n, fields \cup vals)
    <2> HIDE DEF vals
    <2>1. QED BY <1>8, <1>9, <1>10 DEF Tells, Lists
<1>12. ASSUME 2 * n < ArrCap, NEW i \in DOMAIN all.val, i % 2 = 1
       PROVE  \E f \in fields : all.val[i] = f /\ all.val[i + 1] = c[f]
    <2>1. all.val = pairs /\ i \in 1..(2 * n)
        BY <1>8, <1>9, <1>12 DEF Tells
    <2>2. PICK j \in 1..n : j = (i + 1) \div 2
        BY <1>8, <2>1
    <2>3. i + 1 \in 1..(2 * n) /\ ((i + 1) + 1) \div 2 = j /\ (i + 1) % 2 # 1
        BY <1>2, <1>12, <2>1, <2>2
    <2>4. pairs[i] = found[j] /\ pairs[i + 1] = c[found[j]]
        BY <1>8, <1>12, <2>1, <2>2, <2>3
    <2>5. QED BY <1>6, <2>1, <2>4
<1>13. Tells(hmget_command(d, k, order), [i \in DOMAIN order |-> c[order[i]]])
    <2> DEFINE s == [i \in DOMAIN order |-> c[order[i]]]
    <2>1. s \in Seq(cells)
        BY <1>1 DEF Complete
    <2> HIDE DEF s
    <2>2. Tells(ArrReply(d, s), s)
        BY <2>1, ArrIs
    <2>3. QED BY <1>4, <2>2 DEF s
<1>14. QED BY <1>5, <1>7, <1>11, <1>12, <1>13 DEF HashTells, all, vals, c, fields, n

\* For any finite sets of keys and fields, the arrays that commands reply list what is
\* asked for, whatever order the table has, until the 8-bit length wraps: the set
\* algebra is that of sets, the pairs of hgetall are a field and its value, and past
\* the capacity the length is what is left over.
THEOREM ArraysAlwaysAgree ==
    ASSUME IsFiniteSet(Key), IsFiniteSet(Field)
    PROVE  Spec => []ArraysAgree
<1>1. TableInv => ArraysAgree
    <2>1. SUFFICES ASSUME TableInv PROVE ArraysAgree
        OBVIOUS
    <2>2. Table(db)
        BY <2>1 DEF TableInv
    <2>3. ASSUME NEW order \in Orders PROVE Complete(order, Field)
        BY <2>3, OrderIs DEF Orders
    <2>4. ASSUME NEW order \in Orders, NEW keys \in KeyArgs PROVE SetAgrees(keys, order)
        <3>1. keys \in Seq(Key) /\ keys # <<>>
            BY ArgAssumption
        <3>2. QED BY <2>2, <2>3, <2>4, <3>1, AlgebraLists DEF SetAgrees
    <2>5. ASSUME NEW order \in Orders, NEW k \in Key PROVE HashAgrees(k, order)
        <3>1. SUFFICES ASSUME ~WrongType(db, k, "hash") PROVE HashAgrees(k, order)
            BY DEF HashAgrees
        <3>2. \A f \in Field : hexists_command(db, k, f).val = IF f \in Fields(db[k]) THEN 1 ELSE 0
            BY <3>1, SizeIs DEF hexists_command
        <3>3. Complete(order, Field)
            BY <2>3
        <3>4. HashTells(db, k, order)
            BY <2>2, <3>1, <3>3, HashLists
        <3>5. QED BY <3>2, <3>4 DEF HashTells, HashAgrees
    <2>6. ASSUME NEW order \in Orders, NEW k \in Key, ~WrongType(db, k, "set")
          PROVE  ListsSet(smembers_command(db, k, order), Fields(db[k]))
        <3>1. smembers_command(db, k, order) = ArrReply(db, Walked(order, Fields(db[k])))
            BY <2>6 DEF smembers_command, hkeyssmembers_command, InOrder
        <3>2. Fields(db[k]) \subseteq Field /\ Complete(order, Field)
            BY <2>3 DEF Fields
        <3>3. QED BY <3>1, <3>2, WalkLists
    <2>7. ASSUME NEW order \in KeyOrders, NEW s \in SUBSET Key
          PROVE  ListsSet(keys_command(db, order, s), {k \in s : ~Missing(db, k)})
        <3> DEFINE there == {k \in s : ~Missing(db, k)}
        <3>1. Complete(order, Key)
            BY OrderIs DEF KeyOrders
        <3>2. keys_command(db, order, s) = ArrReply(db, Walked(order, there))
            BY DEF keys_command
        <3>3. there \subseteq Key
            OBVIOUS
        <3> HIDE DEF there
        <3>4. ListsSet(keys_command(db, order, s), there)
            BY <3>1, <3>2, <3>3, WalkLists
        <3>5. QED BY <3>4 DEF there
    <2>8. ASSUME NEW keys \in KeyArgs
          PROVE  Tells(mget_command(db, keys), [i \in DOMAIN keys |-> db[keys[i]].val])
        <3> DEFINE s == [i \in DOMAIN keys |-> db[keys[i]].val]
        <3>1. keys \in Seq(Key)
            BY ArgAssumption
        <3>2. \A k \in Key : db[k].val \in Value \cup {None}
            BY <2>2, GoodIs DEF Table
        <3>3. s \in Seq(Value \cup {None})
            BY <3>1, <3>2
        <3>4. mget_command(db, keys) = ArrReply(db, s)
            BY DEF mget_command
        <3> HIDE DEF s
        <3>5. Tells(ArrReply(db, s), s)
            BY <3>3, ArrIs
        <3>6. QED BY <3>4, <3>5 DEF s
    <2>9. QED BY <2>4, <2>5, <2>6, <2>7, <2>8 DEF ArraysAgree
<1>2. QED BY <1>1, TableAlways, PTL
=============================================================================
