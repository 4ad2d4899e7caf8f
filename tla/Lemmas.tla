------------------------------- MODULE Lemmas -------------------------------
(* Facts about numbers, sequences and folds that the proofs about several modules need. *)
EXTENDS Integers, Sequences, SequencesExt, TLAPS, SequenceTheorems, FiniteSetTheorems,
        WellFoundedInduction

\* A set of natural numbers that is not empty has a least element.
LEMMA MinOfNats ==
    ASSUME NEW S, S \subseteq Nat, S # {}
    PROVE  Min(S) \in S /\ \A y \in S : Min(S) <= y
<1>1. PICK x \in S : \A y \in S : ~(<<y, x>> \in OpToRel(<, Nat))
    BY NatLessThanWellFounded, WFMin
<1>2. ASSUME NEW y \in S PROVE x =< y
    <2>1. <<y, x>> \notin {ss \in Nat \X Nat : ss[1] < ss[2]}
        BY <1>1 DEF OpToRel
    <2>2. <<y, x>> \in Nat \X Nat
        OBVIOUS
    <2>3. QED BY <2>1, <2>2
<1>3. QED BY <1>2 DEF Min

\* Removing position i of a sequence shifts what follows it by one.
LEMMA RemoveAtIs ==
    ASSUME NEW S, NEW s \in Seq(S), NEW n \in 1..Len(s)
    PROVE  /\ RemoveAt(s, n) \in Seq(S)
           /\ Len(RemoveAt(s, n)) = Len(s) - 1
           /\ \A i \in 1..(Len(s) - 1) :
                 RemoveAt(s, n)[i] = IF i < n THEN s[i] ELSE s[i + 1]
<1> DEFINE u == SubSeq(s, 1, n - 1)
           v == SubSeq(s, n + 1, Len(s))
<1>1. Len(s) \in Nat
    OBVIOUS
<1>2. u \in Seq(S) /\ Len(u) = n - 1 /\ \A i \in 1..(n - 1) : u[i] = s[i]
    BY <1>1, SubSeqProperties
<1>3. /\ v \in Seq(S)
      /\ Len(v) = Len(s) - n
      /\ \A i \in 1..(Len(s) - n) : v[i] = s[n + i]
    BY <1>1, SubSeqProperties
<1> HIDE DEF u, v
<1>4. /\ u \o v \in Seq(S)
      /\ Len(u \o v) = Len(s) - 1
    <2>1. u \in Seq(S) /\ v \in Seq(S)
        BY <1>2, <1>3
    <2>2. u \o v \in Seq(S) /\ Len(u \o v) = Len(u) + Len(v)
        BY <2>1, ConcatProperties
    <2>3. Len(u) = n - 1 /\ Len(v) = Len(s) - n
        BY <1>2, <1>3
    <2>4. QED BY <1>1, <2>2, <2>3
<1>5. ASSUME NEW i \in 1..(Len(s) - 1)
      PROVE  (u \o v)[i] = IF i < n THEN s[i] ELSE s[i + 1]
    <2>1. i \in 1..(Len(u) + Len(v))
        BY <1>1, <1>2, <1>3
    <2>2. (u \o v)[i] = IF i <= Len(u) THEN u[i] ELSE v[i - Len(u)]
        BY <1>2, <1>3, <2>1, ConcatProperties
    <2>3. CASE i < n
        BY <1>1, <1>2, <2>2, <2>3
    <2>4. CASE ~(i < n)
        <3>1. (u \o v)[i] = v[i - (n - 1)]
            BY <1>1, <1>2, <2>2, <2>4
        <3>2. i - (n - 1) \in 1..(Len(s) - n) /\ n + (i - (n - 1)) = i + 1
            BY <1>1, <2>4
        <3>3. QED BY <1>3, <2>4, <3>1, <3>2
    <2>5. QED BY <2>3, <2>4
<1>6. QED BY <1>4, <1>5 DEF RemoveAt, u, v

\* t has the first p elements of s, then those of m, then those of s from q on.
IsSplice(t, s, p, q, m) ==
    LET n == Len(m)
    IN  /\ Len(t) = p + n + (Len(s) - q + 1)
        /\ \A r \in 1..(p + n + (Len(s) - q + 1)) :
              t[r] = IF r <= p THEN s[r]
                     ELSE IF r <= p + n THEN m[r - p] ELSE s[q + (r - p - n) - 1]

\* The first p elements of a sequence, then others, then the elements from q on.
LEMMA SpliceIs ==
    ASSUME NEW S, NEW s \in Seq(S), NEW p \in 0..Len(s), NEW q \in 1..(Len(s) + 1),
           NEW m \in Seq(S)
    PROVE  LET t == SubSeq(s, 1, p) \o m \o SubSeq(s, q, Len(s))
           IN  t \in Seq(S) /\ IsSplice(t, s, p, q, m)
<1> DEFINE u == SubSeq(s, 1, p)
           v == SubSeq(s, q, Len(s))
           w == u \o m
           n == Len(m)
           l == Len(s)
<1>1. l \in Nat /\ n \in Nat /\ p \in 0..l /\ q \in 1..(l + 1) /\ \A x \in 1..l : s[x] \in S
    OBVIOUS
<1>2. u \in Seq(S) /\ Len(u) = p /\ \A r \in 1..p : u[r] = s[r]
    BY <1>1, SubSeqProperties
<1>3. v \in Seq(S) /\ Len(v) = l - q + 1 /\ \A r \in 1..(l - q + 1) : v[r] = s[q + r - 1]
    <2>1. \A x \in q..l : s[x] \in S
        BY <1>1
    <2>2. /\ SubSeq(s, q, l) \in Seq(S)
          /\ Len(SubSeq(s, q, l)) = IF q <= l THEN l - q + 1 ELSE 0
          /\ \A r \in 1..(l - q + 1) : SubSeq(s, q, l)[r] = s[q + r - 1]
        BY <1>1, <2>1, SubSeqProperties
    <2> HIDE DEF l
    <2>3. ~(q <= l) => l - q + 1 = 0
        BY <1>1
    <2>4. QED BY <2>2, <2>3 DEF l
<1> HIDE DEF u, v, n, l
<1>4. /\ w \in Seq(S) /\ Len(w) = p + n
      /\ \A r \in 1..(p + n) : w[r] = IF r <= p THEN u[r] ELSE m[r - p]
    BY <1>2, ConcatProperties DEF n
<1> HIDE DEF w
<1>5. /\ w \o v \in Seq(S) /\ Len(w \o v) = p + n + (l - q + 1)
      /\ \A r \in 1..(p + n + (l - q + 1)) :
            (w \o v)[r] = IF r <= p + n THEN w[r] ELSE v[r - (p + n)]
    <2>1. w \in Seq(S) /\ v \in Seq(S) /\ Len(w) = p + n /\ Len(v) = l - q + 1
        BY <1>3, <1>4
    <2>2. /\ w \o v \in Seq(S) /\ Len(w \o v) = Len(w) + Len(v)
          /\ \A r \in 1..(Len(w) + Len(v)) :
                (w \o v)[r] = IF r <= Len(w) THEN w[r] ELSE v[r - Len(w)]
        BY <2>1, ConcatProperties
    <2>3. QED BY <2>1, <2>2
<1>6. ASSUME NEW r \in 1..(p + n + (l - q + 1))
      PROVE  (w \o v)[r] = IF r <= p THEN s[r]
                           ELSE IF r <= p + n THEN m[r - p] ELSE s[q + (r - p - n) - 1]
    <2>1. CASE r <= p + n
        <3>1. r \in 1..(p + n) /\ (r <= p => r \in 1..p)
            BY <1>1, <2>1
        <3>2. QED BY <1>2, <1>4, <1>5, <2>1, <3>1
    <2>2. CASE ~(r <= p + n)
        <3>1. r - (p + n) \in 1..(l - q + 1) /\ r - (p + n) = r - p - n /\ ~(r <= p)
            BY <1>1, <2>2
        <3>2. (w \o v)[r] = s[q + (r - (p + n)) - 1]
            BY <1>3, <1>5, <2>2, <3>1
        <3>3. QED BY <2>2, <3>1, <3>2
    <2>3. QED BY <2>1, <2>2
<1>7. QED BY <1>5, <1>6 DEF u, v, w, n, l, IsSplice

-----------------------------------------------------------------------------
(* Folds.  The operation of a FoldLeft is a function here, of the place and of  *)
(* the value so far, so that these lemmas speak of every fold.                  *)

\* A set of numbers up to n that is not empty has a largest element.
LEMMA MaxOfNats ==
    ASSUME NEW n \in Nat, NEW S, S \subseteq 1..n, S # {}
    PROVE  Max(S) \in S /\ \A y \in S : y <= Max(S)
<1> DEFINE T == {n - x : x \in S}
<1>1. T \subseteq Nat /\ T # {}
    <2>1. ASSUME NEW x \in S PROVE n - x \in Nat
        OBVIOUS
    <2>2. QED BY <2>1
<1>2. Min(T) \in T /\ \A y \in T : Min(T) <= y
    BY <1>1, MinOfNats
<1>3. PICK x \in S : Min(T) = n - x
    BY <1>2
<1>4. \A y \in S : x >= y
    <2>1. TAKE y \in S
    <2>2. n - x <= n - y
        BY <1>2, <1>3
    <2>3. QED BY <2>2
<1>5. QED BY <1>4 DEF Max

LEMMA MaxOfFirst ==
    ASSUME NEW m \in Nat \ {0}
    PROVE  1..m # {} /\ Max(1..m) = m
<1>1. m \in Nat /\ m \in 1..m
    OBVIOUS
<1>2. 1..m \subseteq 1..m /\ 1..m # {}
    BY <1>1
<1>3. Max(1..m) \in 1..m /\ \A y \in 1..m : y <= Max(1..m)
    BY <1>1, <1>2, MaxOfNats
<1>4. m <= Max(1..m) /\ m \in 1..m
    BY <1>1, <1>3
<1>5. QED BY <1>2, <1>3, <1>4

\* g is the recursion behind FoldLeft over the places 1..n, which takes the last
\* place first: F is the operation, at a place and on a value.
FoldsTo(g, n, F, base) ==
    \A s \in SUBSET (1..n) : g[s] = IF s = {} THEN base ELSE F[Max(s)][g[s \ {Max(s)}]]

\* There is such a recursion.
LEMMA FoldExists ==
    ASSUME NEW n \in Nat, NEW V, NEW base \in V, NEW F \in [1..n -> [V -> V]]
    PROVE  \E g \in [SUBSET (1..n) -> V] : FoldsTo(g, n, F, base)
<1> DEFINE Good(m) == \E g \in [SUBSET (1..m) -> V] : FoldsTo(g, m, F, base)
           Bad == {m \in 0..n : ~Good(m)}
<1>1. SUFFICES ASSUME Bad # {} PROVE FALSE
    <2>1. n \in 0..n
        OBVIOUS
    <2>2. Good(n)
        BY <1>1, <2>1
    <2>3. QED BY <2>2
<1>2. PICK m \in Bad : \A y \in Bad : m <= y
    <2>1. Bad \subseteq Nat
        OBVIOUS
    <2> HIDE DEF Bad
    <2>2. QED BY <1>1, <2>1, MinOfNats
<1>3. m # 0
    <2>1. SUFFICES Good(0)
        BY <1>2
    <2>2. [s \in SUBSET (1..0) |-> base] \in [SUBSET (1..0) -> V]
        OBVIOUS
    <2>3. SUBSET (1..0) = {{}}
        OBVIOUS
    <2>4. FoldsTo([s \in SUBSET (1..0) |-> base], 0, F, base)
        BY <2>3 DEF FoldsTo
    <2>5. QED BY <2>2, <2>4
<1>4. m \in 1..n /\ m - 1 \in 0..n /\ m - 1 < m
    <2>1. m \in 0..n
        BY <1>2
    <2>2. QED BY <1>3, <2>1
<1>5. PICK h \in [SUBSET (1..(m - 1)) -> V] : FoldsTo(h, m - 1, F, base)
    <2>1. m - 1 \notin Bad
        <3> HIDE DEF Bad
        <3>1. m - 1 \in Bad => m <= m - 1
            BY <1>2
        <3>2. QED BY <1>4, <3>1
    <2>2. QED BY <1>4, <2>1
<1> HIDE DEF Bad
<1> DEFINE g == [s \in SUBSET (1..m) |-> IF m \in s THEN F[m][h[s \ {m}]] ELSE h[s]]
<1>6. ASSUME NEW s \in SUBSET (1..m)
      PROVE  /\ m \in s => s \ {m} \in SUBSET (1..(m - 1))
             /\ m \notin s => s \in SUBSET (1..(m - 1))
    BY <1>4
<1>7. g \in [SUBSET (1..m) -> V]
    <2>1. ASSUME NEW s \in SUBSET (1..m) PROVE g[s] \in V
        <3>1. CASE m \in s
            BY <1>4, <1>5, <1>6, <3>1
        <3>2. CASE m \notin s
            BY <1>5, <1>6, <3>2
        <3>3. QED BY <3>1, <3>2
    <2>2. QED BY <2>1
<1>8. ASSUME NEW s \in SUBSET (1..m), s # {}
      PROVE  g[s] = F[Max(s)][g[s \ {Max(s)}]]
    <2>1. Max(s) \in s /\ \A y \in s : y <= Max(s)
        <3>1. m \in Nat /\ s \subseteq 1..m
            BY <1>4
        <3>2. QED BY <1>8, <3>1, MaxOfNats
    <2>2. CASE m \in s
        <3>1. Max(s) = m
            <4>1. m <= Max(s) /\ Max(s) \in 1..m
                BY <2>1, <2>2
            <4>2. QED BY <1>4, <4>1
        <3>2. g[s \ {m}] = h[s \ {m}]
            BY <1>6, <2>2
        <3>3. QED BY <2>2, <3>1, <3>2
    <2>3. CASE m \notin s
        <3>1. s \in SUBSET (1..(m - 1)) /\ s \ {Max(s)} \in SUBSET (1..(m - 1))
            BY <1>6, <2>3
        <3>2. g[s] = h[s] /\ g[s \ {Max(s)}] = h[s \ {Max(s)}]
            BY <2>3, <3>1
        <3>3. QED BY <1>5, <1>8, <3>1, <3>2 DEF FoldsTo
    <2>4. QED BY <2>2, <2>3
<1>9. g[{}] = base
    BY <1>4, <1>5 DEF FoldsTo
<1>10. Good(m)
    <2> HIDE DEF g
    <2>1. QED BY <1>7, <1>8, <1>9 DEF FoldsTo
<1>11. QED BY <1>2, <1>10 DEF Bad

\* What holds of the base and is kept by every step holds of the result: W is what
\* should hold of the fold over the places in s.
LEMMA FoldKeeps ==
    ASSUME NEW n \in Nat, NEW g, NEW W, g[{}] \in W[{}],
           \A s \in SUBSET (1..n) :
               s # {} /\ g[s \ {Max(s)}] \in W[s \ {Max(s)}] => g[s] \in W[s]
    PROVE  \A s \in SUBSET (1..n) : g[s] \in W[s]
<1> DEFINE Bad == {m \in 0..n : \E s \in SUBSET (1..m) : g[s] \notin W[s]}
<1>1. SUFFICES ASSUME Bad # {} PROVE FALSE
    OBVIOUS
<1>2. PICK m \in Bad : \A y \in Bad : m <= y
    <2>1. Bad \subseteq Nat
        OBVIOUS
    <2> HIDE DEF Bad
    <2>2. QED BY <1>1, <2>1, MinOfNats
<1>3. PICK s \in SUBSET (1..m) : g[s] \notin W[s]
    BY <1>2
<1>4. m \in 0..n /\ s # {} /\ s \in SUBSET (1..n)
    <2>1. m \in 0..n
        BY <1>2
    <2>2. CASE s = {}
        BY <1>3, <2>2
    <2>3. s \in SUBSET (1..n)
        BY <1>3, <2>1
    <2>4. QED BY <2>1, <2>2, <2>3
<1>5. Max(s) \in s /\ \A y \in s : y <= Max(s)
    BY <1>4, MaxOfNats
<1>6. m - 1 \in 0..n /\ s \ {Max(s)} \in SUBSET (1..(m - 1))
    <2>1. Max(s) \in 1..m
        BY <1>3, <1>5
    <2>2. ASSUME NEW y \in s \ {Max(s)} PROVE y \in 1..(m - 1)
        <3>1. y \in 1..m /\ y <= Max(s) /\ y # Max(s)
            BY <1>3, <1>5
        <3>2. QED BY <1>4, <2>1, <3>1
    <2>3. m - 1 \in 0..n
        BY <1>4, <2>1
    <2>4. s \ {Max(s)} \subseteq 1..(m - 1)
        BY <2>2
    <2>5. QED BY <2>3, <2>4
<1>7. m - 1 \notin Bad
    BY <1>2
<1>8. QED BY <1>3, <1>4, <1>6, <1>7

\* What holds of 0 and goes from each number to the next holds of all up to n.
LEMMA Climb ==
    ASSUME NEW n \in Nat, NEW T, 0 \in T, \A m \in 1..n : m - 1 \in T => m \in T
    PROVE  n \in T
<1> DEFINE Bad == (0..n) \ T
<1>1. SUFFICES ASSUME n \notin T PROVE FALSE
    OBVIOUS
<1>2. Bad \subseteq Nat /\ Bad # {}
    BY <1>1
<1>3. PICK m \in Bad : \A y \in Bad : m <= y
    <2> HIDE DEF Bad
    <2>1. QED BY <1>2, MinOfNats
<1>4. m \in 1..n /\ m - 1 \in 0..n /\ m - 1 < m
    <2>1. m \in 0..n /\ m # 0
        BY <1>3
    <2>2. QED BY <2>1
<1>5. m - 1 \in T
    BY <1>3, <1>4
<1>6. QED BY <1>3, <1>4, <1>5

\* The recursion behind FoldLeft, seen from the front: W is what should hold of the fold
\* over the first places.
LEMMA FoldClimbs ==
    ASSUME NEW n \in Nat, NEW g, NEW W, g[{}] \in W[0],
           \A m \in 1..n : g[(1..m) \ {Max(1..m)}] \in W[m - 1] => g[1..m] \in W[m]
    PROVE  g[1..n] \in W[n]
<1> DEFINE T == {m \in 0..n : g[1..m] \in W[m]}
<1>1. 0 \in T
    <2>1. 1..0 = {}
        OBVIOUS
    <2>2. QED BY <2>1
<1>2. ASSUME NEW m \in 1..n, m - 1 \in T PROVE m \in T
    <2>1. Max(1..m) = m
        BY MaxOfFirst
    <2>2. (1..m) \ {m} = 1..(m - 1)
        OBVIOUS
    <2>3. g[1..(m - 1)] \in W[m - 1]
        BY <1>2
    <2>4. g[1..m] \in W[m]
        BY <2>1, <2>2, <2>3
    <2>5. QED BY <2>4
<1> HIDE DEF T
<1>3. n \in T
    BY <1>1, <1>2, Climb
<1>4. QED BY <1>3 DEF T

\* Counting on with a counter that wraps.
LEMMA WrapsOn ==
    ASSUME NEW a \in Nat, NEW c \in Nat \ {0}
    PROVE  /\ a % c \in 0..(c - 1)
           /\ ((a % c) + 1) % c = (a + 1) % c
           /\ a < c => a % c = a
<1>1. a % c \in 0..(c - 1)
    OBVIOUS
<1>2. ((a % c) + 1) % c = (a + 1) % c
    <2> DEFINE q == a \div c
               r == a % c
               p == (a + 1) \div c
               u == (a + 1) % c
    <2>1. q \in Nat /\ a = c * q + r /\ r \in 0..(c - 1)
        OBVIOUS
    <2>2. p \in Nat /\ a + 1 = c * p + u /\ u \in 0..(c - 1)
        OBVIOUS
    <2> HIDE DEF q, r, p, u
    <2>3. c * (p - q) = r + 1 - u
        BY <2>1, <2>2
    <2>4. r + 1 - u <= c /\ r + 1 - u > -c
        BY <2>1, <2>2
    <2>5. p - q \in {0, 1}
        <3>1. PICK x \in Int : x = p - q
            BY <2>1, <2>2
        <3>2. c * x <= c /\ c * x > -c
            BY <2>3, <2>4, <3>1
        <3>3. ~(x >= 2) /\ ~(x <= -1)
            BY <3>2
        <3>4. QED BY <3>1, <3>3
    <2>6. (r + 1) % c = u
        <3>1. CASE p - q = 0
            <4>1. r + 1 = u
                BY <2>1, <2>2, <2>3, <3>1
            <4>2. QED BY <2>2, <4>1
        <3>2. CASE p - q = 1
            <4>1. r + 1 = c /\ u = 0
                BY <2>1, <2>2, <2>3, <3>2
            <4>2. QED BY <4>1
        <3>3. QED BY <2>5, <3>1, <3>2
    <2>7. QED BY <2>6 DEF r, u
<1>3. a < c => a % c = a
    OBVIOUS
<1>4. QED BY <1>1, <1>2, <1>3

\* The last elements of a sequence, as many as a counter that wraps has counted.
LastOf(s, c) ==
    LET n == Len(s)
    IN  SubSeq(s, n - (n % c) + 1, n)

LEMMA LastOnes ==
    ASSUME NEW S, NEW s \in Seq(S), NEW c \in Nat \ {0}
    PROVE  /\ LastOf(s, c) \in Seq(S)
           /\ Len(LastOf(s, c)) = Len(s) % c
           /\ Len(LastOf(s, c)) <= Len(s)
           /\ \A r \in 1..Len(LastOf(s, c)) :
                  LastOf(s, c)[r] = s[Len(s) - Len(LastOf(s, c)) + r]
<1> DEFINE n == Len(s)
<1>1. PICK u \in Nat : u = n % c /\ u <= n
    <2>1. n \in Nat
        OBVIOUS
    <2>2. n % c \in 0..(c - 1) /\ (n < c => n % c = n)
        BY <2>1, WrapsOn
    <2>3. PICK u \in 0..(c - 1) : u = n % c
        BY <2>2
    <2>4. u \in Nat /\ u <= n
        BY <2>1, <2>2, <2>3
    <2>5. QED BY <2>3, <2>4
<1>2. PICK m \in Int : m = n - u + 1
    <2>1. n - u + 1 \in Int
        BY <1>1
    <2>2. QED BY <2>1
<1>3. n \in Nat /\ n \in Int /\ m >= 1 /\ \A x \in m..n : s[x] \in S
    BY <1>1, <1>2
<1> DEFINE t == SubSeq(s, m, n)
<1>4. /\ t \in Seq(S)
      /\ Len(t) = IF m <= n THEN n - m + 1 ELSE 0
      /\ \A x \in 1..(n - m + 1) : t[x] = s[m + x - 1]
    BY <1>3, SubSeqProperties
<1> HIDE DEF t
<1>5. Len(t) = u
    BY <1>1, <1>2, <1>3, <1>4
<1>6. ASSUME NEW r \in 1..u PROVE t[r] = s[n - u + r]
    <2>1. r \in 1..(n - m + 1) /\ m + r - 1 = n - u + r
        BY <1>1, <1>2, <1>3
    <2>2. QED BY <1>4, <2>1
<1>7. LastOf(s, c) = t
    BY <1>1, <1>2 DEF t, LastOf
<1>8. QED BY <1>1, <1>4, <1>5, <1>6, <1>7

-----------------------------------------------------------------------------
(* Sums over finite sets *)

\* g is the recursion behind SumFunctionOnSet of f over the subsets of S.
SumsTo(g, f, S) ==
    \A s \in SUBSET S :
        g[s] = IF s = {} THEN 0
               ELSE LET x == CHOOSE x \in s : TRUE IN f[x] + g[s \ {x}]

\* A set of subsets of a finite set that is not empty has a member without a smaller one
\* that lacks one of its elements.
LEMMA SmallestSubset ==
    ASSUME NEW S, IsFiniteSet(S), NEW B, B \subseteq SUBSET S, B # {}
    PROVE  \E s \in B : \A x \in s : s \ {x} \notin B
<1> DEFINE C == {Cardinality(s) : s \in B}
<1>1. \A s \in B : IsFiniteSet(s) /\ Cardinality(s) \in Nat
    BY FS_CardinalityType, FS_Subset
<1>2. C \subseteq Nat /\ C # {}
    BY <1>1
<1>3. Min(C) \in C /\ \A y \in C : Min(C) <= y
    <2> HIDE DEF C
    <2>1. QED BY <1>2, MinOfNats
<1>4. PICK s \in B : Min(C) = Cardinality(s)
    BY <1>3
<1>5. ASSUME NEW x \in s, s \ {x} \in B PROVE FALSE
    <2>1. IsFiniteSet(s) /\ Cardinality(s) \in Nat
        BY <1>1
    <2>2. Cardinality(s \ {x}) = Cardinality(s) - 1
        BY <2>1, FS_RemoveElement
    <2>3. Cardinality(s) <= Cardinality(s \ {x})
        BY <1>3, <1>4, <1>5
    <2>4. QED BY <2>1, <2>2, <2>3
<1>6. QED BY <1>5

\* There is such a recursion.
LEMMA SumExists ==
    ASSUME NEW S, IsFiniteSet(S), NEW f \in [S -> Int]
    PROVE  \E g \in [SUBSET S -> Int] : SumsTo(g, f, S)
<1> DEFINE Layer(m) == {s \in SUBSET S : Cardinality(s) <= m}
           Pick(s) == CHOOSE x \in s : TRUE
           Good(m) == \E g \in [Layer(m) -> Int] :
                         \A s \in Layer(m) :
                            g[s] = IF s = {} THEN 0 ELSE f[Pick(s)] + g[s \ {Pick(s)}]
           n == Cardinality(S)
           Bad == {m \in 0..n : ~Good(m)}
<1>1. n \in Nat
    BY FS_CardinalityType
<1>2. ASSUME NEW s \in SUBSET S
      PROVE  /\ IsFiniteSet(s) /\ Cardinality(s) \in Nat /\ Cardinality(s) <= n
             /\ (Cardinality(s) = 0 <=> s = {})
    <2>1. IsFiniteSet(s) /\ Cardinality(s) \in Nat /\ Cardinality(s) <= n
        BY FS_CardinalityType, FS_Subset
    <2>2. QED BY <2>1, FS_EmptySet
<1>3. Layer(n) = SUBSET S
    <2> HIDE DEF n
    <2>1. \A s \in SUBSET S : Cardinality(s) <= n
        BY <1>2
    <2>2. QED BY <2>1
<1>4. ASSUME NEW s \in SUBSET S, s # {}
      PROVE  Pick(s) \in s /\ Cardinality(s \ {Pick(s)}) = Cardinality(s) - 1
    <2>1. Pick(s) \in s
        BY <1>4
    <2> HIDE DEF Pick
    <2>2. IsFiniteSet(s)
        BY <1>2
    <2>3. Cardinality(s \ {Pick(s)}) = Cardinality(s) - 1
        BY <2>1, <2>2, FS_RemoveElement
    <2>4. QED BY <2>1, <2>3
<1> HIDE DEF Pick
<1>5. SUFFICES ASSUME Bad # {} PROVE FALSE
    <2>1. n \in 0..n
        BY <1>1
    <2>2. Good(n)
        BY <1>5, <2>1
    <2>3. PICK g \in [SUBSET S -> Int] :
              \A s \in SUBSET S : g[s] = IF s = {} THEN 0 ELSE f[Pick(s)] + g[s \ {Pick(s)}]
        BY <1>3, <2>2
    <2>4. SumsTo(g, f, S)
        BY <2>3 DEF SumsTo, Pick
    <2>5. QED BY <2>4
<1> HIDE DEF n
<1>6. PICK m \in Bad : \A y \in Bad : m <= y
    <2>1. Bad \subseteq Nat
        BY <1>1
    <2> HIDE DEF Bad
    <2>2. QED BY <1>5, <2>1, MinOfNats
<1>7. m # 0
    <2>1. SUFFICES Good(0)
        <3> HIDE DEF Good
        <3>1. QED BY <1>6
    <2>2. Layer(0) = {{}}
        <3>1. ASSUME NEW s \in SUBSET S PROVE Cardinality(s) <= 0 <=> s = {}
            <4>1. Cardinality(s) \in Nat /\ (Cardinality(s) = 0 <=> s = {})
                BY <1>2
            <4>2. QED BY <4>1
        <3>2. QED BY <3>1
    <2> HIDE DEF Layer
    <2>3. [s \in Layer(0) |-> 0] \in [Layer(0) -> Int]
        OBVIOUS
    <2>4. \A s \in Layer(0) : [t \in Layer(0) |-> 0][s] = 0 /\ s = {}
        BY <2>2
    <2>5. QED BY <2>3, <2>4
<1>8. m \in 1..n /\ m - 1 \in 0..n
    BY <1>1, <1>6, <1>7
<1>9. Good(m - 1)
    <2>1. m - 1 \notin Bad
        <3> HIDE DEF Bad
        <3>1. m - 1 \in Bad => m <= m - 1
            BY <1>6
        <3>2. QED BY <1>8, <3>1
    <2>2. QED BY <1>8, <2>1
<1>10. PICK h \in [Layer(m - 1) -> Int] :
          \A s \in Layer(m - 1) :
             h[s] = IF s = {} THEN 0 ELSE f[Pick(s)] + h[s \ {Pick(s)}]
    BY <1>9
<1>11. ~Good(m)
    BY <1>6
<1> DEFINE g == [s \in Layer(m) |-> IF s \in Layer(m - 1) THEN h[s]
                                    ELSE f[Pick(s)] + h[s \ {Pick(s)}]]
<1>12. ASSUME NEW s \in Layer(m), s # {}
       PROVE  /\ s \in SUBSET S /\ Pick(s) \in S
              /\ s \ {Pick(s)} \in Layer(m - 1) /\ s \ {Pick(s)} \in Layer(m)
    <2>1. s \in SUBSET S /\ Cardinality(s) <= m /\ Cardinality(s) \in Nat
        <3>1. s \in SUBSET S /\ Cardinality(s) <= m
            OBVIOUS
        <3> HIDE DEF Layer
        <3>2. QED BY <1>2, <3>1
    <2>2. Pick(s) \in s /\ Cardinality(s \ {Pick(s)}) = Cardinality(s) - 1
        BY <1>4, <1>12, <2>1
    <2>3. Cardinality(s \ {Pick(s)}) <= m - 1 /\ Cardinality(s \ {Pick(s)}) <= m
        BY <1>8, <2>1, <2>2
    <2>4. s \ {Pick(s)} \in SUBSET S
        BY <2>1
    <2>5. QED BY <2>1, <2>2, <2>3, <2>4
<1>13. {} \in Layer(m - 1)
    <2>1. Cardinality({}) = 0 /\ 0 <= m - 1
        BY <1>8, FS_EmptySet
    <2>2. QED BY <2>1
<1> HIDE DEF Layer
<1>14. g \in [Layer(m) -> Int]
    <2>1. ASSUME NEW s \in Layer(m) PROVE g[s] \in Int
        <3>1. CASE s \in Layer(m - 1)
            BY <1>10, <3>1
        <3>2. CASE s \notin Layer(m - 1)
            <4>1. Pick(s) \in S /\ s \ {Pick(s)} \in Layer(m - 1)
                BY <1>12, <1>13, <3>2
            <4>2. f[Pick(s)] \in Int /\ h[s \ {Pick(s)}] \in Int
                BY <1>10, <4>1
            <4>3. QED BY <3>2, <4>2
        <3>3. QED BY <3>1, <3>2
    <2>2. QED BY <2>1
<1>15. ASSUME NEW s \in Layer(m)
       PROVE  g[s] = IF s = {} THEN 0 ELSE f[Pick(s)] + g[s \ {Pick(s)}]
    <2>1. s # {} => g[s \ {Pick(s)}] = h[s \ {Pick(s)}]
        BY <1>12
    <2>2. CASE s \in Layer(m - 1)
        BY <1>10, <2>1, <2>2
    <2>3. CASE s \notin Layer(m - 1)
        BY <1>13, <2>1, <2>3
    <2>4. QED BY <2>2, <2>3
<1>16. Good(m)
    <2> HIDE DEF g
    <2>1. QED BY <1>14, <1>15
<1>17. QED BY <1>11, <1>16

\* The sum of a function is what this recursion ends with.
LEMMA SumUnfolds ==
    ASSUME NEW S, IsFiniteSet(S), NEW f \in [S -> Int]
    PROVE  \E g \in [SUBSET S -> Int] : SumsTo(g, f, S) /\ SumFunctionOnSet(f, S) = g[S]
<1> DEFINE Pick(s) == CHOOSE x \in s : TRUE
           Eq(g) == g = [s \in SUBSET S |-> IF s = {} THEN 0 ELSE f[Pick(s)] + g[s \ {Pick(s)}]]
           iter == CHOOSE g : Eq(g)
<1>1. SumFunctionOnSet(f, S) = iter[S]
    BY DEF SumFunctionOnSet, FoldFunctionOnSet, MapThenFoldSet
<1>2. PICK h \in [SUBSET S -> Int] : SumsTo(h, f, S)
    BY SumExists
<1>3. Eq(h)
    <2>1. h = [s \in SUBSET S |-> h[s]]
        BY <1>2
    <2>2. ASSUME NEW s \in SUBSET S PROVE h[s] = IF s = {} THEN 0 ELSE f[Pick(s)] + h[s \ {Pick(s)}]
        BY <1>2 DEF SumsTo
    <2> HIDE DEF Pick
    <2>3. QED BY <2>1, <2>2
<1>4. Eq(iter)
    <2> HIDE DEF Eq
    <2>1. QED BY <1>3
<1>5. \A s \in SUBSET S : iter[s] = IF s = {} THEN 0 ELSE f[Pick(s)] + iter[s \ {Pick(s)}]
    <2> HIDE DEF iter, Pick
    <2>1. QED BY <1>4
<1>6. SumsTo(iter, f, S)
    <2> HIDE DEF iter
    <2>1. QED BY <1>5 DEF SumsTo, Pick
<1> HIDE DEF iter, Eq
<1>7. \A s \in SUBSET S : iter[s] = h[s]
    <2> DEFINE B == {s \in SUBSET S : iter[s] # h[s]}
    <2>1. SUFFICES ASSUME B # {} PROVE FALSE
        OBVIOUS
    <2>2. PICK s \in B : \A x \in s : s \ {x} \notin B
        <3>1. B \subseteq SUBSET S
            OBVIOUS
        <3> HIDE DEF B
        <3>2. QED BY <2>1, <3>1, SmallestSubset
    <2>3. s # {}
        BY <1>2, <1>6, <2>2 DEF SumsTo
    <2>4. Pick(s) \in s
        BY <2>3
    <2> HIDE DEF Pick
    <2>5. s \in SUBSET S /\ s \ {Pick(s)} \in SUBSET S /\ s \ {Pick(s)} \notin B
        BY <2>2, <2>4
    <2>6. iter[s] = f[Pick(s)] + iter[s \ {Pick(s)}] /\ h[s] = f[Pick(s)] + h[s \ {Pick(s)}]
        BY <1>2, <1>6, <2>3, <2>5 DEF SumsTo, Pick
    <2>7. QED BY <2>2, <2>5, <2>6
<1>8. h[S] = iter[S]
    BY <1>7
<1>9. QED BY <1>1, <1>2, <1>8

\* A sum of natural numbers is one.
LEMMA SumOfNats ==
    ASSUME NEW S, IsFiniteSet(S), NEW f \in [S -> Nat]
    PROVE  SumFunctionOnSet(f, S) \in Nat
<1> DEFINE Pick(s) == CHOOSE x \in s : TRUE
<1>1. f \in [S -> Int]
    OBVIOUS
<1>2. PICK g \in [SUBSET S -> Int] : SumsTo(g, f, S) /\ SumFunctionOnSet(f, S) = g[S]
    BY <1>1, SumUnfolds
<1> DEFINE B == {s \in SUBSET S : g[s] \notin Nat}
<1>3. SUFFICES ASSUME B # {} PROVE FALSE
    BY <1>2
<1>4. PICK s \in B : \A x \in s : s \ {x} \notin B
    <2>1. B \subseteq SUBSET S
        OBVIOUS
    <2> HIDE DEF B
    <2>2. QED BY <1>3, <2>1, SmallestSubset
<1>5. s # {}
    BY <1>2, <1>4 DEF SumsTo
<1>6. Pick(s) \in s
    BY <1>5
<1> HIDE DEF Pick
<1>7. s \in SUBSET S /\ s \ {Pick(s)} \in SUBSET S /\ s \ {Pick(s)} \notin B
    BY <1>4, <1>6
<1>8. g[s] = f[Pick(s)] + g[s \ {Pick(s)}]
    BY <1>2, <1>5, <1>7 DEF SumsTo, Pick
<1>9. f[Pick(s)] \in Nat /\ g[s \ {Pick(s)}] \in Nat
    BY <1>6, <1>7
<1>10. QED BY <1>4, <1>8, <1>9

\* If a function changes at one argument, its sum changes by as much.
LEMMA SumMoves ==
    ASSUME NEW S, IsFiniteSet(S), NEW f \in [S -> Int], NEW h \in [S -> Int], NEW k \in S,
           \A x \in S \ {k} : h[x] = f[x]
    PROVE  /\ SumFunctionOnSet(f, S) \in Int
           /\ SumFunctionOnSet(h, S) = SumFunctionOnSet(f, S) + (h[k] - f[k])
<1> DEFINE Pick(s) == CHOOSE x \in s : TRUE
           delta(s) == IF k \in s THEN h[k] - f[k] ELSE 0
<1>1. PICK F \in [SUBSET S -> Int] : SumsTo(F, f, S) /\ SumFunctionOnSet(f, S) = F[S]
    BY SumUnfolds
<1>2. PICK H \in [SUBSET S -> Int] : SumsTo(H, h, S) /\ SumFunctionOnSet(h, S) = H[S]
    BY SumUnfolds
<1>3. h[k] \in Int /\ f[k] \in Int
    OBVIOUS
<1>4. \A s \in SUBSET S : H[s] = F[s] + delta(s)
    <2> DEFINE B == {s \in SUBSET S : H[s] # F[s] + delta(s)}
    <2>1. SUFFICES ASSUME B # {} PROVE FALSE
        OBVIOUS
    <2>2. PICK s \in B : \A x \in s : s \ {x} \notin B
        <3>1. B \subseteq SUBSET S
            OBVIOUS
        <3> HIDE DEF B
        <3>2. QED BY <2>1, <3>1, SmallestSubset
    <2>3. s # {}
        <3>1. H[{}] = 0 /\ F[{}] = 0
            BY <1>1, <1>2 DEF SumsTo
        <3>2. H[{}] = F[{}] + delta({})
            BY <3>1
        <3>3. s \in SUBSET S /\ H[s] # F[s] + delta(s)
            BY <2>2
        <3> HIDE DEF delta
        <3>4. QED BY <3>2, <3>3
    <2>4. Pick(s) \in s
        BY <2>3
    <2> HIDE DEF Pick
    <2>5. PICK p \in s : p = Pick(s)
        BY <2>4
    <2>6. s \in SUBSET S /\ s \ {p} \in SUBSET S /\ s \ {p} \notin B /\ p \in S
        BY <2>2
    <2>7. F[s] = f[p] + F[s \ {p}] /\ H[s] = h[p] + H[s \ {p}]
        BY <1>1, <1>2, <2>3, <2>5, <2>6 DEF SumsTo, Pick
    <2>8. H[s \ {p}] = F[s \ {p}] + delta(s \ {p})
        BY <2>6
    <2>9. F[s \ {p}] \in Int /\ f[p] \in Int /\ h[p] \in Int
        BY <2>6
    <2>10. CASE p = k
        <3>1. delta(s \ {p}) = 0 /\ delta(s) = h[k] - f[k]
            BY <2>10
        <3>2. H[s] = F[s] + delta(s)
            <4> HIDE DEF delta
            <4>1. QED BY <1>3, <2>7, <2>8, <2>9, <2>10, <3>1
        <3>3. QED BY <2>2, <3>2
    <2>11. CASE p # k
        <3>1. delta(s \ {p}) = delta(s) /\ h[p] = f[p]
            BY <2>6, <2>11
        <3>2. delta(s) \in Int
            BY <1>3
        <3>3. H[s] = F[s] + delta(s)
            <4> HIDE DEF delta
            <4>1. QED BY <2>7, <2>8, <2>9, <3>1, <3>2
        <3>4. QED BY <2>2, <3>3
    <2>12. QED BY <2>10, <2>11
<1>5. H[S] = F[S] + (h[k] - f[k]) /\ F[S] \in Int
    BY <1>4
<1>6. QED BY <1>1, <1>2, <1>5
=============================================================================
