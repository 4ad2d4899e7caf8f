-------------------------- MODULE LinkedListProofs --------------------------
(* Theorems about LinkedList. *)
EXTENDS LinkedList, Lemmas

\* The node at place i of the ring of list l with entries s, the head at place 0,
\* and the place after it.
At(s, l, i) == IF i = 0 THEN l ELSE s[i]
After(s, i) == IF i = Len(s) THEN 0 ELSE i + 1

\* Node b follows node a in this ring.
Edge(s, l, a, b) == \E i \in 0..Len(s) : a = At(s, l, i) /\ b = At(s, l, After(s, i))

\* Lists that hold sq: entries in order, and how many.
Typed(nx, pv, nm, sq) ==
    /\ nx \in [Node -> Node]
    /\ pv \in [Node -> Node]
    /\ nm \in [List -> Int]
    /\ sq \in [List -> Seq(Entry)]

\* The pointers nx and pv agree with every edge, in both directions.
Closed(nx, pv, sq) ==
    \A l \in List : \A a, b : Edge(sq[l], l, a, b) => nx[a] = b /\ pv[b] = a

\* No node is at two places.
Apart(sq) ==
    \A l, m \in List : \A i \in 0..Len(sq[l]) : \A j \in 0..Len(sq[m]) :
        At(sq[l], l, i) = At(sq[m], m, j) => l = m /\ i = j

Counted(nm, sq) == \A l \in List : nm[l] = Len(sq[l])

Sound(nx, pv, nm, sq) ==
    Typed(nx, pv, nm, sq) /\ Closed(nx, pv, sq) /\ Apart(sq) /\ Counted(nm, sq)

\* Entry e is in no list.
Free(sq, e) == e \in Entry /\ \A l \in List : \A i \in DOMAIN sq[l] : sq[l][i] # e

-----------------------------------------------------------------------------
(* Sequences *)

\* t is s with e put after place p.
Inserted(t, s, p, e) ==
    /\ t \in Seq(Entry)
    /\ Len(t) = Len(s) + 1
    /\ \A i \in 1..Len(t) : t[i] = IF i <= p THEN s[i] ELSE IF i = p + 1 THEN e ELSE s[i - 1]

\* t is s without place p.
Removed(t, s, p) ==
    /\ t \in Seq(Entry)
    /\ Len(t) = Len(s) - 1
    /\ \A i \in 1..Len(t) : t[i] = IF i < p THEN s[i] ELSE s[i + 1]

\* InsertAt puts its element where it says.
LEMMA InsertAtIs ==
    ASSUME NEW s \in Seq(Entry), NEW e \in Entry, NEW p \in 0..Len(s)
    PROVE  Inserted(InsertAt(s, p + 1, e), s, p, e)
<1> DEFINE u == SubSeq(s, 1, p)
           v == SubSeq(s, p + 1, Len(s))
           w == u \o <<e>>
<1>1. Len(s) \in Nat /\ p \in Nat /\ p <= Len(s)
    OBVIOUS
<1>2. u \in Seq(Entry) /\ Len(u) = p /\ \A i \in 1..p : u[i] = s[i]
    BY <1>1, SubSeqProperties
<1>3. /\ v \in Seq(Entry)
      /\ Len(v) = Len(s) - p
      /\ \A i \in 1..(Len(s) - p) : v[i] = s[p + i]
    BY <1>1, SubSeqProperties
<1>4. <<e>> \in Seq(Entry) /\ Len(<<e>>) = 1 /\ <<e>>[1] = e
    OBVIOUS
<1>5. InsertAt(s, p + 1, e) = w \o v
    <2>1. (p + 1) - 1 = p
        BY <1>1
    <2>2. QED BY <2>1 DEF InsertAt
<1> HIDE DEF u, v
<1>6. w \in Seq(Entry) /\ Len(w) = p + 1
    BY <1>1, <1>2, <1>4, ConcatProperties
<1>7. \A i \in 1..(p + 1) : w[i] = IF i <= p THEN s[i] ELSE e
    <2>1. ASSUME NEW i \in 1..(p + 1)
          PROVE  w[i] = IF i <= p THEN s[i] ELSE e
        <3>1. w[i] = IF i <= Len(u) THEN u[i] ELSE <<e>>[i - Len(u)]
            BY <1>1, <1>2, <1>4, ConcatProperties
        <3>2. CASE i <= p
            BY <1>1, <1>2, <3>1, <3>2
        <3>3. CASE ~(i <= p)
            <4>1. i - p = 1
                BY <1>1, <3>3
            <4>2. QED BY <1>2, <1>4, <3>1, <3>3, <4>1
        <3>4. QED BY <3>2, <3>3
    <2>2. QED BY <2>1
<1> HIDE DEF w
<1>8. w \o v \in Seq(Entry) /\ Len(w \o v) = Len(s) + 1
    <2>1. w \o v \in Seq(Entry) /\ Len(w \o v) = Len(w) + Len(v)
        BY <1>3, <1>6, ConcatProperties
    <2>2. QED BY <1>1, <1>3, <1>6, <2>1
<1>9. ASSUME NEW i \in 1..(Len(s) + 1)
      PROVE  (w \o v)[i] = IF i <= p THEN s[i] ELSE IF i = p + 1 THEN e ELSE s[i - 1]
    <2>1. i \in 1..(Len(w) + Len(v))
        BY <1>1, <1>3, <1>6
    <2>2. (w \o v)[i] = IF i <= Len(w) THEN w[i] ELSE v[i - Len(w)]
        BY <1>3, <1>6, <2>1, ConcatProperties
    <2>3. CASE i <= p + 1
        BY <1>1, <1>6, <1>7, <2>2, <2>3
    <2>4. CASE ~(i <= p + 1)
        <3>1. (w \o v)[i] = v[i - (p + 1)]
            BY <1>6, <2>2, <2>4
        <3>2. i - (p + 1) \in 1..(Len(s) - p) /\ p + (i - (p + 1)) = i - 1
            BY <1>1, <2>4
        <3>3. QED BY <1>1, <1>3, <2>4, <3>1, <3>2
    <2>5. QED BY <2>3, <2>4
<1>10. PICK t : t = w \o v
    OBVIOUS
<1>11. Inserted(t, s, p, e)
    BY <1>8, <1>9, <1>10 DEF Inserted
<1>12. QED BY <1>5, <1>10, <1>11

\* So do the insertions at the two ends.
LEMMA EndsInsert ==
    ASSUME NEW s \in Seq(Entry), NEW e \in Entry
    PROVE  Inserted(<<e>> \o s, s, 0, e) /\ Inserted(Append(s, e), s, Len(s), e)
<1>1. Len(s) \in Nat
    OBVIOUS
<1>2. <<e>> \in Seq(Entry) /\ Len(<<e>>) = 1 /\ <<e>>[1] = e
    OBVIOUS
<1>3. Inserted(<<e>> \o s, s, 0, e)
    <2>1. /\ <<e>> \o s \in Seq(Entry)
          /\ Len(<<e>> \o s) = Len(s) + 1
          /\ \A i \in 1..(Len(s) + 1) :
                (<<e>> \o s)[i] = IF i <= 1 THEN <<e>>[i] ELSE s[i - 1]
        BY <1>1, <1>2, ConcatProperties
    <2>2. \A i \in 1..(Len(s) + 1) :
              (<<e>> \o s)[i] = IF i <= 0 THEN s[i] ELSE IF i = 0 + 1 THEN e ELSE s[i - 1]
        BY <1>1, <1>2, <2>1
    <2>3. QED BY <2>1, <2>2 DEF Inserted
<1>4. Inserted(Append(s, e), s, Len(s), e)
    BY <1>1 DEF Inserted
<1>5. QED BY <1>3, <1>4

\* What RemoveAt, Tail and Front leave.
LEMMA RemovedIs ==
    ASSUME NEW s \in Seq(Entry), s # <<>>
    PROVE  /\ \A p \in 1..Len(s) : Removed(RemoveAt(s, p), s, p)
           /\ Removed(Tail(s), s, 1)
           /\ Removed(Front(s), s, Len(s))
           /\ Len(s) \in Nat /\ Len(s) >= 1
<1>1. Len(s) \in Nat /\ Len(s) >= 1
    BY EmptySeq
<1>2. \A p \in 1..Len(s) : Removed(RemoveAt(s, p), s, p)
    BY RemoveAtIs DEF Removed
<1>3. Removed(Tail(s), s, 1)
    BY <1>1 DEF Removed
<1>4. Removed(Front(s), s, Len(s))
    <2>1. /\ Front(s) \in Seq(Entry)
          /\ Len(Front(s)) = Len(s) - 1
          /\ \A i \in 1..(Len(s) - 1) : Front(s)[i] = s[i]
        <3> DEFINE n == Len(s) - 1
        <3>1. Front(s) = SubSeq(s, 1, n) /\ n \in Int /\ n >= 0 /\ 1 \in Int
            BY <1>1 DEF Front
        <3>2. \A i \in 1..n : s[i] \in Entry
            BY <1>1
        <3> HIDE DEF n
        <3>3. /\ Front(s) \in Seq(Entry)
              /\ Len(Front(s)) = (IF 1 <= n THEN n - 1 + 1 ELSE 0)
              /\ \A i \in 1..(n - 1 + 1) : Front(s)[i] = s[1 + i - 1]
            BY <3>1, <3>2, SubSeqProperties
        <3>4. /\ Len(Front(s)) = n
              /\ \A i \in 1..n : Front(s)[i] = s[i]
            BY <3>1, <3>3
        <3>5. QED BY <3>3, <3>4 DEF n
    <2>2. QED BY <1>1, <2>1 DEF Removed
<1>5. QED BY <1>1, <1>2, <1>3, <1>4

-----------------------------------------------------------------------------
(* Edges *)

\* A ring has its head and its entries for nodes.
LEMMA PlacesAre ==
    ASSUME NEW s \in Seq(Entry), NEW l \in List
    PROVE  /\ Len(s) \in Nat
           /\ \A i \in 0..Len(s) : At(s, l, i) \in Node /\ After(s, i) \in 0..Len(s)
           /\ \A i \in DOMAIN s : i \in 0..Len(s) /\ At(s, l, i) = s[i]
<1>1. Len(s) \in Nat /\ DOMAIN s = 1..Len(s)
    OBVIOUS
<1>2. ASSUME NEW i \in 0..Len(s)
      PROVE  At(s, l, i) \in Node /\ After(s, i) \in 0..Len(s)
    <2>1. After(s, i) \in 0..Len(s)
        <3>1. PICK n \in Nat : n = Len(s)
            BY <1>1
        <3>2. i \in 0..n
            BY <3>1
        <3>3. After(s, i) = IF i = n THEN 0 ELSE i + 1
            BY <3>1 DEF After
        <3>4. QED BY <3>1, <3>2, <3>3
    <2>2. i # 0 => s[i] \in Entry
        BY <1>1
    <2>3. QED BY <2>1, <2>2 DEF At, Node
<1>3. ASSUME NEW i \in DOMAIN s
      PROVE  i \in 0..Len(s) /\ At(s, l, i) = s[i]
    BY <1>1 DEF At
<1>4. QED BY <1>1, <1>2, <1>3

\* An entry that is in no list is at no place of a ring.
LEMMA FreeIsApart ==
    ASSUME NEW sq \in [List -> Seq(Entry)], NEW e, Free(sq, e),
           NEW l \in List, NEW i \in 0..Len(sq[l])
    PROVE  At(sq[l], l, i) # e
<1>1. e \in Entry /\ e # l
    BY NodesAssumption DEF Free
<1>2. i = 0 \/ i \in DOMAIN sq[l]
    <2>1. sq[l] \in Seq(Entry)
        OBVIOUS
    <2>2. Len(sq[l]) \in Nat /\ DOMAIN sq[l] = 1..Len(sq[l])
        BY <2>1
    <2>3. QED BY <2>2
<1>3. QED BY <1>1, <1>2 DEF At, Free

\* Putting e after place p replaces the edge from there by two.
LEMMA InsertEdges ==
    ASSUME NEW s \in Seq(Entry), NEW l \in List, NEW p \in 0..Len(s), NEW e,
           NEW t, Inserted(t, s, p, e),
           NEW a, NEW b, Edge(t, l, a, b)
    PROVE  LET P == At(s, l, p)
               Q == At(s, l, After(s, p))
           IN  \/ a = P /\ b = e
               \/ a = e /\ b = Q
               \/ \E i \in 0..Len(s) \ {p} : a = At(s, l, i) /\ b = At(s, l, After(s, i))
<1>1. PICK i \in 0..Len(t) : a = At(t, l, i) /\ b = At(t, l, After(t, i))
    BY DEF Edge
<1>2. PICK n : n = Len(s)
    OBVIOUS
<1>3. /\ n \in Nat /\ Len(t) = n + 1 /\ p \in Int /\ p >= 0 /\ p <= n
      /\ i \in Int /\ i >= 0 /\ i <= n + 1
    BY <1>1, <1>2 DEF Inserted
<1>4. \A j \in 1..(n + 1) : t[j] = IF j <= p THEN s[j] ELSE IF j = p + 1 THEN e ELSE s[j - 1]
    BY <1>2, <1>3 DEF Inserted
<1>5. \A j \in 0..(n + 1) :
          At(t, l, j) = IF j <= p THEN At(s, l, j) ELSE IF j = p + 1 THEN e ELSE At(s, l, j - 1)
    <2> SUFFICES ASSUME NEW j \in 0..(n + 1)
                 PROVE  At(t, l, j) = IF j <= p THEN At(s, l, j)
                                      ELSE IF j = p + 1 THEN e ELSE At(s, l, j - 1)
        OBVIOUS
    <2>1. CASE j = 0
        BY <1>3, <2>1 DEF At
    <2>2. CASE j # 0 /\ j <= p
        BY <1>3, <1>4, <2>2 DEF At
    <2>3. CASE j = p + 1
        BY <1>3, <1>4, <2>3 DEF At
    <2>4. CASE j > p + 1
        <3>1. j - 1 # 0 /\ j # 0 /\ j \in 1..(n + 1)
            BY <1>3, <2>4
        <3>2. QED BY <1>3, <1>4, <2>4, <3>1 DEF At
    <2>5. QED BY <1>3, <2>1, <2>2, <2>3, <2>4
<1>6. /\ After(t, i) = IF i = n + 1 THEN 0 ELSE i + 1
      /\ \A j : After(s, j) = IF j = n THEN 0 ELSE j + 1
    BY <1>2, <1>3 DEF After
<1> DEFINE A(j) == At(s, l, j)
<1>7. \A j \in 0..(n + 1) :
          At(t, l, j) = IF j <= p THEN A(j) ELSE IF j = p + 1 THEN e ELSE A(j - 1)
    BY <1>5
<1>8. After(t, i) \in 0..(n + 1) /\ i \in 0..(n + 1)
    BY <1>3, <1>6
<1>9. a = At(t, l, i) /\ b = At(t, l, After(t, i))
    BY <1>1
<1> HIDE DEF A
<1>10. CASE i < p
    <2>1. i \in 0..n \ {p} /\ After(t, i) = i + 1 /\ After(s, i) = i + 1 /\ i + 1 <= p
        BY <1>3, <1>6, <1>10
    <2>2. a = A(i) /\ b = A(i + 1)
        BY <1>3, <1>7, <1>8, <1>9, <1>10, <2>1
    <2>3. QED BY <1>2, <2>1, <2>2 DEF A
<1>11. CASE i = p
    <2>1. After(t, i) = p + 1
        BY <1>3, <1>6, <1>11
    <2>2. a = A(p) /\ b = e
        BY <1>3, <1>7, <1>8, <1>9, <1>11, <2>1
    <2>3. QED BY <2>2 DEF A
<1>12. CASE i = p + 1
    <2>1. a = e
        BY <1>3, <1>7, <1>8, <1>9, <1>12
    <2>2. b = A(After(s, p))
        <3>1. CASE p = n
            BY <1>3, <1>6, <1>7, <1>8, <1>9, <1>12, <3>1
        <3>2. CASE p # n
            <4>1. After(t, i) = p + 2 /\ After(s, p) = p + 1 /\ (p + 2) - 1 = p + 1
                BY <1>3, <1>6, <1>12, <3>2
            <4>2. QED BY <1>3, <1>7, <1>8, <1>9, <4>1
        <3>3. QED BY <3>1, <3>2
    <2>3. QED BY <2>1, <2>2 DEF A
<1>13. CASE i > p + 1
    <2>1. i - 1 \in 0..n \ {p}
        BY <1>3, <1>13
    <2>2. a = A(i - 1)
        BY <1>3, <1>7, <1>8, <1>9, <1>13
    <2>3. b = A(After(s, i - 1))
        <3>1. CASE i = n + 1
            BY <1>3, <1>6, <1>7, <1>8, <1>9, <1>13, <3>1
        <3>2. CASE i # n + 1
            <4>1. After(t, i) = i + 1 /\ After(s, i - 1) = i /\ (i + 1) - 1 = i
                BY <1>3, <1>6, <1>13, <3>2
            <4>2. QED BY <1>3, <1>7, <1>8, <1>9, <1>13, <4>1
        <3>3. QED BY <3>1, <3>2
    <2>4. QED BY <1>2, <2>1, <2>2, <2>3 DEF A
<1>14. QED BY <1>3, <1>10, <1>11, <1>12, <1>13

\* Removing place p replaces the two edges at it by one.
LEMMA RemoveEdges ==
    ASSUME NEW s \in Seq(Entry), NEW l \in List, NEW p \in 1..Len(s),
           NEW t, Removed(t, s, p),
           NEW a, NEW b, Edge(t, l, a, b)
    PROVE  \/ a = At(s, l, p - 1) /\ b = At(s, l, After(s, p))
           \/ \E i \in 0..Len(s) \ {p - 1, p} : a = At(s, l, i) /\ b = At(s, l, After(s, i))
<1>1. PICK i \in 0..Len(t) : a = At(t, l, i) /\ b = At(t, l, After(t, i))
    BY DEF Edge
<1>2. PICK n : n = Len(s)
    OBVIOUS
<1>3. /\ n \in Nat /\ Len(t) = n - 1 /\ p \in Int /\ p >= 1 /\ p <= n
      /\ i \in Int /\ i >= 0 /\ i <= n - 1
    BY <1>1, <1>2 DEF Removed
<1>4. \A j \in 1..(n - 1) : t[j] = IF j < p THEN s[j] ELSE s[j + 1]
    BY <1>2, <1>3 DEF Removed
<1> DEFINE A(j) == At(s, l, j)
<1>5. \A j \in 0..(n - 1) : At(t, l, j) = IF j < p THEN A(j) ELSE A(j + 1)
    BY <1>3, <1>4 DEF At
<1>6. /\ After(t, i) = IF i = n - 1 THEN 0 ELSE i + 1
      /\ \A j : After(s, j) = IF j = n THEN 0 ELSE j + 1
    BY <1>2, <1>3 DEF After
<1>7. After(t, i) \in 0..(n - 1) /\ i \in 0..(n - 1)
    BY <1>3, <1>6
<1>8. a = At(t, l, i) /\ b = At(t, l, After(t, i))
    BY <1>1
<1> HIDE DEF A
<1>9. CASE i < p - 1
    <2>1. i \in 0..n \ {p - 1, p} /\ After(t, i) = i + 1 /\ After(s, i) = i + 1 /\ i + 1 < p
        BY <1>3, <1>6, <1>9
    <2>2. a = A(i) /\ b = A(i + 1)
        BY <1>3, <1>5, <1>7, <1>8, <1>9, <2>1
    <2>3. QED BY <1>2, <2>1, <2>2 DEF A
<1>10. CASE i = p - 1
    <2>1. a = A(p - 1)
        BY <1>3, <1>5, <1>7, <1>8, <1>10
    <2>2. b = A(After(s, p))
        <3>1. CASE p = n
            BY <1>3, <1>5, <1>6, <1>7, <1>8, <1>10, <3>1
        <3>2. CASE p # n
            <4>1. After(t, i) = p /\ After(s, p) = p + 1
                BY <1>3, <1>6, <1>10, <3>2
            <4>2. QED BY <1>3, <1>5, <1>7, <1>8, <4>1
        <3>3. QED BY <3>1, <3>2
    <2>3. QED BY <2>1, <2>2 DEF A
<1>11. CASE i >= p
    <2>1. i + 1 \in 0..n \ {p - 1, p}
        BY <1>3, <1>11
    <2>2. a = A(i + 1)
        BY <1>3, <1>5, <1>7, <1>8, <1>11
    <2>3. b = A(After(s, i + 1))
        <3>1. CASE i = n - 1
            BY <1>3, <1>5, <1>6, <1>7, <1>8, <1>11, <3>1
        <3>2. CASE i # n - 1
            <4>1. After(t, i) = i + 1 /\ After(s, i + 1) = (i + 1) + 1
                BY <1>3, <1>6, <1>11, <3>2
            <4>2. QED BY <1>3, <1>5, <1>7, <1>8, <1>11, <4>1
        <3>3. QED BY <3>1, <3>2
    <2>4. QED BY <1>2, <2>1, <2>2, <2>3 DEF A
<1>12. QED BY <1>3, <1>9, <1>10, <1>11

-----------------------------------------------------------------------------
(* Linking and unlinking *)

\* Linked puts an entry that is in no list after place p.
LEMMA LinkedIs ==
    ASSUME NEW nx, NEW pv, NEW nm, NEW sq, Sound(nx, pv, nm, sq),
           NEW l \in List, NEW p \in 0..Len(sq[l]), NEW e, Free(sq, e),
           NEW t, Inserted(t, sq[l], p, e),
           NEW r, r = Linked(nx, pv, At(sq[l], l, p), e)
    PROVE  Sound(r.next, r.prev, [nm EXCEPT ![l] = @ + 1], [sq EXCEPT ![l] = t])
<1>1. PICK s : s = sq[l]
    OBVIOUS
<1>2. PICK P, Q : P = At(s, l, p) /\ Q = At(s, l, After(s, p))
    OBVIOUS
<1>3. PICK nm2, sq2 : nm2 = [nm EXCEPT ![l] = @ + 1] /\ sq2 = [sq EXCEPT ![l] = t]
    OBVIOUS
<1>4. /\ nx \in [Node -> Node] /\ pv \in [Node -> Node]
      /\ nm \in [List -> Int] /\ sq \in [List -> Seq(Entry)]
    BY DEF Sound, Typed
<1>5. s \in Seq(Entry) /\ p \in 0..Len(s) /\ Inserted(t, s, p, e)
    BY <1>1, <1>4
<1>6. P \in Node /\ Q \in Node /\ P # e /\ Q # e /\ e \in Node /\ e \in Entry
    <2>1. After(s, p) \in 0..Len(s)
        BY <1>5, PlacesAre
    <2>2. P \in Node /\ Q \in Node
        BY <1>2, <1>5, <2>1, PlacesAre
    <2>3. P # e /\ Q # e
        BY <1>1, <1>2, <1>4, <1>5, <2>1, FreeIsApart
    <2>4. QED BY <2>2, <2>3 DEF Free, Node
<1>7. nx[P] = Q /\ pv[Q] = P
    <2>1. Edge(s, l, P, Q)
        BY <1>2, <1>5 DEF Edge
    <2>2. QED BY <1>1, <2>1 DEF Sound, Closed
<1>8. r.next = [nx EXCEPT ![e] = Q, ![P] = e] /\ r.prev = [pv EXCEPT ![Q] = e, ![e] = P]
    BY <1>1, <1>2, <1>7 DEF Linked
<1>9. /\ \A x \in Node : r.next[x] = IF x = P THEN e ELSE IF x = e THEN Q ELSE nx[x]
      /\ \A x \in Node : r.prev[x] = IF x = e THEN P ELSE IF x = Q THEN e ELSE pv[x]
      /\ r.next \in [Node -> Node] /\ r.prev \in [Node -> Node]
    <2>1. \A f \in [Node -> Node] : \A x, y \in Node :
              /\ [f EXCEPT ![x] = y] \in [Node -> Node]
              /\ \A z \in Node : [f EXCEPT ![x] = y][z] = IF z = x THEN y ELSE f[z]
        OBVIOUS
    <2>2. PICK f1, g1 : f1 = [nx EXCEPT ![e] = Q] /\ g1 = [pv EXCEPT ![Q] = e]
        OBVIOUS
    <2>3. /\ f1 \in [Node -> Node] /\ \A x \in Node : f1[x] = IF x = e THEN Q ELSE nx[x]
          /\ g1 \in [Node -> Node] /\ \A x \in Node : g1[x] = IF x = Q THEN e ELSE pv[x]
        BY <1>4, <1>6, <2>1, <2>2
    <2>4. r.next = [f1 EXCEPT ![P] = e] /\ r.prev = [g1 EXCEPT ![e] = P]
        BY <1>8, <2>2
    <2>5. QED BY <1>6, <2>1, <2>3, <2>4
<1>10. /\ nm2 \in [List -> Int] /\ sq2 \in [List -> Seq(Entry)]
       /\ sq2[l] = t /\ \A m \in List \ {l} : sq2[m] = sq[m]
       /\ nm2[l] = nm[l] + 1 /\ \A m \in List \ {l} : nm2[m] = nm[m]
    BY <1>3, <1>4, <1>5 DEF Inserted
<1>11. Typed(r.next, r.prev, nm2, sq2)
    BY <1>9, <1>10 DEF Typed
<1>12. Counted(nm2, sq2)
    BY <1>1, <1>5, <1>10 DEF Counted, Sound, Inserted
<1>13. ASSUME NEW m \in List, NEW i \in 0..Len(sq[m]), m # l \/ i # p
       PROVE  /\ r.next[At(sq[m], m, i)] = At(sq[m], m, After(sq[m], i))
              /\ r.prev[At(sq[m], m, After(sq[m], i))] = At(sq[m], m, i)
    <2>1. PICK a, b : a = At(sq[m], m, i) /\ b = At(sq[m], m, After(sq[m], i))
        OBVIOUS
    <2>2. nx[a] = b /\ pv[b] = a
        BY <2>1 DEF Sound, Closed, Edge
    <2>3. a \in Node /\ b \in Node /\ a # e /\ b # e
        <3>1. sq[m] \in Seq(Entry)
            BY <1>4
        <3>2. After(sq[m], i) \in 0..Len(sq[m])
            BY <3>1, PlacesAre
        <3>3. QED BY <1>4, <2>1, <3>1, <3>2, PlacesAre, FreeIsApart
    <2>4. a # P
        BY <1>1, <1>2, <1>5, <1>13, <2>1 DEF Sound, Apart
    <2>5. b # Q
        BY <1>7, <2>2, <2>4
    <2>6. QED BY <1>9, <2>1, <2>2, <2>3, <2>4, <2>5
<1>14. Closed(r.next, r.prev, sq2)
    <2>1. ASSUME NEW m \in List, NEW a, NEW b, Edge(sq2[m], m, a, b)
          PROVE  r.next[a] = b /\ r.prev[b] = a
        <3>1. CASE m # l
            <4>1. PICK i \in 0..Len(sq[m]) :
                      a = At(sq[m], m, i) /\ b = At(sq[m], m, After(sq[m], i))
                BY <1>10, <2>1, <3>1 DEF Edge
            <4>2. QED BY <1>13, <3>1, <4>1
        <3>2. CASE m = l
            <4>1. \/ a = P /\ b = e
                  \/ a = e /\ b = Q
                  \/ \E i \in 0..Len(s) \ {p} : a = At(s, l, i) /\ b = At(s, l, After(s, i))
                BY <1>2, <1>5, <1>10, <2>1, <3>2, InsertEdges
            <4>2. QED BY <1>1, <1>6, <1>9, <1>13, <4>1
        <3>3. QED BY <3>1, <3>2
    <2>2. QED BY <2>1 DEF Closed
<1>15. Apart(sq2)
    <2>1. ASSUME NEW i \in 0..Len(t)
          PROVE  \/ i = p + 1 /\ At(t, l, i) = e
                 \/ \E j \in 0..Len(s) : /\ At(t, l, i) = At(s, l, j)
                                         /\ i # p + 1
                                         /\ i = IF j <= p THEN j ELSE j + 1
        <3>1. Len(s) \in Nat /\ Len(t) = Len(s) + 1 /\ p \in Int /\ p >= 0 /\ p <= Len(s)
            BY <1>5 DEF Inserted
        <3>2. i # 0 => t[i] = IF i <= p THEN s[i] ELSE IF i = p + 1 THEN e ELSE s[i - 1]
            BY <1>5, <3>1 DEF Inserted
        <3>3. CASE i = p + 1
            BY <3>1, <3>2, <3>3 DEF At
        <3>4. CASE i <= p
            <4>1. i \in 0..Len(s) /\ i # p + 1 /\ At(t, l, i) = At(s, l, i)
                BY <3>1, <3>2, <3>4 DEF At
            <4>2. QED BY <3>4, <4>1
        <3>5. CASE i > p + 1
            <4>1. i - 1 \in 0..Len(s) /\ i # p + 1 /\ ~(i - 1 <= p) /\ i = (i - 1) + 1 /\ i # 0 /\ i - 1 # 0
                BY <3>1, <3>5
            <4>2. At(t, l, i) = At(s, l, i - 1)
                BY <3>1, <3>2, <3>5, <4>1 DEF At
            <4>3. QED BY <4>1, <4>2
        <3>6. QED BY <3>1, <3>3, <3>4, <3>5
    <2>2. ASSUME NEW m \in List, NEW i \in 0..Len(sq2[m]), m # l \/ i # p + 1
          PROVE  \E j \in 0..Len(sq[m]) :
                     /\ At(sq2[m], m, i) = At(sq[m], m, j)
                     /\ i = IF m # l THEN j ELSE IF j <= p THEN j ELSE j + 1
        BY <1>1, <1>10, <2>1, <2>2
    <2>3. At(t, l, p + 1) = e
        <3>1. p \in Int /\ p >= 0 /\ p <= Len(s) /\ Len(s) \in Nat
            BY <1>5
        <3>2. t[p + 1] = e /\ p + 1 # 0
            BY <1>5, <3>1 DEF Inserted
        <3>3. QED BY <3>2 DEF At
    <2>4. ASSUME NEW m \in List, NEW i \in 0..Len(sq2[m]), At(sq2[m], m, i) = e
          PROVE  m = l /\ i = p + 1
        BY <1>4, <2>2, <2>4, FreeIsApart
    <2>5. ASSUME NEW m \in List, NEW k \in List,
                 NEW i \in 0..Len(sq2[m]), NEW j \in 0..Len(sq2[k]),
                 At(sq2[m], m, i) = At(sq2[k], k, j)
          PROVE  m = k /\ i = j
        <3>1. CASE At(sq2[m], m, i) = e
            <4>1. m = l /\ i = p + 1
                BY <2>4, <3>1
            <4>2. k = l /\ j = p + 1
                BY <2>4, <2>5, <3>1
            <4>3. QED BY <4>1, <4>2
        <3>2. CASE At(sq2[m], m, i) # e
            <4>1. (m # l \/ i # p + 1) /\ (k # l \/ j # p + 1)
                BY <1>10, <2>3, <2>5, <3>2
            <4>2. PICK ii \in 0..Len(sq[m]) :
                      /\ At(sq2[m], m, i) = At(sq[m], m, ii)
                      /\ i = IF m # l THEN ii ELSE IF ii <= p THEN ii ELSE ii + 1
                BY <2>2, <4>1
            <4>3. PICK jj \in 0..Len(sq[k]) :
                      /\ At(sq2[k], k, j) = At(sq[k], k, jj)
                      /\ j = IF k # l THEN jj ELSE IF jj <= p THEN jj ELSE jj + 1
                BY <2>2, <4>1
            <4>4. m = k /\ ii = jj
                <5>1. At(sq[m], m, ii) = At(sq[k], k, jj)
                    BY <2>5, <4>2, <4>3
                <5>2. Apart(sq)
                    BY DEF Sound
                <5>3. QED BY <4>2, <4>3, <5>1, <5>2 DEF Apart
            <4>5. QED BY <4>2, <4>3, <4>4
        <3>3. QED BY <3>1, <3>2
    <2>6. QED BY <2>5 DEF Apart
<1>16. QED BY <1>3, <1>11, <1>12, <1>14, <1>15 DEF Sound

\* Two assignments to different places of a function may be exchanged.
LEMMA ExceptTwice ==
    ASSUME NEW S, NEW f \in [S -> S], NEW x \in S, NEW y \in S, x # y, NEW v \in S, NEW w \in S,
           NEW f1, f1 = [f EXCEPT ![x] = v, ![y] = w],
           NEW f2, f2 = [f EXCEPT ![y] = w, ![x] = v]
    PROVE  f1 = f2
<1>1. PICK g, h : g = [f EXCEPT ![x] = v] /\ h = [f EXCEPT ![y] = w]
    OBVIOUS
<1>2. PICK a, b : a = [g EXCEPT ![y] = w] /\ b = [h EXCEPT ![x] = v]
    OBVIOUS
<1>3. /\ g \in [S -> S] /\ \A z \in S : g[z] = IF z = x THEN v ELSE f[z]
      /\ h \in [S -> S] /\ \A z \in S : h[z] = IF z = y THEN w ELSE f[z]
    BY <1>1
<1>4. /\ a \in [S -> S] /\ \A z \in S : a[z] = IF z = y THEN w ELSE g[z]
      /\ b \in [S -> S] /\ \A z \in S : b[z] = IF z = x THEN v ELSE h[z]
    BY <1>2, <1>3
<1>5. \A z \in S : a[z] = b[z]
    BY <1>3, <1>4
<1>6. f1 = a /\ f2 = b
    BY <1>1, <1>2
<1>7. a = b
    <2>1. a \in [S -> S] /\ b \in [S -> S]
        BY <1>4
    <2>2. a = [z \in S |-> a[z]] /\ b = [z \in S |-> b[z]]
        BY <2>1
    <2>3. [z \in S |-> a[z]] = [z \in S |-> b[z]]
        BY <1>5
    <2>4. QED BY <2>2, <2>3
<1>8. QED BY <1>6, <1>7

\* To put e before the node at place q is to put it after the node before that.
LEMMA LinkedBeforeIs ==
    ASSUME NEW nx, NEW pv, NEW nm, NEW sq, Sound(nx, pv, nm, sq),
           NEW l \in List, NEW p \in 0..Len(sq[l]), NEW e, Free(sq, e),
           NEW t, Inserted(t, sq[l], p, e),
           NEW r, r = LinkedBefore(nx, pv, At(sq[l], l, After(sq[l], p)), e)
    PROVE  Sound(r.next, r.prev, [nm EXCEPT ![l] = @ + 1], [sq EXCEPT ![l] = t])
<1>1. PICK P, Q : P = At(sq[l], l, p) /\ Q = At(sq[l], l, After(sq[l], p))
    OBVIOUS
<1>2. nx \in [Node -> Node] /\ pv \in [Node -> Node] /\ sq \in [List -> Seq(Entry)]
    BY DEF Sound, Typed
<1>3. sq[l] \in Seq(Entry)
    BY <1>2
<1>4. After(sq[l], p) \in 0..Len(sq[l]) /\ P \in Node /\ Q \in Node
    BY <1>1, <1>3, PlacesAre
<1>5. P # e /\ Q # e /\ e \in Node
    BY <1>1, <1>2, <1>4, FreeIsApart DEF Free, Node
<1>6. nx[P] = Q /\ pv[Q] = P
    BY <1>1 DEF Sound, Closed, Edge
<1>7. PICK r2 : r2 = Linked(nx, pv, P, e)
    OBVIOUS
<1>8. /\ r.next = [nx EXCEPT ![P] = e, ![e] = Q] /\ r.prev = [pv EXCEPT ![e] = P, ![Q] = e]
      /\ r2.next = [nx EXCEPT ![e] = Q, ![P] = e] /\ r2.prev = [pv EXCEPT ![Q] = e, ![e] = P]
    BY <1>1, <1>6, <1>7 DEF LinkedBefore, Linked
<1>9. r.next = r2.next
    <2>1. PICK f, f1, f2 : f = nx /\ f1 = r.next /\ f2 = r2.next
        OBVIOUS
    <2>2. /\ f \in [Node -> Node] /\ f1 = [f EXCEPT ![P] = e, ![e] = Q]
          /\ f2 = [f EXCEPT ![e] = Q, ![P] = e]
        BY <1>2, <1>8, <2>1
    <2>3. f1 = f2
        BY <1>4, <1>5, <2>2, ExceptTwice, Zenon
    <2>4. QED BY <2>1, <2>3
<1>10. r.prev = r2.prev
    <2>1. PICK f, f1, f2 : f = pv /\ f1 = r.prev /\ f2 = r2.prev
        OBVIOUS
    <2>2. /\ f \in [Node -> Node] /\ f1 = [f EXCEPT ![e] = P, ![Q] = e]
          /\ f2 = [f EXCEPT ![Q] = e, ![e] = P]
        BY <1>2, <1>8, <2>1
    <2>3. f1 = f2
        BY <1>4, <1>5, <2>2, ExceptTwice, Zenon
    <2>4. QED BY <2>1, <2>3
<1>11. Sound(r2.next, r2.prev, [nm EXCEPT ![l] = @ + 1], [sq EXCEPT ![l] = t])
    BY <1>1, <1>7, LinkedIs
<1>12. QED BY <1>9, <1>10, <1>11

\* Unlinked takes out the entry at place p, and leaves it in no list.
LEMMA UnlinkedIs ==
    ASSUME NEW nx, NEW pv, NEW nm, NEW sq, Sound(nx, pv, nm, sq),
           NEW l \in List, NEW p \in 1..Len(sq[l]),
           NEW t, Removed(t, sq[l], p),
           NEW r, r = Unlinked(nx, pv, sq[l][p]),
           NEW sq2, sq2 = [sq EXCEPT ![l] = t]
    PROVE  /\ Sound(r.next, r.prev, [nm EXCEPT ![l] = @ - 1], sq2)
           /\ Free(sq2, sq[l][p])
<1>1. PICK s : s = sq[l]
    OBVIOUS
<1>2. PICK P, e, Q : P = At(s, l, p - 1) /\ e = s[p] /\ Q = At(s, l, After(s, p))
    OBVIOUS
<1>3. PICK nm2 : nm2 = [nm EXCEPT ![l] = @ - 1]
    OBVIOUS
<1>4. /\ nx \in [Node -> Node] /\ pv \in [Node -> Node]
      /\ nm \in [List -> Int] /\ sq \in [List -> Seq(Entry)]
    BY DEF Sound, Typed
<1>5. s \in Seq(Entry) /\ p \in 1..Len(s) /\ Removed(t, s, p) /\ Len(s) \in Nat
    BY <1>1, <1>4
<1>6. p - 1 \in 0..Len(s) /\ p \in 0..Len(s) /\ After(s, p - 1) = p /\ p # p - 1
    BY <1>5 DEF After
<1>7. P \in Node /\ Q \in Node /\ e \in Entry /\ e = At(s, l, p)
    <2>1. After(s, p) \in 0..Len(s)
        BY <1>5, <1>6, PlacesAre
    <2>2. QED BY <1>2, <1>5, <1>6, <2>1, PlacesAre DEF At
<1>8. nx[P] = e /\ pv[e] = P /\ nx[e] = Q /\ pv[Q] = e
    <2>1. Edge(s, l, P, e) /\ Edge(s, l, e, Q)
        BY <1>2, <1>6, <1>7 DEF Edge
    <2>2. QED BY <1>1, <2>1 DEF Sound, Closed
<1>9. r.next = [nx EXCEPT ![P] = Q] /\ r.prev = [pv EXCEPT ![Q] = P]
    BY <1>1, <1>2, <1>8 DEF Unlinked
<1>10. /\ \A x \in Node : r.next[x] = IF x = P THEN Q ELSE nx[x]
       /\ \A x \in Node : r.prev[x] = IF x = Q THEN P ELSE pv[x]
       /\ r.next \in [Node -> Node] /\ r.prev \in [Node -> Node]
    BY <1>4, <1>7, <1>9
<1>11. /\ nm2 \in [List -> Int] /\ sq2 \in [List -> Seq(Entry)]
       /\ sq2[l] = t /\ \A m \in List \ {l} : sq2[m] = sq[m]
       /\ nm2[l] = nm[l] - 1 /\ \A m \in List \ {l} : nm2[m] = nm[m]
    BY <1>3, <1>4, <1>5 DEF Removed
<1>12. Typed(r.next, r.prev, nm2, sq2)
    BY <1>10, <1>11 DEF Typed
<1>13. Counted(nm2, sq2)
    BY <1>1, <1>5, <1>11 DEF Counted, Sound, Removed
<1>14. ASSUME NEW m \in List, NEW i \in 0..Len(sq[m]), m # l \/ i \notin {p - 1, p}
       PROVE  /\ r.next[At(sq[m], m, i)] = At(sq[m], m, After(sq[m], i))
              /\ r.prev[At(sq[m], m, After(sq[m], i))] = At(sq[m], m, i)
    <2>1. PICK a, b : a = At(sq[m], m, i) /\ b = At(sq[m], m, After(sq[m], i))
        OBVIOUS
    <2>2. nx[a] = b /\ pv[b] = a
        BY <2>1 DEF Sound, Closed, Edge
    <2>3. a \in Node /\ b \in Node
        <3>1. sq[m] \in Seq(Entry)
            BY <1>4
        <3>2. After(sq[m], i) \in 0..Len(sq[m])
            BY <3>1, PlacesAre
        <3>3. QED BY <2>1, <3>1, <3>2, PlacesAre
    <2>4. a # P /\ a # e
        <3>1. Apart(sq)
            BY DEF Sound
        <3>2. QED BY <1>1, <1>2, <1>6, <1>7, <1>14, <2>1, <3>1 DEF Apart
    <2>5. b # Q
        BY <1>8, <2>2, <2>4
    <2>6. QED BY <1>10, <2>1, <2>2, <2>3, <2>4, <2>5
<1>15. Closed(r.next, r.prev, sq2)
    <2>1. ASSUME NEW m \in List, NEW a, NEW b, Edge(sq2[m], m, a, b)
          PROVE  r.next[a] = b /\ r.prev[b] = a
        <3>1. CASE m # l
            <4>1. PICK i \in 0..Len(sq[m]) :
                      a = At(sq[m], m, i) /\ b = At(sq[m], m, After(sq[m], i))
                BY <1>11, <2>1, <3>1 DEF Edge
            <4>2. QED BY <1>14, <3>1, <4>1
        <3>2. CASE m = l
            <4>1. \/ a = P /\ b = Q
                  \/ \E i \in 0..Len(s) \ {p - 1, p} :
                        a = At(s, l, i) /\ b = At(s, l, After(s, i))
                BY <1>2, <1>5, <1>11, <2>1, <3>2, RemoveEdges
            <4>2. QED BY <1>1, <1>7, <1>10, <1>14, <4>1
        <3>3. QED BY <3>1, <3>2
    <2>2. QED BY <2>1 DEF Closed
<1>16. ASSUME NEW m \in List, NEW i \in 0..Len(sq2[m])
       PROVE  \E j \in 0..Len(sq[m]) :
                  /\ At(sq2[m], m, i) = At(sq[m], m, j)
                  /\ m = l => j # p
                  /\ i = IF m # l THEN j ELSE IF j < p THEN j ELSE j - 1
    <2>1. CASE m # l
        BY <1>11, <2>1
    <2>2. CASE m = l
        <3>1. p \in Int /\ p >= 1 /\ p <= Len(s) /\ Len(t) = Len(s) - 1 /\ i \in 0..(Len(s) - 1)
            BY <1>5, <1>11, <2>2 DEF Removed
        <3>2. i # 0 => t[i] = IF i < p THEN s[i] ELSE s[i + 1]
            BY <1>5, <3>1 DEF Removed
        <3>3. CASE i < p
            <4>1. i \in 0..Len(s) /\ i # p /\ At(t, l, i) = At(s, l, i)
                BY <1>5, <3>1, <3>2, <3>3 DEF At
            <4>2. QED BY <1>1, <1>11, <2>2, <3>3, <4>1
        <3>4. CASE ~(i < p)
            <4>1. /\ i + 1 \in 0..Len(s) /\ i # 0 /\ i + 1 # 0 /\ i + 1 # p
                  /\ ~(i + 1 < p) /\ i = (i + 1) - 1
                BY <1>5, <3>1, <3>4
            <4>2. At(t, l, i) = At(s, l, i + 1)
                BY <3>2, <3>4, <4>1 DEF At
            <4>3. QED BY <1>1, <1>11, <2>2, <4>1, <4>2
        <3>5. QED BY <3>3, <3>4
    <2>3. QED BY <2>1, <2>2
<1>17. Apart(sq)
    BY DEF Sound
<1>18. Apart(sq2)
    <2>1. ASSUME NEW m \in List, NEW k \in List,
                 NEW i \in 0..Len(sq2[m]), NEW j \in 0..Len(sq2[k]),
                 At(sq2[m], m, i) = At(sq2[k], k, j)
          PROVE  m = k /\ i = j
        <3>1. PICK ii \in 0..Len(sq[m]) :
                  /\ At(sq2[m], m, i) = At(sq[m], m, ii)
                  /\ i = IF m # l THEN ii ELSE IF ii < p THEN ii ELSE ii - 1
            BY <1>16
        <3>2. PICK jj \in 0..Len(sq[k]) :
                  /\ At(sq2[k], k, j) = At(sq[k], k, jj)
                  /\ j = IF k # l THEN jj ELSE IF jj < p THEN jj ELSE jj - 1
            BY <1>16
        <3>3. m = k /\ ii = jj
            BY <1>17, <2>1, <3>1, <3>2 DEF Apart
        <3>4. QED BY <3>1, <3>2, <3>3
    <2>2. QED BY <2>1 DEF Apart
<1>19. Free(sq2, e)
    <2>1. ASSUME NEW m \in List, NEW i \in DOMAIN sq2[m], sq2[m][i] = e
          PROVE  FALSE
        <3>1. sq2[m] \in Seq(Entry)
            BY <1>11
        <3>2. i \in 0..Len(sq2[m]) /\ At(sq2[m], m, i) = e
            BY <2>1, <3>1, PlacesAre
        <3>3. PICK j \in 0..Len(sq[m]) : At(sq[m], m, j) = e /\ (m = l => j # p)
            BY <1>16, <3>2
        <3>4. QED BY <1>1, <1>6, <1>7, <1>17, <3>3 DEF Apart
    <2>2. QED BY <1>7, <2>1 DEF Free
<1>20. QED BY <1>1, <1>2, <1>3, <1>12, <1>13, <1>15, <1>18, <1>19 DEF Sound

-----------------------------------------------------------------------------
(* The lists stay sound *)

RingInv == Sound(next, prev, num, seq)

\* A step that puts an entry in.
LEMMA InsertKeeps ==
    ASSUME RingInv, NEW l \in List, NEW e, Loose(e),
           NEW p \in 0..Len(seq[l]), NEW t, Inserted(t, seq[l], p, e),
           num' = [num EXCEPT ![l] = @ + 1], seq' = [seq EXCEPT ![l] = t],
           \/ Becomes(Linked(next, prev, At(seq[l], l, p), e))
           \/ Becomes(LinkedBefore(next, prev, At(seq[l], l, After(seq[l], p)), e))
    PROVE  RingInv'
<1>1. Free(seq, e)
    BY DEF Free, Loose, InSome, ToSet
<1>2. ASSUME NEW r, r = Linked(next, prev, At(seq[l], l, p), e), Becomes(r)
      PROVE  RingInv'
    <2>1. Sound(r.next, r.prev, num', seq')
        BY <1>1, <1>2, LinkedIs DEF RingInv
    <2>2. QED BY <1>2, <2>1 DEF RingInv, Becomes
<1>3. ASSUME NEW r, r = LinkedBefore(next, prev, At(seq[l], l, After(seq[l], p)), e), Becomes(r)
      PROVE  RingInv'
    <2>1. Sound(r.next, r.prev, num', seq')
        BY <1>1, <1>3, LinkedBeforeIs DEF RingInv
    <2>2. QED BY <1>3, <2>1 DEF RingInv, Becomes
<1>4. QED BY <1>2, <1>3

\* A step that takes one out.
LEMMA RemoveKeeps ==
    ASSUME RingInv, NEW l \in List, NEW p \in 1..Len(seq[l]),
           NEW t, Removed(t, seq[l], p),
           num' = [num EXCEPT ![l] = @ - 1], seq' = [seq EXCEPT ![l] = t],
           Becomes(Unlinked(next, prev, seq[l][p]))
    PROVE  RingInv'
<1>1. PICK r : r = Unlinked(next, prev, seq[l][p])
    OBVIOUS
<1>2. PICK sq2 : sq2 = [seq EXCEPT ![l] = t]
    OBVIOUS
<1>3. Sound(r.next, r.prev, [num EXCEPT ![l] = @ - 1], sq2)
    BY <1>1, <1>2, UnlinkedIs DEF RingInv
<1>4. QED BY <1>1, <1>2, <1>3 DEF RingInv, Becomes

\* A step that carries one over, to the front of its new list or to its back.
LEMMA MoveKeeps ==
    ASSUME RingInv, NEW src \in List, NEW i \in DOMAIN seq[src], NEW dst \in List,
           list_move_back(src, i, dst) \/ list_move_front(src, i, dst)
    PROVE  RingInv'
<1>1. PICK e : e = seq[src][i]
    OBVIOUS
<1>2. PICK u : u = Unlinked(next, prev, e)
    OBVIOUS
<1>3. PICK nm1, sq1 : /\ nm1 = [num EXCEPT ![src] = @ - 1]
                      /\ sq1 = [seq EXCEPT ![src] = RemoveAt(@, i)]
    OBVIOUS
<1>4. /\ seq \in [List -> Seq(Entry)] /\ seq[src] \in Seq(Entry)
      /\ i \in 1..Len(seq[src]) /\ seq[src] # <<>> /\ e \in Entry
    BY <1>1 DEF RingInv, Sound, Typed
<1>5. Removed(RemoveAt(seq[src], i), seq[src], i)
    BY <1>4, RemovedIs
<1>6. Sound(u.next, u.prev, nm1, sq1) /\ Free(sq1, e)
    <2>1. PICK t : t = RemoveAt(seq[src], i)
        OBVIOUS
    <2>2. Removed(t, seq[src], i) /\ sq1 = [seq EXCEPT ![src] = t]
        BY <1>3, <1>5, <2>1
    <2>3. u = Unlinked(next, prev, seq[src][i]) /\ Sound(next, prev, num, seq)
        BY <1>1, <1>2 DEF RingInv
    <2>4. Sound(u.next, u.prev, [num EXCEPT ![src] = @ - 1], sq1) /\ Free(sq1, seq[src][i])
        BY <1>4, <2>2, <2>3, UnlinkedIs
    <2>5. QED BY <1>1, <1>3, <2>4
<1>7. sq1[dst] \in Seq(Entry)
    BY <1>6 DEF Sound, Typed
<1>8. Len(sq1[dst]) \in Nat /\ 0 \in 0..Len(sq1[dst]) /\ Len(sq1[dst]) \in 0..Len(sq1[dst])
    BY <1>7
<1>9. CASE list_move_back(src, i, dst)
    <2>1. PICK r : r = LinkedBefore(u.next, u.prev, dst, e)
        OBVIOUS
    <2>2. /\ next' = r.next /\ prev' = r.prev
          /\ num' = [nm1 EXCEPT ![dst] = @ + 1]
          /\ seq' = [sq1 EXCEPT ![dst] = Append(@, e)]
        BY <1>1, <1>2, <1>3, <1>9, <2>1 DEF list_move_back, Becomes
    <2>3. Inserted(Append(sq1[dst], e), sq1[dst], Len(sq1[dst]), e)
        BY <1>4, <1>7, EndsInsert
    <2>4. At(sq1[dst], dst, After(sq1[dst], Len(sq1[dst]))) = dst
        BY DEF At, After
    <2>5. Sound(r.next, r.prev, [nm1 EXCEPT ![dst] = @ + 1], [sq1 EXCEPT ![dst] = Append(sq1[dst], e)])
        BY <1>6, <1>8, <2>1, <2>3, <2>4, LinkedBeforeIs
    <2>6. QED BY <2>2, <2>5 DEF RingInv
<1>10. CASE list_move_front(src, i, dst)
    <2>1. PICK r : r = Linked(u.next, u.prev, dst, e)
        OBVIOUS
    <2>2. /\ next' = r.next /\ prev' = r.prev
          /\ num' = [nm1 EXCEPT ![dst] = @ + 1]
          /\ seq' = [sq1 EXCEPT ![dst] = <<e>> \o @]
        BY <1>1, <1>2, <1>3, <1>10, <2>1 DEF list_move_front, Becomes
    <2>3. Inserted(<<e>> \o sq1[dst], sq1[dst], 0, e)
        BY <1>4, <1>7, EndsInsert
    <2>4. At(sq1[dst], dst, 0) = dst
        BY DEF At
    <2>5. Sound(r.next, r.prev, [nm1 EXCEPT ![dst] = @ + 1], [sq1 EXCEPT ![dst] = <<e>> \o sq1[dst]])
        BY <1>6, <1>8, <2>1, <2>3, <2>4, LinkedIs
    <2>6. QED BY <2>2, <2>5 DEF RingInv
<1>11. QED BY <1>9, <1>10

\* The head of a list that is not linked to itself has entries, the first and the
\* last of which its pointers name.
LEMMA HeadKnows ==
    ASSUME RingInv, NEW l \in List, next[l] # l
    PROVE  /\ seq[l] \in Seq(Entry) /\ seq[l] # <<>>
           /\ Len(seq[l]) \in Nat /\ Len(seq[l]) >= 1
           /\ next[l] = seq[l][1] /\ prev[l] = seq[l][Len(seq[l])]
<1>1. PICK s : s = seq[l]
    OBVIOUS
<1>2. s \in Seq(Entry) /\ Len(s) \in Nat
    BY <1>1 DEF RingInv, Sound, Typed
<1>3. \A i \in 0..Len(s) : /\ next[At(s, l, i)] = At(s, l, After(s, i))
                           /\ prev[At(s, l, After(s, i))] = At(s, l, i)
    <2>1. \A a, b : Edge(s, l, a, b) => next[a] = b /\ prev[b] = a
        BY <1>1 DEF RingInv, Sound, Closed
    <2>2. \A i \in 0..Len(s) : Edge(s, l, At(s, l, i), At(s, l, After(s, i)))
        BY DEF Edge
    <2>3. QED BY <2>1, <2>2
<1>4. Len(s) # 0
    <2> SUFFICES ASSUME Len(s) = 0
                 PROVE  FALSE
        OBVIOUS
    <2>1. At(s, l, 0) = l /\ After(s, 0) = 0
        BY DEF At, After
    <2>2. QED BY <1>2, <1>3, <2>1
<1>5. At(s, l, 0) = l /\ At(s, l, After(s, 0)) = s[1]
    BY <1>2, <1>4 DEF At, After
<1>6. At(s, l, Len(s)) = s[Len(s)] /\ At(s, l, After(s, Len(s))) = l
    BY <1>2, <1>4 DEF At, After
<1>7. next[l] = s[1] /\ prev[l] = s[Len(s)]
    BY <1>2, <1>3, <1>5, <1>6
<1>8. s # <<>>
    BY <1>4
<1>9. QED BY <1>1, <1>2, <1>4, <1>7, <1>8

\* Every operation of list.c keeps the rings.
LEMMA RingKept == RingInv /\ [Next]_vars => RingInv'
<1> SUFFICES ASSUME RingInv, Next
             PROVE  RingInv'
    BY DEF vars, RingInv
<1>1. seq \in [List -> Seq(Entry)]
    BY DEF RingInv, Sound, Typed
<1>2. ASSUME NEW l \in List, NEW e \in Entry, list_insert_front(l, e)
      PROVE  RingInv'
    <2>1. seq[l] \in Seq(Entry) /\ Len(seq[l]) \in Nat
        BY <1>1
    <2>2. Inserted(<<e>> \o seq[l], seq[l], 0, e)
        BY <2>1, EndsInsert
    <2>3. At(seq[l], l, 0) = l /\ 0 \in 0..Len(seq[l])
        BY <2>1 DEF At
    <2>4. QED BY <1>2, <2>2, <2>3, InsertKeeps DEF list_insert_front
<1>3. ASSUME NEW l \in List, NEW e \in Entry, list_insert_back(l, e)
      PROVE  RingInv'
    <2>1. seq[l] \in Seq(Entry) /\ Len(seq[l]) \in 0..Len(seq[l])
        BY <1>1
    <2>2. Inserted(Append(seq[l], e), seq[l], Len(seq[l]), e)
        BY <2>1, EndsInsert
    <2>3. At(seq[l], l, After(seq[l], Len(seq[l]))) = l
        BY DEF At, After
    <2>4. QED BY <1>3, <2>1, <2>2, <2>3, InsertKeeps DEF list_insert_back
<1>4. ASSUME NEW l \in List, NEW e \in Entry, NEW i \in DOMAIN seq[l],
             list_insert_after(l, i, e)
      PROVE  RingInv'
    <2>1. seq[l] \in Seq(Entry) /\ i \in 0..Len(seq[l]) /\ i # 0
        BY <1>1
    <2>2. Inserted(InsertAt(seq[l], i + 1, e), seq[l], i, e)
        BY <2>1, InsertAtIs
    <2>3. At(seq[l], l, i) = seq[l][i]
        BY <2>1 DEF At
    <2>4. QED BY <1>4, <2>1, <2>2, <2>3, InsertKeeps DEF list_insert_after
<1>5. ASSUME NEW l \in List, NEW e \in Entry, NEW i \in DOMAIN seq[l],
             list_insert_before(l, i, e)
      PROVE  RingInv'
    <2>1. seq[l] \in Seq(Entry) /\ i - 1 \in 0..Len(seq[l]) /\ (i - 1) + 1 = i /\ i # 0
        BY <1>1
    <2>2. Inserted(InsertAt(seq[l], i, e), seq[l], i - 1, e)
        BY <2>1, InsertAtIs
    <2>3. At(seq[l], l, After(seq[l], i - 1)) = seq[l][i]
        <3>1. i - 1 # Len(seq[l])
            BY <1>1
        <3>2. QED BY <2>1, <3>1 DEF At, After
    <2>4. QED BY <1>5, <2>1, <2>2, <2>3, InsertKeeps DEF list_insert_before
<1>6. ASSUME NEW l \in List, NEW i \in DOMAIN seq[l], list_rm(l, i)
      PROVE  RingInv'
    <2>1. seq[l] \in Seq(Entry) /\ i \in 1..Len(seq[l]) /\ seq[l] # <<>>
        BY <1>1
    <2>2. Removed(RemoveAt(seq[l], i), seq[l], i)
        BY <2>1, RemovedIs
    <2>3. QED BY <1>6, <2>1, <2>2, RemoveKeeps DEF list_rm
<1>7. ASSUME NEW l \in List, list_pop_front(l)
      PROVE  RingInv'
    <2>1. /\ seq[l] \in Seq(Entry) /\ seq[l] # <<>>
          /\ 1 \in 1..Len(seq[l]) /\ next[l] = seq[l][1]
        BY <1>7, HeadKnows DEF list_pop_front
    <2>2. Removed(Tail(seq[l]), seq[l], 1)
        BY <2>1, RemovedIs
    <2>3. QED BY <1>7, <2>1, <2>2, RemoveKeeps DEF list_pop_front
<1>8. ASSUME NEW l \in List, list_pop_back(l)
      PROVE  RingInv'
    <2>1. /\ seq[l] \in Seq(Entry) /\ seq[l] # <<>>
          /\ Len(seq[l]) \in 1..Len(seq[l]) /\ prev[l] = seq[l][Len(seq[l])]
        BY <1>8, HeadKnows DEF list_pop_back
    <2>2. Removed(Front(seq[l]), seq[l], Len(seq[l]))
        BY <2>1, RemovedIs
    <2>3. QED BY <1>8, <2>1, <2>2, RemoveKeeps DEF list_pop_back
<1>9. QED BY <1>2, <1>3, <1>4, <1>5, <1>6, <1>7, <1>8, MoveKeeps DEF Next

\* list_create makes rings of the heads alone.
LEMMA RingInit == Init => RingInv
<1> SUFFICES ASSUME Init
             PROVE  RingInv
    OBVIOUS
<1>1. /\ next = [n \in Node |-> n]
      /\ prev = [n \in Node |-> n]
      /\ num = [l \in List |-> 0]
      /\ seq = [l \in List |-> <<>>]
    BY DEF Init
<1>2. Typed(next, prev, num, seq) /\ Counted(num, seq)
    BY <1>1 DEF Typed, Counted
<1>3. \A l \in List : seq[l] = <<>> /\ Len(seq[l]) = 0 /\ l \in Node
    BY <1>1 DEF Node
<1>4. Closed(next, prev, seq)
    BY <1>1, <1>3 DEF Closed, Edge, At, After
<1>5. Apart(seq)
    BY <1>3 DEF Apart, At
<1>6. QED BY <1>2, <1>4, <1>5 DEF RingInv, Sound

-----------------------------------------------------------------------------
(* What follows *)

\* The positions of Ring are the places, counted from 1.
LEMMA RingIs ==
    ASSUME seq \in [List -> Seq(Entry)], NEW l \in List
    PROVE  /\ Len(Ring(l)) = Len(seq[l]) + 1
           /\ \A i \in 1..Len(Ring(l)) : Ring(l)[i] = At(seq[l], l, i - 1)
<1>1. PICK s : s = seq[l]
    OBVIOUS
<1>2. s \in Seq(Node) /\ <<l>> \in Seq(Node) /\ Len(<<l>>) = 1 /\ <<l>>[1] = l
    BY <1>1 DEF Node
<1>3. Len(s) \in Nat
    BY <1>2
<1>4. /\ Len(<<l>> \o s) = Len(s) + 1
      /\ \A i \in 1..(Len(s) + 1) :
            (<<l>> \o s)[i] = IF i <= 1 THEN <<l>>[i] ELSE s[i - 1]
    BY <1>2, <1>3, ConcatProperties
<1>5. \A i \in 1..(Len(s) + 1) : (<<l>> \o s)[i] = At(s, l, i - 1)
    <2>1. ASSUME NEW i \in 1..(Len(s) + 1)
          PROVE  (<<l>> \o s)[i] = At(s, l, i - 1)
        <3>1. CASE i = 1
            BY <1>2, <1>4, <3>1 DEF At
        <3>2. CASE i # 1
            <4>1. ~(i <= 1) /\ i - 1 # 0
                BY <1>3, <3>2
            <4>2. QED BY <1>4, <4>1 DEF At
        <3>3. QED BY <3>1, <3>2
    <2>2. QED BY <2>1
<1>6. QED BY <1>1, <1>4, <1>5 DEF Ring

\* The invariant is stronger than what the walks rely on.
LEMMA RingsFollow == RingInv => TypeOK /\ RingsClosed /\ NumCounts /\ NoEntryShared
<1> SUFFICES ASSUME RingInv
             PROVE  TypeOK /\ RingsClosed /\ NumCounts /\ NoEntryShared
    OBVIOUS
<1>1. Typed(next, prev, num, seq) /\ Closed(next, prev, seq) /\ Apart(seq) /\ Counted(num, seq)
    BY DEF RingInv, Sound
<1>2. TypeOK
    <2>1. \A l \in List : num[l] \in Nat
        BY <1>1 DEF Typed, Counted
    <2>2. QED BY <1>1, <2>1 DEF Typed, TypeOK
<1>3. NumCounts
    BY <1>1 DEF Counted, NumCounts
<1>4. NoEntryShared
    <2>1. ASSUME NEW l \in List, NEW m \in List, NEW i \in DOMAIN seq[l], NEW j \in DOMAIN seq[m],
                 seq[l][i] = seq[m][j]
          PROVE  l = m /\ i = j
        <3>1. seq[l] \in Seq(Entry) /\ seq[m] \in Seq(Entry)
            BY <1>1 DEF Typed
        <3>2. i \in 0..Len(seq[l]) /\ At(seq[l], l, i) = seq[l][i]
            BY <3>1, PlacesAre
        <3>3. j \in 0..Len(seq[m]) /\ At(seq[m], m, j) = seq[m][j]
            BY <3>1, PlacesAre
        <3>4. QED BY <1>1, <2>1, <3>2, <3>3 DEF Apart
    <2>2. QED BY <2>1 DEF NoEntryShared
<1>5. RingsClosed
    <2>1. ASSUME NEW l \in List, NEW i \in 1..Len(Ring(l)),
                 NEW j, j = IF i = Len(Ring(l)) THEN 1 ELSE i + 1
          PROVE  next[Ring(l)[i]] = Ring(l)[j] /\ prev[Ring(l)[j]] = Ring(l)[i]
        <3>1. PICK s : s = seq[l]
            OBVIOUS
        <3>2. s \in Seq(Entry) /\ Len(s) \in Nat
            BY <1>1, <3>1 DEF Typed
        <3>3. /\ Len(Ring(l)) = Len(s) + 1
              /\ \A n \in 1..(Len(s) + 1) : Ring(l)[n] = At(s, l, n - 1)
            BY <1>1, <3>1, RingIs DEF Typed
        <3>4. /\ i \in 1..(Len(s) + 1) /\ i - 1 \in 0..Len(s)
              /\ j \in 1..(Len(s) + 1) /\ j - 1 = After(s, i - 1)
            BY <2>1, <3>2, <3>3 DEF After
        <3>5. Ring(l)[i] = At(s, l, i - 1) /\ Ring(l)[j] = At(s, l, After(s, i - 1))
            BY <3>3, <3>4
        <3>6. Edge(s, l, Ring(l)[i], Ring(l)[j])
            BY <3>4, <3>5 DEF Edge
        <3>7. QED BY <1>1, <3>1, <3>6 DEF Closed
    <2>2. QED BY <2>1 DEF RingsClosed
<1>6. QED BY <1>2, <1>3, <1>4, <1>5

LEMMA RingAlways == Spec => []RingInv
BY RingInit, RingKept, PTL DEF Spec

\* Pointers lead from nodes to nodes, and no count goes below zero.
THEOREM TypeCorrect == Spec => []TypeOK
<1>1. RingInv => TypeOK
    BY RingsFollow
<1>2. QED BY <1>1, RingAlways, PTL

\* However entries are put in, taken out and carried from list to list, a walk
\* along next visits what the list should hold, in order, and ends at the head,
\* and one along prev visits it in reverse.
THEOREM RingsAlwaysClosed == Spec => []RingsClosed
<1>1. RingInv => RingsClosed
    BY RingsFollow
<1>2. QED BY <1>1, RingAlways, PTL

\* num is the number of entries such a walk visits.
THEOREM NumAlwaysCounts == Spec => []NumCounts
<1>1. RingInv => NumCounts
    BY RingsFollow
<1>2. QED BY <1>1, RingAlways, PTL
=============================================================================
