----------------------------- MODULE DictProofs -----------------------------
(* Theorems about Dict, for every value of its constants. *)
EXTENDS Dict, Lemmas

Slot == [key : Key, val : Val]

\* A table of dict.c: every entry is in the chain of its key, and no key has two.
Sound(t) ==
    /\ t \in [Bucket -> Seq(Slot)]
    /\ \A b \in Bucket : \A i \in DOMAIN t[b] : Hash[t[b][i].key] = b
    /\ \A b \in Bucket : \A i, j \in DOMAIN t[b] : t[b][i].key = t[b][j].key => i = j

\* The keys of table t, and the map it stands for.
KeysOf(t) == {k \in Key : Has(t, k)}
MapOf(t) == [k \in Key |-> IF Has(t, k) THEN ValueOf(t, k) ELSE None]

-----------------------------------------------------------------------------
(* What the three ways to change a table do to the map it stands for *)

\* The chain of a key.
LEMMA ChainIs ==
    ASSUME NEW t, Sound(t), NEW k \in Key
    PROVE  /\ Hash[k] \in Bucket
           /\ t[Hash[k]] \in Seq(Slot)
           /\ Len(t[Hash[k]]) \in Nat
           /\ DOMAIN t[Hash[k]] = 1..Len(t[Hash[k]])
<1>1. Hash[k] \in Bucket
    BY DictAssumption
<1>2. t[Hash[k]] \in Seq(Slot)
    BY <1>1 DEF Sound
<1>3. QED BY <1>1, <1>2, LenProperties

\* Looking up a key that is there finds its entry, and no other is of that key.
LEMMA LookUpIs ==
    ASSUME NEW t, Sound(t), NEW k \in Key, Has(t, k)
    PROVE  LET n == dict_look_up_hash(t, k)
           IN  /\ n \in 1..Len(t[Hash[k]])
               /\ t[Hash[k]][n] = Entry(k, ValueOf(t, k))
               /\ ValueOf(t, k) \in Val
               /\ \A i \in 1..Len(t[Hash[k]]) : t[Hash[k]][i].key = k => i = n
<1> DEFINE s == t[Hash[k]]
           n == dict_look_up_hash(t, k)
<1>1. s \in Seq(Slot) /\ DOMAIN s = 1..Len(s) /\ Hash[k] \in Bucket
    BY ChainIs
<1>2. n \in DOMAIN s /\ s[n].key = k
    BY DEF Has, dict_look_up_hash
<1>3. \A i \in DOMAIN s : s[i].key = k => i = n
    BY <1>1, <1>2 DEF Sound
<1>4. ValueOf(t, k) = s[n].val
    BY DEF ValueOf
<1> HIDE DEF s, n
<1>5. s[n] \in Slot
    BY <1>1, <1>2, ElementOfSeq
<1>6. s[n] = Entry(k, s[n].val) /\ s[n].val \in Val
    BY <1>2, <1>5 DEF Entry, Slot
<1>7. QED BY <1>1, <1>2, <1>3, <1>4, <1>6 DEF s, n

\* An entry in the chain of its key is the one a lookup finds.
LEMMA EntryFound ==
    ASSUME NEW t, Sound(t), NEW k \in Key, NEW i \in 1..Len(t[Hash[k]]),
           t[Hash[k]][i].key = k
    PROVE  Has(t, k) /\ dict_look_up_hash(t, k) = i /\ ValueOf(t, k) = t[Hash[k]][i].val
<1>1. i \in DOMAIN t[Hash[k]]
    BY ChainIs
<1>2. Has(t, k)
    BY <1>1 DEF Has
<1>3. dict_look_up_hash(t, k) = i
    BY <1>2, LookUpIs
<1>4. QED BY <1>2, <1>3 DEF ValueOf

\* A key is looked up in one chain only.
LEMMA SameChain ==
    ASSUME NEW t, NEW u, NEW k, t[Hash[k]] = u[Hash[k]]
    PROVE  /\ Has(t, k) <=> Has(u, k)
           /\ ValueOf(t, k) = ValueOf(u, k)
BY DEF Has, ValueOf, dict_look_up_hash

\* Unlinking the entry of a key takes that key from the map.
LEMMA UnlinkedIs ==
    ASSUME NEW t, Sound(t), NEW k \in Key, Has(t, k)
    PROVE  /\ Sound(Unlinked(t, k))
           /\ \A q \in Key : Has(Unlinked(t, k), q) <=> Has(t, q) /\ q # k
           /\ \A q \in Key : Has(Unlinked(t, k), q) => ValueOf(Unlinked(t, k), q) = ValueOf(t, q)
<1> DEFINE h == Hash[k]
           s == t[h]
           n == dict_look_up_hash(t, k)
           r == RemoveAt(s, n)
           u == [t EXCEPT ![h] = r]
           Old(i) == IF i < n THEN i ELSE i + 1
           New(i) == IF i < n THEN i ELSE i - 1
<1>1. h \in Bucket /\ s \in Seq(Slot) /\ Len(s) \in Nat /\ DOMAIN s = 1..Len(s)
    BY ChainIs
<1>2. n \in 1..Len(s) /\ s[n].key = k /\ \A i \in 1..Len(s) : s[i].key = k => i = n
    <2>1. s[n] = Entry(k, ValueOf(t, k))
        BY LookUpIs
    <2>2. s[n].key = k
        BY <2>1 DEF Entry
    <2>3. QED BY <2>2, LookUpIs
<1>3. Unlinked(t, k) = u
    BY DEF Unlinked
<1>4. t \in [Bucket -> Seq(Slot)]
    BY DEF Sound
<1> HIDE DEF n
<1>5. r \in Seq(Slot) /\ Len(r) = Len(s) - 1
      /\ \A i \in 1..(Len(s) - 1) : r[i] = IF i < n THEN s[i] ELSE s[i + 1]
    BY <1>1, <1>2, RemoveAtIs
<1>6. u \in [Bucket -> Seq(Slot)] /\ u[h] = r /\ \A b \in Bucket : b # h => u[b] = t[b]
    BY <1>1, <1>4, <1>5
<1>7. DOMAIN r = 1..(Len(s) - 1)
    BY <1>5
<1> HIDE DEF r, u
<1>8. \A i \in DOMAIN r : Old(i) \in DOMAIN s /\ r[i] = s[Old(i)]
    BY <1>1, <1>2, <1>5, <1>7
<1>9. \A i \in DOMAIN s : i # n => New(i) \in DOMAIN r /\ r[New(i)] = s[i]
    <2> TAKE i \in DOMAIN s
    <2> HAVE i # n
    <2>1. i \in 1..Len(s)
        BY <1>1
    <2>2. CASE i < n
        BY <1>1, <1>2, <1>5, <1>7, <2>1, <2>2
    <2>3. CASE i > n
        <3>1. i - 1 \in 1..(Len(s) - 1) /\ ~(i - 1 < n) /\ (i - 1) + 1 = i
            BY <1>1, <1>2, <2>1, <2>3
        <3>2. r[i - 1] = s[i]
            BY <1>5, <3>1
        <3>3. New(i) = i - 1
            BY <1>1, <1>2, <2>1, <2>3
        <3>4. QED BY <1>7, <3>1, <3>2, <3>3
    <2>4. i < n \/ i > n
        BY <1>1, <1>2, <2>1
    <2>5. QED BY <2>2, <2>3, <2>4
<1>10. Sound(u)
    <2>1. ASSUME NEW b \in Bucket, NEW i \in DOMAIN u[b]
          PROVE  Hash[u[b][i].key] = b
        <3>1. CASE b # h
            BY <1>6, <2>1, <3>1 DEF Sound
        <3>2. CASE b = h
            <4>1. u[b] = r /\ r[i] = s[Old(i)] /\ Old(i) \in DOMAIN s
                BY <1>6, <1>8, <2>1, <3>2
            <4>2. QED BY <1>1, <3>2, <4>1 DEF Sound
        <3>3. QED BY <3>1, <3>2
    <2>2. ASSUME NEW b \in Bucket, NEW i \in DOMAIN u[b], NEW j \in DOMAIN u[b],
                 u[b][i].key = u[b][j].key
          PROVE  i = j
        <3>1. CASE b # h
            BY <1>6, <2>2, <3>1 DEF Sound
        <3>2. CASE b = h
            <4>1. Old(i) = Old(j)
                BY <1>1, <1>6, <1>8, <2>2, <3>2 DEF Sound
            <4>2. i \in Nat /\ j \in Nat /\ n \in Nat
                BY <1>1, <1>2, <1>6, <1>7, <3>2
            <4>3. QED BY <4>1, <4>2
        <3>3. QED BY <3>1, <3>2
    <2>3. QED BY <1>6, <2>1, <2>2 DEF Sound
<1>11. ASSUME NEW q \in Key
       PROVE  /\ Has(u, q) <=> Has(t, q) /\ q # k
              /\ Has(u, q) => ValueOf(u, q) = ValueOf(t, q)
    <2>1. CASE Hash[q] # h
        <3>1. Hash[q] \in Bucket /\ q # k
            BY <2>1, ChainIs
        <3>2. QED BY <1>6, <2>1, <3>1, SameChain
    <2>2. CASE Hash[q] = h /\ q = k
        <3>1. \A i \in DOMAIN r : s[Old(i)].key # k
            <4> TAKE i \in DOMAIN r
            <4>1. Old(i) # n /\ Old(i) \in 1..Len(s)
                BY <1>1, <1>2, <1>7, <1>8
            <4>2. QED BY <1>2, <4>1
        <3>2. ~Has(u, q)
            BY <1>6, <1>8, <2>2, <3>1 DEF Has
        <3>3. QED BY <2>2, <3>2
    <2>3. CASE Hash[q] = h /\ q # k
        <3>1. Has(t, q) => Has(u, q)
            BY <1>2, <1>6, <1>9, <2>3 DEF Has
        <3>2. ASSUME Has(u, q)
              PROVE  Has(t, q) /\ ValueOf(u, q) = ValueOf(t, q)
            <4>1. PICK i \in DOMAIN r : r[i].key = q
                BY <1>6, <2>3, <3>2 DEF Has
            <4>2. i \in 1..Len(u[Hash[q]])
                BY <1>5, <1>6, <1>7, <2>3, <4>1
            <4>3. ValueOf(u, q) = r[i].val
                BY <1>6, <1>10, <2>3, <4>1, <4>2, EntryFound
            <4>4. Old(i) \in 1..Len(t[Hash[q]]) /\ r[i] = t[Hash[q]][Old(i)]
                BY <1>1, <1>8, <2>3
            <4>5. Has(t, q) /\ ValueOf(t, q) = t[Hash[q]][Old(i)].val
                BY <4>1, <4>4, EntryFound
            <4>6. QED BY <4>3, <4>4, <4>5
        <3>3. QED BY <2>3, <3>1, <3>2
    <2>4. QED BY <2>1, <2>2, <2>3
<1>12. QED BY <1>3, <1>10, <1>11

\* Linking an entry of a key that is not there adds that key to the map.
LEMMA LinkedIs ==
    ASSUME NEW t, Sound(t), NEW k \in Key, ~Has(t, k), NEW v \in Val
    PROVE  /\ Sound(Linked(t, k, v))
           /\ \A q \in Key : Has(Linked(t, k, v), q) <=> Has(t, q) \/ q = k
           /\ \A q \in Key : Has(t, q) => ValueOf(Linked(t, k, v), q) = ValueOf(t, q)
           /\ ValueOf(Linked(t, k, v), k) = v
<1> DEFINE h == Hash[k]
           s == t[h]
           r == Append(s, Entry(k, v))
           u == [t EXCEPT ![h] = r]
           m == Len(s)
<1>1. h \in Bucket /\ s \in Seq(Slot) /\ m \in Nat /\ DOMAIN s = 1..m
    BY ChainIs
<1>2. \A i \in 1..m : s[i].key # k
    BY <1>1 DEF Has
<1>3. Linked(t, k, v) = u
    BY DEF Linked
<1>4. t \in [Bucket -> Seq(Slot)]
    BY DEF Sound
<1>5. Entry(k, v) \in Slot /\ Entry(k, v).key = k /\ Entry(k, v).val = v
    BY DEF Entry, Slot
<1>6. r \in Seq(Slot) /\ Len(r) = m + 1 /\ DOMAIN r = 1..(m + 1)
      /\ (\A i \in 1..m : r[i] = s[i]) /\ r[m + 1] = Entry(k, v)
    BY <1>1, <1>5, AppendProperties
<1>7. u \in [Bucket -> Seq(Slot)] /\ u[h] = r /\ \A b \in Bucket : b # h => u[b] = t[b]
    BY <1>1, <1>4, <1>6
<1> HIDE DEF r, u, m
<1>8. Sound(u)
    <2>1. ASSUME NEW b \in Bucket, NEW i \in DOMAIN u[b]
          PROVE  Hash[u[b][i].key] = b
        <3>1. CASE b # h
            BY <1>7, <2>1, <3>1 DEF Sound
        <3>2. CASE b = h
            <4>1. i \in 1..(m + 1)
                BY <1>6, <1>7, <2>1, <3>2
            <4>2. CASE i = m + 1
                BY <1>5, <1>6, <1>7, <3>2, <4>2
            <4>3. CASE i \in 1..m
                <5>1. u[b][i] = s[i] /\ i \in DOMAIN s
                    BY <1>1, <1>6, <1>7, <3>2, <4>3
                <5>2. QED BY <1>1, <3>2, <5>1 DEF Sound
            <4>4. QED BY <1>1, <4>1, <4>2, <4>3
        <3>3. QED BY <3>1, <3>2
    <2>2. ASSUME NEW b \in Bucket, NEW i \in DOMAIN u[b], NEW j \in DOMAIN u[b],
                 u[b][i].key = u[b][j].key
          PROVE  i = j
        <3>1. CASE b # h
            BY <1>7, <2>2, <3>1 DEF Sound
        <3>2. CASE b = h
            <4>1. i \in 1..(m + 1) /\ j \in 1..(m + 1) /\ r[i].key = r[j].key
                BY <1>6, <1>7, <2>2, <3>2
            <4>2. \A x \in 1..m : r[x].key # k
                BY <1>2, <1>6
            <4>3. r[m + 1].key = k
                BY <1>5, <1>6
            <4>4. CASE i \in 1..m /\ j \in 1..m
                <5>1. s[i].key = s[j].key /\ i \in DOMAIN s /\ j \in DOMAIN s
                    BY <1>1, <1>6, <4>1, <4>4
                <5>2. QED BY <1>1, <5>1 DEF Sound
            <4>5. (i \in 1..m \/ i = m + 1) /\ (j \in 1..m \/ j = m + 1)
                BY <1>1, <4>1
            <4>6. QED BY <4>1, <4>2, <4>3, <4>4, <4>5
        <3>3. QED BY <3>1, <3>2
    <2>3. QED BY <1>7, <2>1, <2>2 DEF Sound
<1>9. Has(u, k) /\ ValueOf(u, k) = v
    <2>1. m + 1 \in 1..Len(u[Hash[k]]) /\ u[Hash[k]][m + 1] = Entry(k, v)
        BY <1>1, <1>6, <1>7
    <2>2. QED BY <1>5, <1>8, <2>1, EntryFound
<1>10. ASSUME NEW q \in Key, q # k
       PROVE  /\ Has(u, q) <=> Has(t, q)
              /\ Has(t, q) => ValueOf(u, q) = ValueOf(t, q)
    <2>1. CASE Hash[q] # h
        <3>1. Hash[q] \in Bucket
            BY ChainIs
        <3>2. QED BY <1>7, <2>1, <3>1, SameChain
    <2>2. CASE Hash[q] = h
        <3>1. Has(u, q) => Has(t, q)
            <4>1. SUFFICES ASSUME Has(u, q) PROVE Has(t, q)
                OBVIOUS
            <4>2. PICK i \in DOMAIN r : r[i].key = q
                BY <1>7, <2>2, <4>1 DEF Has
            <4>3. i \in 1..m /\ s[i].key = q
                BY <1>1, <1>5, <1>6, <1>10, <4>2
            <4>4. QED BY <1>1, <2>2, <4>3 DEF Has
        <3>2. ASSUME Has(t, q)
              PROVE  Has(u, q) /\ ValueOf(u, q) = ValueOf(t, q)
            <4>1. PICK i \in 1..m : s[i].key = q
                BY <1>1, <2>2, <3>2 DEF Has
            <4>2. i \in 1..Len(u[Hash[q]]) /\ u[Hash[q]][i] = s[i]
                BY <1>1, <1>6, <1>7, <2>2
            <4>3. Has(u, q) /\ ValueOf(u, q) = s[i].val
                BY <1>8, <4>1, <4>2, EntryFound
            <4>4. i \in 1..Len(t[Hash[q]]) /\ t[Hash[q]][i] = s[i]
                BY <2>2 DEF m
            <4>5. ValueOf(t, q) = s[i].val
                BY <4>1, <4>4, EntryFound
            <4>6. QED BY <4>3, <4>5
        <3>3. QED BY <3>1, <3>2
    <2>3. QED BY <2>1, <2>2
<1>11. QED BY <1>3, <1>8, <1>9, <1>10

\* Replacing the value of an entry changes the value of its key.
LEMMA ReplacedIs ==
    ASSUME NEW t, Sound(t), NEW k \in Key, Has(t, k), NEW v \in Val
    PROVE  /\ Sound(Replaced(t, k, v))
           /\ \A q \in Key : Has(Replaced(t, k, v), q) <=> Has(t, q)
           /\ \A q \in Key : Has(t, q) /\ q # k => ValueOf(Replaced(t, k, v), q) = ValueOf(t, q)
           /\ ValueOf(Replaced(t, k, v), k) = v
<1> DEFINE h == Hash[k]
           s == t[h]
           n == dict_look_up_hash(t, k)
           r == [s EXCEPT ![n] = Entry(k, v)]
           u == [t EXCEPT ![h] = r]
<1>1. h \in Bucket /\ s \in Seq(Slot) /\ Len(s) \in Nat /\ DOMAIN s = 1..Len(s)
    BY ChainIs
<1>2. n \in 1..Len(s) /\ s[n].key = k
    <2>1. n \in 1..Len(s) /\ s[n] = Entry(k, ValueOf(t, k))
        BY LookUpIs
    <2>2. QED BY <2>1 DEF Entry
<1>3. Replaced(t, k, v) = u
    BY DEF Replaced
<1>4. t \in [Bucket -> Seq(Slot)]
    BY DEF Sound
<1>5. Entry(k, v) \in Slot /\ Entry(k, v).key = k /\ Entry(k, v).val = v
    BY DEF Entry, Slot
<1> HIDE DEF n
<1>6. r \in Seq(Slot) /\ Len(r) = Len(s) /\ DOMAIN r = 1..Len(s)
      /\ (\A i \in 1..Len(s) : i # n => r[i] = s[i]) /\ r[n] = Entry(k, v)
    BY <1>1, <1>2, <1>5, ExceptSeq
<1>7. u \in [Bucket -> Seq(Slot)] /\ u[h] = r /\ \A b \in Bucket : b # h => u[b] = t[b]
    BY <1>1, <1>4, <1>6
<1> HIDE DEF r, u
<1>8. \A i \in 1..Len(s) : r[i].key = s[i].key
    BY <1>2, <1>5, <1>6
<1>9. Sound(u)
    <2>1. ASSUME NEW b \in Bucket
          PROVE  DOMAIN u[b] = DOMAIN t[b] /\ \A i \in DOMAIN t[b] : u[b][i].key = t[b][i].key
        BY <1>1, <1>6, <1>7, <1>8
    <2>2. QED BY <1>7, <2>1 DEF Sound
<1>10. Has(u, k) /\ ValueOf(u, k) = v
    <2>1. n \in 1..Len(u[Hash[k]]) /\ u[Hash[k]][n] = Entry(k, v)
        BY <1>2, <1>6, <1>7, <1>1
    <2>2. QED BY <1>5, <1>9, <2>1, EntryFound
<1>11. ASSUME NEW q \in Key, q # k
       PROVE  /\ Has(u, q) <=> Has(t, q)
              /\ Has(t, q) => ValueOf(u, q) = ValueOf(t, q)
    <2>1. CASE Hash[q] # h
        <3>1. Hash[q] \in Bucket
            BY ChainIs
        <3>2. QED BY <1>7, <2>1, <3>1, SameChain
    <2>2. CASE Hash[q] = h
        <3>1. Has(u, q) <=> Has(t, q)
            BY <1>1, <1>6, <1>7, <1>8, <2>2 DEF Has
        <3>2. ASSUME Has(t, q)
              PROVE  ValueOf(u, q) = ValueOf(t, q)
            <4>1. PICK i \in 1..Len(s) : s[i].key = q
                BY <1>1, <2>2, <3>2 DEF Has
            <4>2. i # n
                BY <1>2, <1>11, <4>1
            <4>3. i \in 1..Len(u[Hash[q]]) /\ u[Hash[q]][i] = s[i]
                BY <1>1, <1>6, <1>7, <2>2, <4>2
            <4>4. ValueOf(u, q) = s[i].val
                BY <1>9, <4>1, <4>3, EntryFound
            <4>5. i \in 1..Len(t[Hash[q]]) /\ t[Hash[q]][i] = s[i]
                BY <2>2
            <4>6. ValueOf(t, q) = s[i].val
                BY <4>1, <4>5, EntryFound
            <4>7. QED BY <4>4, <4>6
        <3>3. QED BY <3>1, <3>2
    <2>3. QED BY <2>1, <2>2
<1>12. QED BY <1>3, <1>9, <1>10, <1>11

-----------------------------------------------------------------------------
(* The operations, on the set of keys and on the map *)

LEMMA MapIs ==
    ASSUME NEW t, Sound(t), NEW k \in Key
    PROVE  /\ MapOf(t)[k] = None <=> ~Has(t, k)
           /\ Has(t, k) => MapOf(t)[k] = ValueOf(t, k) /\ MapOf(t)[k] \in Val
<1>1. Has(t, k) => ValueOf(t, k) \in Val
    BY LookUpIs
<1>2. None \notin Val
    BY DictAssumption
<1>3. QED BY <1>1, <1>2 DEF MapOf

LEMMA AddDoes ==
    ASSUME Sound(tbl), NEW k \in Key, NEW v \in Val, dict_add(k, v)
    PROVE  /\ Sound(tbl')
           /\ KeysOf(tbl') = KeysOf(tbl) \cup {k}
           /\ MapOf(tbl') = [MapOf(tbl) EXCEPT ![k] = v]
           /\ num' = IF k \in KeysOf(tbl) THEN num ELSE num + 1
<1>1. /\ Sound(tbl')
      /\ \A q \in Key : Has(tbl', q) <=> Has(tbl, q) \/ q = k
      /\ \A q \in Key : Has(tbl, q) /\ q # k => ValueOf(tbl', q) = ValueOf(tbl, q)
      /\ ValueOf(tbl', k) = v
    <2>1. CASE Has(tbl, k)
        BY <2>1, ReplacedIs DEF dict_add
    <2>2. CASE ~Has(tbl, k)
        BY <2>2, LinkedIs DEF dict_add
    <2>3. QED BY <2>1, <2>2
<1>2. MapOf(tbl') = [MapOf(tbl) EXCEPT ![k] = v]
    BY <1>1 DEF MapOf
<1>3. num' = IF k \in KeysOf(tbl) THEN num ELSE num + 1
    BY DEF dict_add, KeysOf
<1>4. QED BY <1>1, <1>2, <1>3 DEF KeysOf

LEMMA RmDoes ==
    ASSUME Sound(tbl), NEW k \in Key, dict_rm(k)
    PROVE  /\ Sound(tbl')
           /\ KeysOf(tbl') = KeysOf(tbl) \ {k}
           /\ MapOf(tbl') = [MapOf(tbl) EXCEPT ![k] = None]
           /\ num' = IF k \in KeysOf(tbl) THEN num - 1 ELSE num
<1>1. /\ Sound(tbl')
      /\ \A q \in Key : Has(tbl', q) <=> Has(tbl, q) /\ q # k
      /\ \A q \in Key : Has(tbl', q) => ValueOf(tbl', q) = ValueOf(tbl, q)
    <2>1. CASE Has(tbl, k)
        BY <2>1, UnlinkedIs DEF dict_rm
    <2>2. CASE ~Has(tbl, k)
        BY <2>2 DEF dict_rm
    <2>3. QED BY <2>1, <2>2
<1>2. MapOf(tbl') = [MapOf(tbl) EXCEPT ![k] = None]
    BY <1>1 DEF MapOf
<1>3. num' = IF k \in KeysOf(tbl) THEN num - 1 ELSE num
    BY DEF dict_rm, KeysOf
<1>4. QED BY <1>1, <1>2, <1>3 DEF KeysOf

LEMMA RenameDoes ==
    ASSUME Sound(tbl), NEW k \in Key, NEW n \in Key, dict_rename(k, n), Has(tbl, k)
    PROVE  /\ Sound(tbl')
           /\ KeysOf(tbl') = (KeysOf(tbl) \ {k}) \cup {n}
           /\ MapOf(tbl') = [[MapOf(tbl) EXCEPT ![k] = None] EXCEPT ![n] = MapOf(tbl)[k]]
           /\ num' = num - 1
           /\ uncounted' = IF n \in KeysOf(tbl) \ {k} THEN uncounted ELSE uncounted + 1
<1> DEFINE t == Unlinked(tbl, k)
           v == ValueOf(tbl, k)
<1>1. /\ Sound(t)
      /\ \A q \in Key : Has(t, q) <=> Has(tbl, q) /\ q # k
      /\ \A q \in Key : Has(t, q) => ValueOf(t, q) = ValueOf(tbl, q)
    BY UnlinkedIs
<1>2. v \in Val /\ MapOf(tbl)[k] = v
    BY LookUpIs, MapIs
<1>3. \/ Has(t, n) /\ tbl' = Replaced(t, n, v) /\ uncounted' = uncounted
      \/ ~Has(t, n) /\ tbl' = Linked(t, n, v) /\ uncounted' = uncounted + 1
    BY DEF dict_rename
<1> HIDE DEF t, v
<1>4. /\ Sound(tbl')
      /\ \A q \in Key : Has(tbl', q) <=> Has(t, q) \/ q = n
      /\ \A q \in Key : Has(t, q) /\ q # n => ValueOf(tbl', q) = ValueOf(t, q)
      /\ ValueOf(tbl', n) = v
    <2>1. CASE Has(t, n) /\ tbl' = Replaced(t, n, v)
        BY <1>1, <1>2, <2>1, ReplacedIs
    <2>2. CASE ~Has(t, n) /\ tbl' = Linked(t, n, v)
        BY <1>1, <1>2, <2>2, LinkedIs
    <2>3. QED BY <1>3, <2>1, <2>2
<1>5. \A q \in Key : Has(tbl', q) <=> (Has(tbl, q) /\ q # k) \/ q = n
    BY <1>1, <1>4
<1>6. MapOf(tbl') = [[MapOf(tbl) EXCEPT ![k] = None] EXCEPT ![n] = MapOf(tbl)[k]]
    <2>1. ASSUME NEW q \in Key
          PROVE  MapOf(tbl')[q] = IF q = n THEN v ELSE IF q = k THEN None ELSE MapOf(tbl)[q]
        <3>1. CASE q = n
            BY <1>4, <3>1 DEF MapOf
        <3>2. CASE q # n /\ Has(t, q)
            BY <1>1, <1>4, <3>2 DEF MapOf
        <3>3. CASE q # n /\ ~Has(t, q)
            BY <1>1, <1>4, <3>3 DEF MapOf
        <3>4. QED BY <3>1, <3>2, <3>3
    <2>2. QED BY <1>2, <2>1 DEF MapOf
<1>7. num' = num - 1
    BY DEF dict_rename
<1>8. Has(t, n) <=> n \in KeysOf(tbl) \ {k}
    BY <1>1 DEF KeysOf
<1>9. QED BY <1>3, <1>4, <1>5, <1>6, <1>7, <1>8 DEF KeysOf

\* A key that is not there is not renamed.
LEMMA RenameNothing ==
    ASSUME NEW k \in Key, NEW n \in Key, dict_rename(k, n), ~Has(tbl, k)
    PROVE  UNCHANGED <<tbl, num, held, uncounted>>
BY DEF dict_rename

-----------------------------------------------------------------------------
(* sscan *)

\* The loop over the slots ends: the last slot stops it.
LEMMA LastSlotIs ==
    ASSUME NEW a \in Bucket, NEW count
    PROVE  LastSlot(a, count) \in a..(NBuckets - 1)
<1> DEFINE Ends(b) == Stops(a, b, count)
           T == {b \in a..(NBuckets - 1) : Ends(b)}
<1>1. NBuckets \in Nat /\ NBuckets - 1 \in a..(NBuckets - 1) /\ a \in Nat
    BY DictAssumption DEF Bucket
<1>2. Ends(NBuckets - 1)
    BY DEF Stops
<1> HIDE DEF Ends
<1>3. T \subseteq Nat /\ T # {}
    BY <1>1, <1>2
<1>4. Min(T) \in T /\ \A b \in T : Min(T) <= b
    BY <1>3, MinOfNats
<1> DEFINE m == Min(T)
<1>5. m \in a..(NBuckets - 1) /\ Ends(m) /\ \A s \in a..(m - 1) : ~Ends(s)
    BY <1>1, <1>4
<1> HIDE DEF m
<1>6. QED BY <1>5 DEF LastSlot, Ends

\* A call adds one cell at least.
LEMMA AddedIs ==
    ASSUME Sound(tbl), NEW a \in Bucket, NEW b \in Int, b < NBuckets
    PROVE  Added(a, b) \in Nat \ {0}
<1> DEFINE f == [s \in a..b |-> Len(tbl[s])]
<1>1. a \in Int /\ \A s \in a..b : s \in Bucket
    BY DictAssumption DEF Bucket
<1>2. \A s \in a..b : Len(tbl[s]) \in Nat
    BY <1>1, LenProperties DEF Sound
<1>3. f \in [a..b -> Nat]
    BY <1>2
<1>4. IsFiniteSet(a..b)
    BY <1>1, FS_Interval
<1>5. EntriesFrom(a, b) = SumFunctionOnSet(f, a..b)
    BY DEF EntriesFrom
<1> HIDE DEF f
<1>6. EntriesFrom(a, b) \in Nat
    BY <1>3, <1>4, <1>5, SumOfNats
<1>7. QED BY <1>6 DEF Added

\* As long as the array does not overflow, every key of the slots gets through.
LEMMA AllSent ==
    ASSUME Sound(tbl), NEW a \in Bucket, NEW b \in a..(NBuckets - 1), Added(a, b) < ArrCap,
           NEW k \in Key, Has(tbl, k), Hash[k] \in a..b
    PROVE  k \in KeysSent(a, b)
<1>1. PICK s \in a..b : s = Hash[k]
    OBVIOUS
<1>2. a \in Int /\ b \in Int /\ b < NBuckets /\ s \in Int /\ s - 1 \in Int /\ s - 1 < NBuckets
    BY DictAssumption DEF Bucket
<1>3. PICK i \in DOMAIN tbl[s] : tbl[s][i].key = k
    BY <1>1 DEF Has
<1>4. i \in Nat \ {0}
    BY <1>1, <1>3, ChainIs
<1>5. PICK m, n : m = Added(a, s - 1) /\ n = Added(a, b)
    OBVIOUS
<1>6. m \in Nat \ {0} /\ n \in Nat \ {0}
    BY <1>2, <1>5, AddedIs
<1>7. ArrLen(a, b) = n
    <2>1. n < ArrCap /\ n \in Nat
        BY <1>5, <1>6
    <2>2. n % ArrCap = n
        BY <2>1, DictAssumption, WrapsOn
    <2>3. QED BY <1>5, <2>2 DEF ArrLen
<1>8. m + i > n - n + 1
    BY <1>4, <1>6
<1>9. Received(a, b, Added(a, s - 1) + i)
    BY <1>5, <1>7, <1>8 DEF Received
<1>10. QED BY <1>3, <1>9 DEF KeysSent

\* A call walks from a slot to the last slot at most, and what it returns is well typed.
LEMMA CallIs ==
    ASSUME TypeOK, NEW count, sscan(count)
    PROVE  \E b \in From..(NBuckets - 1) :
              /\ From \in Bucket
              /\ seen' = IF First THEN KeysSent(From, b) ELSE seen \cup KeysSent(From, b)
              /\ held' = IF First THEN Present ELSE held
              /\ wrapped' = (Added(From, b) >= ArrCap \/ (wrapped /\ ~First))
              /\ cursor' \in CursorRead(b)
              /\ NextCursor(b) \in Bucket
              /\ KeysSent(From, b) \subseteq Key
<1>1. From \in Bucket
    BY DictAssumption DEF TypeOK, From, First, Bucket
<1>2. PICK b : b = LastSlot(From, count)
    OBVIOUS
<1>3. b \in From..(NBuckets - 1)
    BY <1>1, <1>2, LastSlotIs
<1>4. NextCursor(b) \in Bucket
    BY <1>1, <1>3, DictAssumption DEF Bucket, NextCursor
<1>5. KeysSent(From, b) \subseteq Key
    BY DEF KeysSent
<1>6. QED BY <1>1, <1>2, <1>3, <1>4, <1>5 DEF sscan

-----------------------------------------------------------------------------
(* Types, chains and counts *)

\* The inductive invariant.  That the keys are finitely many is what makes their
\* number one more or one less after a step.
TableInv ==
    /\ TypeOK
    /\ ChainsSound
    /\ IsFiniteSet(Present)
    /\ NumCounts

LEMMA TableIsSound == TypeOK /\ ChainsSound <=> TypeOK /\ Sound(tbl)
BY DEF TypeOK, ChainsSound, Sound, Slot

LEMMA PresentIs == Present = KeysOf(tbl)
BY DEF Present, KeysOf

LEMMA TableInit == Init => TableInv
<1> SUFFICES ASSUME Init PROVE TableInv
    OBVIOUS
<1>1. tbl = [b \in Bucket |-> <<>>]
    BY DEF Init
<1>2. \A k \in Key : ~Has(tbl, k)
    BY <1>1, DictAssumption DEF Has
<1>3. Present = {}
    BY <1>2 DEF Present
<1>4. tbl \in [Bucket -> Seq([key : Key, val : Val])]
    BY <1>1
<1>5. ChainsSound
    BY <1>1 DEF ChainsSound
<1>6. 0 \in Bucket
    BY DictAssumption DEF Bucket
<1>7. TypeOK
    BY <1>4, <1>6, DictAssumption DEF Init, TypeOK
<1>8. NumCounts
    BY <1>3, FS_EmptySet DEF NumCounts, Init
<1>9. QED BY <1>3, <1>5, <1>7, <1>8, FS_EmptySet DEF TableInv

LEMMA TableFacts ==
    ASSUME TableInv
    PROVE  /\ Sound(tbl) /\ IsFiniteSet(KeysOf(tbl))
           /\ num + uncounted = Cardinality(KeysOf(tbl)) /\ num \in Int /\ uncounted \in Int
<1>1. Sound(tbl)
    BY TableIsSound DEF TableInv
<1>2. IsFiniteSet(KeysOf(tbl)) /\ num + uncounted = Cardinality(KeysOf(tbl))
    BY PresentIs DEF TableInv, NumCounts
<1>3. num \in Int /\ uncounted \in Int
    BY DictAssumption DEF TableInv, TypeOK
<1>4. QED BY <1>1, <1>2, <1>3

\* The types of what an operation on one key changes.
LEMMA TypeStep ==
    ASSUME TypeOK, Sound(tbl'), num' \in Int, found' \in BOOLEAN,
           UNCHANGED <<use, cursor, seen, wrapped>>, random' = "unasked",
           held' \subseteq Key, uncounted' \in 0..MaxDrift
    PROVE  TypeOK'
BY DEF TypeOK, Sound, Slot

\* dict_add counts what it links.
LEMMA AddKeepsTable ==
    ASSUME TableInv, NEW k \in Key, NEW v \in Val, dict_add(k, v)
    PROVE  TableInv'
<1>1. Sound(tbl) /\ IsFiniteSet(KeysOf(tbl))
      /\ num + uncounted = Cardinality(KeysOf(tbl)) /\ num \in Int /\ uncounted \in Int
    BY TableFacts
<1>2. /\ Sound(tbl')
      /\ KeysOf(tbl') = KeysOf(tbl) \cup {k}
      /\ num' = IF k \in KeysOf(tbl) THEN num ELSE num + 1
    BY <1>1, AddDoes
<1>3. TypeOK'
    <2>1. found' \in BOOLEAN
        BY DEF dict_add, Has
    <2>2. /\ UNCHANGED <<use, cursor, seen, wrapped, uncounted>> /\ random' = "unasked"
          /\ held' \subseteq Key
        BY DEF dict_add, scanVars, TableInv, TypeOK
    <2>3. TypeOK /\ uncounted' \in 0..MaxDrift
        BY <2>2 DEF TableInv, TypeOK
    <2>4. num' \in Int
        BY <1>1, <1>2
    <2>5. QED BY <1>2, <2>1, <2>2, <2>3, <2>4, TypeStep
<1>4. ChainsSound'
    BY <1>2 DEF ChainsSound, Sound
<1>5. Present' = KeysOf(tbl')
    BY DEF Present, KeysOf
<1>6. IsFiniteSet(KeysOf(tbl')) /\ Cardinality(KeysOf(tbl'))
          = IF k \in KeysOf(tbl) THEN Cardinality(KeysOf(tbl)) ELSE Cardinality(KeysOf(tbl)) + 1
    BY <1>1, <1>2, FS_AddElement
<1>7. uncounted' = uncounted
    BY DEF dict_add
<1>8. num' + uncounted' = Cardinality(KeysOf(tbl'))
    BY <1>1, <1>2, <1>6, <1>7
<1>9. QED BY <1>3, <1>4, <1>5, <1>6, <1>8 DEF TableInv, NumCounts

\* dict_rm counts what it unlinks.
LEMMA RmKeepsTable ==
    ASSUME TableInv, NEW k \in Key, dict_rm(k)
    PROVE  TableInv'
<1>1. Sound(tbl) /\ IsFiniteSet(KeysOf(tbl))
      /\ num + uncounted = Cardinality(KeysOf(tbl)) /\ num \in Int /\ uncounted \in Int
    BY TableFacts
<1>2. /\ Sound(tbl')
      /\ KeysOf(tbl') = KeysOf(tbl) \ {k}
      /\ num' = IF k \in KeysOf(tbl) THEN num - 1 ELSE num
    BY <1>1, RmDoes
<1>3. TypeOK'
    <2>1. found' \in BOOLEAN
        BY DEF dict_rm, Has
    <2>2. /\ UNCHANGED <<use, cursor, seen, wrapped, uncounted>> /\ random' = "unasked"
          /\ held' \subseteq Key
        BY DEF dict_rm, TableInv, TypeOK
    <2>3. TypeOK /\ uncounted' \in 0..MaxDrift
        BY <2>2 DEF TableInv, TypeOK
    <2>4. num' \in Int
        BY <1>1, <1>2
    <2>5. QED BY <1>2, <2>1, <2>2, <2>3, <2>4, TypeStep
<1>4. ChainsSound'
    BY <1>2 DEF ChainsSound, Sound
<1>5. Present' = KeysOf(tbl')
    BY DEF Present, KeysOf
<1>6. IsFiniteSet(KeysOf(tbl')) /\ Cardinality(KeysOf(tbl'))
          = IF k \in KeysOf(tbl) THEN Cardinality(KeysOf(tbl)) - 1 ELSE Cardinality(KeysOf(tbl))
    BY <1>1, <1>2, FS_RemoveElement
<1>7. uncounted' = uncounted
    BY DEF dict_rm
<1>8. num' + uncounted' = Cardinality(KeysOf(tbl'))
    BY <1>1, <1>2, <1>6, <1>7, FS_CardinalityType
<1>9. QED BY <1>3, <1>4, <1>5, <1>6, <1>8 DEF TableInv, NumCounts

\* dict_rename counts one entry less; that is right if the new key was there, and
\* uncounted tells how often it was not.
LEMMA RenameKeepsTable ==
    ASSUME TableInv, NEW k \in Key, NEW n \in Key, dict_rename(k, n)
    PROVE  TableInv'
<1>1. Sound(tbl) /\ IsFiniteSet(KeysOf(tbl))
      /\ num + uncounted = Cardinality(KeysOf(tbl)) /\ num \in Int /\ uncounted \in Int
    BY TableFacts
<1>2. Present' = KeysOf(tbl')
    BY DEF Present, KeysOf
<1>3. CASE ~Has(tbl, k)
    <2>1. tbl' = tbl /\ num' = num /\ held' = held /\ uncounted' = uncounted
        BY <1>3, RenameNothing
    <2>2. TypeOK'
        <3>1. found' \in BOOLEAN
            BY DEF dict_rename, Has
        <3>2. QED BY <2>1, <3>1 DEF TableInv, TypeOK, dict_rename
    <2>3. QED BY <2>1, <2>2 DEF TableInv, ChainsSound, Present, NumCounts
<1>4. CASE Has(tbl, k)
    <2> DEFINE K == KeysOf(tbl) \ {k}
    <2>1. /\ Sound(tbl')
          /\ KeysOf(tbl') = K \cup {n}
          /\ num' = num - 1
          /\ uncounted' = IF n \in K THEN uncounted ELSE uncounted + 1
        BY <1>1, <1>4, RenameDoes
    <2>2. IsFiniteSet(K) /\ Cardinality(K) = Cardinality(KeysOf(tbl)) - 1
          /\ Cardinality(K) \in Nat
        <3>1. k \in KeysOf(tbl)
            BY <1>4 DEF KeysOf
        <3>2. QED BY <1>1, <3>1, FS_RemoveElement, FS_CardinalityType
    <2> HIDE DEF K
    <2>3. IsFiniteSet(K \cup {n})
          /\ Cardinality(K \cup {n}) = IF n \in K THEN Cardinality(K) ELSE Cardinality(K) + 1
        BY <2>2, FS_AddElement
    <2>4. num' + uncounted' = Cardinality(KeysOf(tbl'))
        <3>1. Cardinality(KeysOf(tbl)) = Cardinality(K) + 1
            BY <1>1, <2>2, FS_CardinalityType
        <3>2. QED BY <1>1, <2>1, <2>2, <2>3, <3>1
    <2>5. TypeOK'
        <3>1. uncounted' \in 0..MaxDrift
            BY <2>1, DictAssumption DEF TableInv, TypeOK, dict_rename
        <3>2. held' \subseteq Key
            BY DEF TableInv, TypeOK, dict_rename
        <3>3. num' \in Int
            BY <1>1, <2>1
        <3>4. found' \in BOOLEAN
            BY DEF dict_rename, Has
        <3>5. UNCHANGED <<use, cursor, seen, wrapped>> /\ random' = "unasked" /\ TypeOK
            BY DEF dict_rename, TableInv
        <3>6. QED BY <2>1, <3>1, <3>2, <3>3, <3>4, <3>5, TypeStep
    <2>6. ChainsSound'
        BY <2>1 DEF ChainsSound, Sound
    <2>7. QED BY <1>2, <2>1, <2>3, <2>4, <2>5, <2>6 DEF TableInv, NumCounts
<1>5. QED BY <1>3, <1>4

\* The operations that leave the table alone.
Reads ==
    \/ \E k \in Key : dict_look_up(k)
    \/ randomkey
    \/ \E count \in Count : sscan(count)
    \/ sscan_absent
    \/ UNCHANGED vars

LEMMA ReadersKeepTable ==
    ASSUME TableInv, Reads
    PROVE  TableInv'
<1>1. tbl' = tbl /\ num' = num /\ uncounted' = uncounted /\ use' = use
    BY DEF Reads, dict_look_up, randomkey, sscan, sscan_absent, vars
<1>2. TypeOK'
    <2>1. CASE \E k \in Key : dict_look_up(k)
        <3>1. found' \in BOOLEAN
            BY <2>1 DEF dict_look_up, Has
        <3>2. QED BY <2>1, <3>1 DEF TableInv, TypeOK, dict_look_up, scanVars
    <2>2. CASE randomkey
        <3>1. random' \in Key \cup {None, "loops"}
            BY <2>2 DEF randomkey, RandomElem, Present
        <3>2. QED BY <2>2, <3>1 DEF TableInv, TypeOK, randomkey, scanVars
    <2>3. ASSUME NEW count \in Count, sscan(count)
          PROVE  TypeOK'
        <3>1. TypeOK
            BY DEF TableInv
        <3>2. PICK b \in From..(NBuckets - 1) :
                  /\ seen' = IF First THEN KeysSent(From, b) ELSE seen \cup KeysSent(From, b)
                  /\ held' = IF First THEN Present ELSE held
                  /\ wrapped' = (Added(From, b) >= ArrCap \/ (wrapped /\ ~First))
                  /\ cursor' \in CursorRead(b)
                  /\ NextCursor(b) \in Bucket
                  /\ KeysSent(From, b) \subseteq Key
            BY <2>3, <3>1, CallIs
        <3>3. seen' \subseteq Key
            BY <3>1, <3>2 DEF TypeOK
        <3>4. held' \subseteq Key
            BY <3>1, <3>2 DEF TypeOK, Present
        <3>5. cursor' \in Bucket \cup {None}
            BY <3>2 DEF CursorRead
        <3>6. wrapped' \in BOOLEAN
            BY <3>2
        <3>7. random' = "unasked" /\ found' = found
            BY <2>3 DEF sscan
        <3>8. QED BY <1>1, <3>1, <3>3, <3>4, <3>5, <3>6, <3>7 DEF TypeOK
    <2>4. CASE sscan_absent
        <3>1. 0 \in Bucket
            BY DictAssumption DEF Bucket
        <3>2. QED BY <2>4, <3>1 DEF TableInv, TypeOK, sscan_absent
    <2>5. CASE UNCHANGED vars
        BY <2>5 DEF TableInv, TypeOK, vars
    <2>6. QED BY <2>1, <2>2, <2>3, <2>4, <2>5 DEF Reads
<1>3. QED BY <1>1, <1>2 DEF TableInv, ChainsSound, Present, NumCounts

LEMMA TableKept == TableInv /\ [Next]_vars => TableInv'
BY AddKeepsTable, RmKeepsTable, RenameKeepsTable, ReadersKeepTable DEF Next, Reads

LEMMA TableAlways == Spec => []TableInv
BY TableInit, TableKept, PTL DEF Spec

\* Every variable keeps its type, whatever keys, values and hashes there are.
THEOREM TypeCorrect == Spec => []TypeOK
<1>1. TableInv => TypeOK
    BY DEF TableInv
<1>2. QED BY <1>1, TableAlways, PTL

\* Every entry is in the chain of its key, and no key has two entries: a lookup
\* that stops at the first entry of a key cannot miss what another one stored.
THEOREM ChainsAlwaysSound == Spec => []ChainsSound
<1>1. TableInv => ChainsSound
    BY DEF TableInv
<1>2. QED BY <1>1, TableAlways, PTL

\* entry_num is behind the number of entries by exactly the renames to a free key.
THEOREM NumAlwaysCounts == Spec => []NumCounts
<1>1. TableInv => NumCounts
    BY DEF TableInv
<1>2. QED BY <1>1, TableAlways, PTL

\* Without such renames, randomkey answers nil exactly when there is no key, and
\* otherwise one that is there.
THEOREM RandomKeyAnswers == Spec => []RandomAnswers
<1>1. Init => RandomAnswers
    BY DEF Init, RandomAnswers
<1>2. ASSUME TableInv, RandomAnswers, [Next]_vars
      PROVE  RandomAnswers'
    <2>1. CASE randomkey
        <3> SUFFICES ASSUME uncounted = 0
                     PROVE  random' \in Present \/ (random' = None /\ Present = {})
            BY <2>1 DEF randomkey, RandomAnswers, Present, Has
        <3>1. IsFiniteSet(Present) /\ num \in Int /\ num + uncounted = Cardinality(Present)
            BY <1>2 DEF TableInv, NumCounts, TypeOK
        <3>2. num = Cardinality(Present)
            BY <3>1
        <3>3. num = 0 <=> Present = {}
            BY <3>1, <3>2, FS_EmptySet
        <3>4. QED BY <2>1, <3>3 DEF randomkey, RandomElem
    <2>2. CASE UNCHANGED vars
        BY <1>2, <2>2 DEF RandomAnswers, Present, Has, vars
    <2>3. CASE random' = "unasked"
        BY <2>3 DEF RandomAnswers
    <2>4. QED BY <1>2, <2>1, <2>2, <2>3
              DEF Next, dict_add, dict_rm, dict_rename, dict_look_up, sscan, sscan_absent
<1>3. QED BY <1>1, <1>2, TableAlways, PTL DEF Spec

-----------------------------------------------------------------------------
(* A scan is complete *)

\* ScanComplete is not inductive: it says nothing while a scan is under way.
\* ScanSoFar does.
ScanInv == TableInv /\ ScanSoFar

LEMMA ScanInit == Init => ScanSoFar
<1>1. 0 \in Bucket
    BY DictAssumption DEF Bucket
<1>2. None # 0
    BY <1>1, DictAssumption
<1>3. QED BY <1>2 DEF Init, ScanSoFar

\* A key that stays is found by every operation on other keys.
LEMMA ChangesKeepScan ==
    ASSUME ScanInv, NEW k \in Key,
           (\E v \in Val : dict_add(k, v)) \/ dict_rm(k) \/ (\E n \in Key : dict_rename(k, n))
    PROVE  ScanSoFar'
<1>1. Sound(tbl)
    BY TableFacts DEF ScanInv
<1>2. cursor' = cursor /\ seen' = seen /\ wrapped' = wrapped
    BY DEF dict_add, dict_rm, dict_rename, scanVars
<1>3. \A q \in held' : q \in held /\ q \in Present'
    <2>1. CASE \E v \in Val : dict_add(k, v)
        <3>1. held' = held
            BY <2>1 DEF dict_add, scanVars
        <3>2. KeysOf(tbl') = KeysOf(tbl) \cup {k}
            BY <1>1, <2>1, AddDoes
        <3>3. QED BY <3>1, <3>2 DEF ScanInv, ScanSoFar, Present, KeysOf
    <2>2. CASE dict_rm(k)
        <3>1. held' = held \ {k}
            BY <2>2 DEF dict_rm
        <3>2. KeysOf(tbl') = KeysOf(tbl) \ {k}
            BY <1>1, <2>2, RmDoes
        <3>3. QED BY <3>1, <3>2 DEF ScanInv, ScanSoFar, Present, KeysOf
    <2>3. ASSUME NEW n \in Key, dict_rename(k, n)
          PROVE  \A q \in held' : q \in held /\ q \in Present'
        <3>1. CASE ~Has(tbl, k)
            BY <2>3, <3>1, RenameNothing DEF ScanInv, ScanSoFar, Present
        <3>2. CASE Has(tbl, k)
            <4>1. held' = held \ {k}
                BY <2>3, <3>2 DEF dict_rename
            <4>2. KeysOf(tbl') = (KeysOf(tbl) \ {k}) \cup {n}
                BY <1>1, <2>3, <3>2, RenameDoes
            <4>3. QED BY <4>1, <4>2 DEF ScanInv, ScanSoFar, Present, KeysOf
        <3>3. QED BY <3>1, <3>2
    <2>4. QED BY <2>1, <2>2, <2>3
<1>4. QED BY <1>2, <1>3 DEF ScanInv, ScanSoFar

\* A call that does not overflow the array returns the keys of the slots it walks;
\* all others are ahead of the cursor it answers, which is 0 only if there are none.
LEMMA CallKeepsScan ==
    ASSUME ScanInv, NEW count \in Count, sscan(count)
    PROVE  ScanSoFar'
<1>1. TypeOK /\ Sound(tbl) /\ tbl' = tbl
    BY TableFacts DEF ScanInv, TableInv, sscan
<1>2. PICK b \in From..(NBuckets - 1) :
          /\ From \in Bucket
          /\ seen' = IF First THEN KeysSent(From, b) ELSE seen \cup KeysSent(From, b)
          /\ held' = IF First THEN Present ELSE held
          /\ wrapped' = (Added(From, b) >= ArrCap \/ (wrapped /\ ~First))
          /\ cursor' \in CursorRead(b)
          /\ NextCursor(b) \in Bucket
    BY <1>1, CallIs
<1>3. Present' = Present /\ held' \subseteq Present
    BY <1>1, <1>2 DEF ScanInv, ScanSoFar, Present
<1>4. PICK m : m = Added(From, b)
    OBVIOUS
<1>5. m \in Nat \ {0} /\ ArrCap \in Nat
    BY <1>1, <1>2, <1>4, AddedIs, DictAssumption DEF Bucket
<1>6. CASE m >= ArrCap
    BY <1>2, <1>3, <1>4, <1>6 DEF ScanSoFar
<1>7. CASE ~(m >= ArrCap)
    <2>1. m < ArrCap
        BY <1>5, <1>7
    <2>2. cursor' = NextCursor(b)
        BY <1>2, <1>4, <2>1 DEF CursorRead
    <2>3. cursor' \in Bucket /\ cursor' # None
        BY <1>2, <2>2, DictAssumption
    <2>4. \A k \in Present : k \in Key /\ Has(tbl, k) /\ Hash[k] \in 0..(NBuckets - 1)
        BY DictAssumption DEF Present, Bucket
    <2>5. \A k \in Present : Hash[k] \in From..b => k \in KeysSent(From, b)
        BY <1>1, <1>2, <1>4, <2>1, <2>4, AllSent
    <2>6. From \in Nat /\ b \in Nat /\ NBuckets \in Nat /\ b < NBuckets
        BY <1>2, DictAssumption DEF Bucket
    <2>7. \A k \in Present : Hash[k] > b => cursor' # 0 /\ Hash[k] >= cursor'
        <3> TAKE k \in Present
        <3> HAVE Hash[k] > b
        <3>1. b + 1 < NBuckets /\ Hash[k] \in Nat
            BY <2>4, <2>6
        <3>2. cursor' = b + 1
            BY <2>2, <2>6, <3>1 DEF NextCursor
        <3>3. QED BY <2>6, <3>1, <3>2
    <2>8. ASSUME ~wrapped', NEW k \in held'
          PROVE  k \in seen' \/ (cursor' # 0 /\ Hash[k] >= cursor')
        <3>1. k \in Present /\ Hash[k] \in Nat
            BY <1>3, <2>4, <2>8
        <3>2. CASE Hash[k] > b
            BY <2>7, <3>1, <3>2
        <3>3. CASE ~(Hash[k] > b) /\ Hash[k] >= From
            <4>1. Hash[k] \in From..b
                BY <2>6, <3>1, <3>3
            <4>2. k \in KeysSent(From, b)
                BY <2>5, <3>1, <4>1
            <4>3. QED BY <1>2, <4>2
        <3>4. CASE ~(Hash[k] >= From)
            <4>1. ~First /\ From = cursor
                BY <2>6, <3>1, <3>4 DEF From
            <4>2. k \in held /\ ~wrapped
                BY <1>2, <2>8, <4>1
            <4>3. k \in seen
                BY <3>4, <4>1, <4>2 DEF ScanInv, ScanSoFar
            <4>4. QED BY <1>2, <4>1, <4>3
        <3>5. QED BY <3>2, <3>3, <3>4
    <2>9. QED BY <1>3, <2>3, <2>8 DEF ScanSoFar
<1>8. QED BY <1>6, <1>7

LEMMA ScanKept == ScanInv /\ [Next]_vars => ScanSoFar'
<1> SUFFICES ASSUME ScanInv, [Next]_vars PROVE ScanSoFar'
    OBVIOUS
<1>1. CASE (\E k \in Key : dict_look_up(k)) \/ randomkey \/ UNCHANGED vars
    <2>1. UNCHANGED <<tbl, cursor, seen, held, wrapped>>
        BY <1>1 DEF dict_look_up, randomkey, scanVars, vars
    <2>2. QED BY <2>1 DEF ScanInv, ScanSoFar, Present
<1>2. CASE sscan_absent
    <2>1. held' = {} /\ cursor' = 0
        BY <1>2 DEF sscan_absent, ScanInv, ScanSoFar
    <2>2. cursor' # None
        BY <2>1, DictAssumption DEF Bucket
    <2>3. QED BY <2>1, <2>2 DEF ScanSoFar
<1>3. QED BY <1>1, <1>2, ChangesKeepScan, CallKeepsScan DEF Next

\* A scan that has come back to cursor 0, without a call that overflowed the reply
\* array, has returned every key that has been there from its first call to its
\* last, whatever commands came between: for any hash, any counts, any length of
\* the array and any number of calls.
THEOREM ScansComplete == Spec => []ScanComplete
<1>1. Init => ScanInv
    BY TableInit, ScanInit DEF ScanInv
<1>2. ScanInv /\ [Next]_vars => ScanInv'
    BY TableKept, ScanKept DEF ScanInv
<1>3. ScanInv => ScanComplete
    BY DEF ScanInv, ScanSoFar, ScanComplete
<1>4. QED BY <1>1, <1>2, <1>3, PTL DEF Spec

-----------------------------------------------------------------------------
(* The table implements a map *)

LEMMA MapInit == Init => Abs!Init
<1> SUFFICES ASSUME Init PROVE Abs!Init
    OBVIOUS
<1>1. \A k \in Key : ~Has(tbl, k)
    BY DictAssumption DEF Init, Has
<1>2. map = [k \in Key |-> None]
    BY <1>1 DEF map
<1>3. QED BY <1>2 DEF Abs!Init, Init

\* Each operation on the table is the one of that name on the map; the others
\* change nothing of it.
LEMMA MapStep == TableInv /\ [Next]_vars => [Abs!Next]_Abs!vars
<1> SUFFICES ASSUME TableInv, [Next]_vars PROVE [Abs!Next]_Abs!vars
    OBVIOUS
<1>1. Sound(tbl)
    BY TableFacts
<1>2. map = MapOf(tbl) /\ map' = MapOf(tbl')
    BY DEF map, MapOf
<1>3. \A k \in Key : Has(tbl, k) <=> Abs!Has(k)
    BY <1>1, <1>2, MapIs DEF Abs!Has
<1>4. ASSUME NEW k \in Key, NEW v \in Val, dict_add(k, v)
      PROVE  Abs!Next
    <2>1. map' = [map EXCEPT ![k] = v]
        BY <1>1, <1>2, <1>4, AddDoes
    <2>2. found' = Has(tbl, k)
        BY <1>4 DEF dict_add
    <2>3. found' = Abs!Has(k)
        BY <1>3, <2>2 DEF Has, Abs!Has
    <2>4. Abs!Add(k, v)
        BY <2>1, <2>3 DEF Abs!Add
    <2>5. QED BY <2>4 DEF Abs!Next
<1>5. ASSUME NEW k \in Key, dict_rm(k)
      PROVE  Abs!Next
    <2>1. map' = [map EXCEPT ![k] = None]
        BY <1>1, <1>2, <1>5, RmDoes
    <2>2. found' = Has(tbl, k)
        BY <1>5 DEF dict_rm
    <2>3. found' = Abs!Has(k)
        BY <1>3, <2>2 DEF Has, Abs!Has
    <2>4. Abs!Rm(k)
        BY <2>1, <2>3 DEF Abs!Rm
    <2>5. QED BY <2>4 DEF Abs!Next
<1>6. ASSUME NEW k \in Key, NEW n \in Key, dict_rename(k, n)
      PROVE  Abs!Next
    <2>1. found' = Has(tbl, k)
        BY <1>6 DEF dict_rename
    <2>2. found' = Abs!Has(k)
        BY <1>3, <2>1 DEF Has, Abs!Has
    <2>3. CASE Has(tbl, k)
        <3>1. map' = [[map EXCEPT ![k] = None] EXCEPT ![n] = map[k]]
            BY <1>1, <1>2, <1>6, <2>3, RenameDoes
        <3>2. QED BY <1>3, <2>2, <2>3, <3>1 DEF Abs!Rename, Abs!Next
    <2>4. CASE ~Has(tbl, k)
        <3>1. map' = map
            BY <1>2, <1>6, <2>4, RenameNothing
        <3>2. QED BY <1>3, <2>2, <2>4, <3>1 DEF Abs!Rename, Abs!Next
    <2>5. QED BY <2>3, <2>4
<1>7. ASSUME NEW k \in Key, dict_look_up(k)
      PROVE  Abs!Next
    <2>1. found' = Has(tbl, k) /\ tbl' = tbl
        BY <1>7 DEF dict_look_up
    <2>2. found' = Abs!Has(k)
        BY <1>3, <2>1 DEF Has, Abs!Has
    <2>3. map' = map
        BY <1>2, <2>1
    <2>4. QED BY <2>2, <2>3 DEF Abs!LookUp, Abs!Next
<1>8. CASE randomkey \/ (\E count \in Count : sscan(count)) \/ sscan_absent \/ UNCHANGED vars
    <2>1. tbl' = tbl /\ found' = found
        BY <1>8 DEF randomkey, sscan, sscan_absent, vars
    <2>2. QED BY <1>2, <2>1 DEF Abs!vars
<1>9. QED BY <1>4, <1>5, <1>6, <1>7, <1>8 DEF Next

\* dict.c is a map: no operation on one key changes what is stored under another,
\* for any hash function, however many keys share a chain.
THEOREM DictIsMap == Spec => IsMap
    BY MapInit, MapStep, TableAlways, PTL DEF Spec, IsMap, Abs!Spec
=============================================================================
