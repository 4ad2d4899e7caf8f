----------------------------- MODULE ListProofs -----------------------------
(* Theorems about ListCommands, for every value of its constants. *)
EXTENDS ListCommands, TLAPS, Lemmas

Rets == {"ok", "int", "nil", "str", "arr", "fail", "blocked", "crash", "doublefree"}

\* The type of the result of a command.
Typed(res) ==
    /\ KeyspaceOK(res.db)
    /\ res.ret \in Rets
    /\ res.ret = "int" => res.val \in Int
    /\ res.ret # "int" => res.val \in Seq(Elem)

\* No key holds an empty list.
Proper(d) == \A k \in Key : d[k].type = "list" => d[k].items # <<>>

\* The keyspace d2 differs from d only in the length of the list at k, which has
\* grown by n.
Grown(d, d2, k, n) ==
    /\ KeyspaceOK(d) /\ KeyspaceOK(d2)
    /\ k \in Key
    /\ n = Len(d2[k].items) - Len(d[k].items)
    /\ \A x \in Key \ {k} : Len(d2[x].items) = Len(d[x].items)

-----------------------------------------------------------------------------
(* Storing and removing *)

\* The object at a key is an object, and its elements a sequence.
LEMMA ItemsAreElements ==
    ASSUME NEW d, KeyspaceOK(d), NEW k \in Key
    PROVE  /\ d[k] \in Obj
           /\ d[k].items \in Seq(Elem)
           /\ d[k].type # "list" => d[k].items = <<>>
           /\ Len(d[k].items) \in Nat
<1>1. d[k] \in Obj /\ (d[k].type # "list" => d[k].items = <<>>)
    BY DEF KeyspaceOK
<1>2. d[k].items \in Seq(Elem)
    BY <1>1 DEF Obj
<1>3. QED BY <1>1, <1>2

\* Storing a list at a key, a string there, or removing it.
LEMMA StoreIs ==
    ASSUME NEW d, KeyspaceOK(d), NEW k \in Key, NEW s \in Seq(Elem)
    PROVE  /\ KeyspaceOK(dict_rm(d, k)) /\ dict_rm(d, k)[k] = NoObj
           /\ KeyspaceOK(dict_add(d, k, StrObj)) /\ dict_add(d, k, StrObj)[k] = StrObj
           /\ KeyspaceOK(dict_add(d, k, ListObj(s))) /\ dict_add(d, k, ListObj(s))[k] = ListObj(s)
           /\ \A x \in Key \ {k} : /\ dict_rm(d, k)[x] = d[x]
                                   /\ dict_add(d, k, StrObj)[x] = d[x]
                                   /\ dict_add(d, k, ListObj(s))[x] = d[x]
    BY DEF KeyspaceOK, Obj, dict_rm, dict_add, NoObj, StrObj, ListObj

\* They do not make an empty list, unless the list that is stored is one.
LEMMA StoreProper ==
    ASSUME NEW d, KeyspaceOK(d), Proper(d), NEW k \in Key, NEW s \in Seq(Elem)
    PROVE  /\ Proper(dict_rm(d, k))
           /\ Proper(dict_add(d, k, StrObj))
           /\ s # <<>> => Proper(dict_add(d, k, ListObj(s)))
<1>1. NoObj.type # "list" /\ StrObj.type # "list" /\ ListObj(s).items = s
    BY DEF NoObj, StrObj, ListObj
<1> DEFINE removed == dict_rm(d, k)
           string == dict_add(d, k, StrObj)
           list == dict_add(d, k, ListObj(s))
<1>2. /\ removed[k] = NoObj /\ string[k] = StrObj /\ list[k] = ListObj(s)
      /\ \A x \in Key \ {k} : removed[x] = d[x] /\ string[x] = d[x] /\ list[x] = d[x]
    BY StoreIs
<1> HIDE DEF removed, string, list
<1>3. Proper(removed) /\ Proper(string) /\ (s # <<>> => Proper(list))
    BY <1>1, <1>2 DEF Proper
<1>4. QED BY <1>3 DEF removed, string, list

\* What storing a list at a key, or removing it, does to the lengths.
LEMMA StoreGrows ==
    ASSUME NEW d, KeyspaceOK(d), NEW k \in Key, NEW s \in Seq(Elem)
    PROVE  /\ Grown(d, dict_rm(d, k), k, 0 - Len(d[k].items))
           /\ Grown(d, dict_add(d, k, ListObj(s)), k, Len(s) - Len(d[k].items))
           /\ Grown(d, d, k, 0)
<1>1. NoObj.items = <<>> /\ ListObj(s).items = s
    BY DEF NoObj, ListObj
<1>2. Len(<<>>) = 0 /\ Len(s) \in Nat /\ Len(d[k].items) \in Nat
    BY ItemsAreElements
<1> DEFINE removed == dict_rm(d, k)
           list == dict_add(d, k, ListObj(s))
<1>3. /\ KeyspaceOK(removed) /\ removed[k] = NoObj
      /\ KeyspaceOK(list) /\ list[k] = ListObj(s)
      /\ \A x \in Key \ {k} : removed[x] = d[x] /\ list[x] = d[x]
    BY StoreIs
<1> HIDE DEF removed, list
<1>4. Grown(d, removed, k, 0 - Len(d[k].items)) /\ Grown(d, list, k, Len(s) - Len(d[k].items))
    BY <1>1, <1>2, <1>3 DEF Grown
<1>5. Grown(d, d, k, 0)
    BY <1>2 DEF Grown
<1>6. QED BY <1>4, <1>5 DEF removed, list

\* A list that is stored, or ends its life when nothing is left of it.
LEMMA EndIfEmptyIs ==
    ASSUME NEW d, KeyspaceOK(d), NEW k \in Key, NEW rmkey \in Key, NEW s \in Seq(Elem),
           rmkey = k \/ Missing(d, rmkey)
    PROVE  LET d2 == EndIfEmpty(d, k, s, rmkey)
           IN  /\ KeyspaceOK(d2)
               /\ d2[k].items = s
               /\ Grown(d, d2, k, Len(s) - Len(d[k].items))
               /\ rmkey = k /\ Proper(d) => Proper(d2)
               /\ d2[k].type \in {"none", "list"}
               /\ \A x \in Key \ {k} : d2[x] = d[x] \/ (x = rmkey /\ d2[x] = NoObj)
<1> DEFINE stored == dict_add(d, k, ListObj(s))
           d2 == EndIfEmpty(d, k, s, rmkey)
<1>1. /\ KeyspaceOK(stored) /\ stored[k] = ListObj(s)
      /\ \A x \in Key \ {k} : stored[x] = d[x]
      /\ Grown(d, stored, k, Len(s) - Len(d[k].items))
    BY StoreIs, StoreGrows
<1>2. ListObj(s).items = s /\ ListObj(s).type = "list" /\ NoObj.items = <<>> /\ NoObj.type = "none"
    BY DEF ListObj, NoObj
<1>3. CASE s # <<>>
    <2>1. d2 = stored
        BY <1>3 DEF EndIfEmpty
    <2>2. Proper(d) => Proper(stored)
        BY <1>3, StoreProper
    <2>3. stored[k].items = s /\ stored[k].type = "list"
        BY <1>1, <1>2
    <2> HIDE DEF stored, d2
    <2>4. /\ KeyspaceOK(d2) /\ d2[k].items = s /\ d2[k].type = "list"
          /\ Grown(d, d2, k, Len(s) - Len(d[k].items))
          /\ \A x \in Key \ {k} : d2[x] = d[x]
          /\ Proper(d) => Proper(d2)
        BY <1>1, <2>1, <2>2, <2>3
    <2>5. QED BY <2>4 DEF d2
<1>4. CASE s = <<>>
    <2>1. d2 = dict_rm(stored, rmkey)
        BY <1>4 DEF EndIfEmpty
    <2>2. /\ KeyspaceOK(d2) /\ d2[rmkey] = NoObj
          /\ \A x \in Key \ {rmkey} : d2[x] = stored[x]
        <3> HIDE DEF stored, d2
        <3>1. KeyspaceOK(stored)
            BY <1>1
        <3>2. /\ KeyspaceOK(dict_rm(stored, rmkey)) /\ dict_rm(stored, rmkey)[rmkey] = NoObj
              /\ \A x \in Key \ {rmkey} : dict_rm(stored, rmkey)[x] = stored[x]
            BY <3>1, StoreIs
        <3>3. QED BY <2>1, <3>2
    <2> HIDE DEF stored, d2
    <2>3. d2[k].items = s /\ d2[k].type \in {"none", "list"}
        BY <1>1, <1>2, <1>4, <2>2
    <2>4. ASSUME NEW x \in Key \ {k}
          PROVE  d2[x].items = d[x].items /\ (d2[x] = d[x] \/ (x = rmkey /\ d2[x] = NoObj))
        <3>1. CASE x # rmkey
            BY <1>1, <2>2, <3>1
        <3>2. CASE x = rmkey
            BY <1>2, <2>2, <3>2, ItemsAreElements DEF Missing
        <3>3. QED BY <3>1, <3>2
    <2>5. Grown(d, d2, k, Len(s) - Len(d[k].items))
        BY <2>2, <2>3, <2>4 DEF Grown
    <2>6. rmkey = k /\ Proper(d) => Proper(d2)
        BY <1>2, <2>2, <2>4 DEF Proper
    <2>7. QED BY <2>2, <2>3, <2>4, <2>5, <2>6 DEF d2
<1>5. QED BY <1>3, <1>4

\* A pop takes an element of the list and leaves a list that is one shorter.
LEMMA PopTakes ==
    ASSUME NEW s \in Seq(Elem), s # <<>>, NEW side
    PROVE  /\ <<list_pop(s, side)>> \in Seq(Elem)
           /\ list_rest(s, side) \in Seq(Elem)
           /\ Len(list_rest(s, side)) = Len(s) - 1
<1>1. Len(s) \in Nat /\ Len(s) >= 1
    BY EmptySeq
<1>2. s[1] \in Elem /\ s[Len(s)] \in Elem /\ Head(s) = s[1] /\ Last(s) = s[Len(s)]
    BY <1>1 DEF Last
<1>3. Tail(s) \in Seq(Elem) /\ Len(Tail(s)) = Len(s) - 1
    BY <1>1
<1>4. Front(s) \in Seq(Elem) /\ Len(Front(s)) = Len(s) - 1
    <2> DEFINE t == [i \in 1..(Len(s) - 1) |-> s[i]]
    <2>1. Front(s) = t
        BY <1>1 DEF Front
    <2>2. t \in Seq(Elem) /\ Len(t) = Len(s) - 1
        BY <1>1
    <2>3. QED BY <2>1, <2>2
<1> DEFINE e == list_pop(s, side)
           t == list_rest(s, side)
<1>5. (e = Head(s) /\ t = Tail(s)) \/ (e = Last(s) /\ t = Front(s))
    BY DEF list_pop, list_rest
<1> HIDE DEF e, t
<1>6. e \in Elem /\ t \in Seq(Elem) /\ Len(t) = Len(s) - 1
    BY <1>2, <1>3, <1>4, <1>5
<1>7. <<e>> \in Seq(Elem)
    BY <1>6
<1>8. QED BY <1>6, <1>7 DEF e, t

\* A push of values makes a list longer by as many.
LEMMA PushAdds ==
    ASSUME NEW s \in Seq(Elem), NEW side, NEW vals \in Seq(Elem), vals # <<>>
    PROVE  LET t == list_insert_all(s, side, vals)
           IN  t \in Seq(Elem) /\ t # <<>> /\ Len(t) = Len(s) + Len(vals)
<1> DEFINE r == Reverse(vals)
<1>1. Len(s) \in Nat /\ Len(vals) \in Nat /\ Len(vals) >= 1
    BY EmptySeq
<1>2. r \in Seq(Elem) /\ Len(r) = Len(vals)
    BY <1>1 DEF Reverse
<1> HIDE DEF r
<1>3. /\ r \o s \in Seq(Elem) /\ Len(r \o s) = Len(s) + Len(vals)
      /\ s \o vals \in Seq(Elem) /\ Len(s \o vals) = Len(s) + Len(vals)
    <2>1. /\ r \o s \in Seq(Elem) /\ Len(r \o s) = Len(r) + Len(s)
          /\ s \o vals \in Seq(Elem) /\ Len(s \o vals) = Len(s) + Len(vals)
        BY <1>2, ConcatProperties
    <2>2. Len(r) + Len(s) = Len(s) + Len(vals)
        BY <1>1, <1>2
    <2>3. QED BY <2>1, <2>2
<1>4. LET t == list_insert_all(s, side, vals)
      IN  t \in Seq(Elem) /\ Len(t) = Len(s) + Len(vals)
    BY <1>3 DEF list_insert_all, r
<1>5. Len(s) + Len(vals) > 0 /\ Len(<<>>) = 0
    BY <1>1
<1>6. QED BY <1>4, <1>5

-----------------------------------------------------------------------------
(* What each command does: its result is typed, it leaves no empty list behind, *)
(* and the lists together grow by what is said.                                 *)

Fine(d, res) == Typed(res) /\ (Proper(d) => Proper(res.db))

\* In two steps at most the keyspace d becomes d2, and the lists grow by n.
Grows(d, d2, n) ==
    \E mid, k, l, n1, n2 : Grown(d, mid, k, n1) /\ Grown(mid, d2, l, n2) /\ n = n1 + n2

\* A change at one key is a change in two steps, of which the second does nothing.
LEMMA GrownGrows ==
    ASSUME NEW d, NEW d2, NEW k, NEW n, Grown(d, d2, k, n)
    PROVE  Grows(d, d2, n)
<1>1. KeyspaceOK(d) /\ KeyspaceOK(d2) /\ k \in Key
    BY DEF Grown
<1>2. Grown(d2, d2, k, 0)
    BY <1>1, StoreGrows, EmptySeq
<1>3. n \in Int /\ n = n + 0
    BY <1>1, ItemsAreElements DEF Grown
<1>4. QED BY <1>2, <1>3 DEF Grows

\* A keyspace that is left alone does not grow.
LEMMA SameGrows ==
    ASSUME NEW d, KeyspaceOK(d), NEW k \in Key
    PROVE  Grows(d, d, 0)
    BY StoreGrows, EmptySeq, GrownGrows

\* lpop and rpop take one element if they answer one.
LEMMA PopOK ==
    ASSUME NEW d, KeyspaceOK(d), NEW k \in Key, NEW side
    PROVE  LET res == lpoprpop_command(d, side, k)
           IN  Fine(d, res) /\ Grows(d, res.db, IF res.ret = "str" THEN -1 ELSE 0)
<1> DEFINE s == d[k].items
           rest == list_rest(s, side)
           e == list_pop(s, side)
           d2 == EndIfEmpty(d, k, rest, k)
           res == lpoprpop_command(d, side, k)
<1>1. s \in Seq(Elem) /\ Len(s) \in Nat
    BY ItemsAreElements
<1>2. CASE res \in {Result("nil", d, <<>>), Result("fail", d, <<>>), Result("crash", d, <<>>)}
    <2>1. res.db = d /\ res.ret \in {"nil", "fail", "crash"} /\ res.val = <<>>
        BY <1>2 DEF Result
    <2> HIDE DEF res
    <2>2. Fine(d, res) /\ Grows(d, res.db, 0)
        BY <2>1, SameGrows, EmptySeq DEF Fine, Typed, Rets
    <2>3. QED BY <2>1, <2>2 DEF res
<1>3. CASE res = Result("str", d2, <<e>>) /\ s # <<>>
    <2>1. <<e>> \in Seq(Elem) /\ rest \in Seq(Elem) /\ Len(rest) - Len(s) = -1
        BY <1>1, <1>3, PopTakes
    <2> HIDE DEF rest
    <2>2. KeyspaceOK(d2) /\ Grown(d, d2, k, Len(rest) - Len(s)) /\ (Proper(d) => Proper(d2))
        BY <2>1, EndIfEmptyIs
    <2>3. Grows(d, d2, -1)
        BY <2>1, <2>2, GrownGrows
    <2>4. res.db = d2 /\ res.ret = "str" /\ res.val = <<e>>
        BY <1>3 DEF Result
    <2> HIDE DEF res, d2, e
    <2>5. Fine(d, res) /\ Grows(d, res.db, -1)
        BY <2>1, <2>2, <2>3, <2>4 DEF Fine, Typed, Rets
    <2>6. QED BY <2>4, <2>5 DEF res
<1>4. QED BY <1>2, <1>3 DEF lpoprpop_command

\* lpush and rpush add what they bring if they answer a length.
LEMMA PushOK ==
    ASSUME NEW d, KeyspaceOK(d), NEW k \in Key, NEW side, NEW vals \in Seq(Elem), vals # <<>>
    PROVE  LET res == lpushrpush_command(d, side, k, vals)
           IN  Fine(d, res) /\ Grows(d, res.db, IF res.ret = "int" THEN Len(vals) ELSE 0)
<1> DEFINE s == d[k].items
           t == list_insert_all(s, side, vals)
           d2 == dict_add(d, k, ListObj(t))
           res == lpushrpush_command(d, side, k, vals)
<1>1. s \in Seq(Elem) /\ Len(s) \in Nat /\ Len(vals) \in Nat
    BY ItemsAreElements
<1>2. CASE res = Result("fail", d, <<>>)
    <2>1. res.db = d /\ res.ret = "fail" /\ res.val = <<>>
        BY <1>2 DEF Result
    <2> HIDE DEF res
    <2>2. Fine(d, res) /\ Grows(d, res.db, 0)
        BY <2>1, SameGrows, EmptySeq DEF Fine, Typed, Rets
    <2>3. QED BY <2>1, <2>2 DEF res
<1>3. CASE res = Result("int", d2, Len(t))
    <2>1. t \in Seq(Elem) /\ t # <<>> /\ Len(t) = Len(s) + Len(vals)
        BY <1>1, PushAdds
    <2> HIDE DEF t
    <2>2. KeyspaceOK(d2) /\ Grown(d, d2, k, Len(t) - Len(s)) /\ (Proper(d) => Proper(d2))
        BY <2>1, StoreIs, StoreGrows, StoreProper
    <2>3. Len(t) - Len(s) = Len(vals) /\ Len(t) \in Int
        BY <1>1, <2>1
    <2>4. Grows(d, d2, Len(vals))
        BY <2>2, <2>3, GrownGrows
    <2>5. res.db = d2 /\ res.ret = "int" /\ res.val = Len(t)
        BY <1>3 DEF Result
    <2> HIDE DEF res, d2
    <2>6. Fine(d, res) /\ Grows(d, res.db, Len(vals))
        BY <2>2, <2>3, <2>4, <2>5 DEF Fine, Typed, Rets
    <2>7. QED BY <2>5, <2>6 DEF res
<1>4. QED BY <1>2, <1>3 DEF lpushrpush_command

\* The scan of blpop and brpop over their keys stops at the first that exists, and
\* says 0 only if none does.
LEMMA FirstPresentIs ==
    ASSUME NEW d, NEW keys \in Seq(Key)
    PROVE  LET i == FirstPresent(d, keys)
           IN  i = 0 \/ (i \in 1..Len(keys) /\ \A j \in 1..(i - 1) : Missing(d, keys[j]))
<1> DEFINE I == {j \in 1..Len(keys) : ~Missing(d, keys[j])}
<1>1. FirstPresent(d, keys) = IF I # {} THEN Min(I) ELSE 0
    BY DEF FirstPresent, SelectInSeq
<1>2. I # {} => Min(I) \in I /\ \A j \in I : Min(I) <= j
    <2>1. I \subseteq Nat
        OBVIOUS
    <2> HIDE DEF I
    <2>2. QED BY <2>1, MinOfNats
<1>3. ASSUME I # {}, NEW j \in 1..(Min(I) - 1)
      PROVE  Missing(d, keys[j])
    <2>1. Min(I) \in 1..Len(keys) /\ Len(keys) \in Nat
        BY <1>2, <1>3
    <2>2. j \in 1..Len(keys) /\ ~(Min(I) <= j)
        BY <1>3, <2>1
    <2>3. j \notin I
        BY <1>2, <1>3, <2>2
    <2>4. QED BY <2>2, <2>3
<1> HIDE DEF I
<1>4. CASE I = {}
    BY <1>1, <1>4
<1>5. CASE I # {}
    <2>1. FirstPresent(d, keys) = Min(I) /\ Min(I) \in 1..Len(keys)
        BY <1>1, <1>2, <1>5 DEF I
    <2>2. QED BY <1>3, <1>5, <2>1
<1>6. QED BY <1>4, <1>5

\* blpop and brpop take one element if they answer one, from any of their keys; with
\* one key they leave no empty list behind.
LEMMA BlpopOK ==
    ASSUME NEW d, KeyspaceOK(d), NEW side, NEW keys \in Seq(Key), Len(keys) >= 1
    PROVE  LET res == blpopbrpop_command(d, side, keys)
           IN  /\ Typed(res)
               /\ Len(keys) = 1 => Fine(d, res)
               /\ Grows(d, res.db, IF res.ret = "arr" THEN -1 ELSE 0)
<1> DEFINE i == FirstPresent(d, keys)
           s == d[keys[i]].items
           rest == list_rest(s, side)
           e == list_pop(s, side)
           d2 == EndIfEmpty(d, keys[i], rest, keys[1])
           res == blpopbrpop_command(d, side, keys)
<1>1. keys[1] \in Key /\ Len(keys) \in Nat
    <2>1. Len(keys) \in Nat /\ 1 \in 1..Len(keys)
        OBVIOUS
    <2>2. QED BY <2>1
<1>2. CASE res \in {Result("blocked", d, <<>>), Result("fail", d, <<>>), Result("crash", d, <<>>)}
    <2>1. res.db = d /\ res.ret \in {"blocked", "fail", "crash"} /\ res.val = <<>>
        BY <1>2 DEF Result
    <2> HIDE DEF res
    <2>2. Fine(d, res) /\ Grows(d, res.db, 0)
        BY <1>1, <2>1, SameGrows, EmptySeq DEF Fine, Typed, Rets
    <2>3. QED BY <2>1, <2>2 DEF res, Fine
<1>3. CASE res = Result("arr", d2, <<e>>) /\ s # <<>> /\ i # 0
    <2>1. i \in 1..Len(keys) /\ (i = 1 \/ Missing(d, keys[1]))
        <3>1. i \in 1..Len(keys) /\ \A j \in 1..(i - 1) : Missing(d, keys[j])
            BY <1>3, FirstPresentIs
        <3> HIDE DEF i
        <3>2. i # 1 => 1 \in 1..(i - 1)
            BY <1>1, <3>1
        <3>3. QED BY <3>1, <3>2
    <2> HIDE DEF i
    <2>2. keys[i] \in Key /\ (keys[1] = keys[i] \/ Missing(d, keys[1])) /\ (Len(keys) = 1 => i = 1)
        <3>1. keys[i] \in Key
            BY <2>1
        <3>2. keys[1] = keys[i] \/ Missing(d, keys[1])
            BY <2>1
        <3>3. Len(keys) = 1 => i = 1
            BY <1>1, <2>1
        <3>4. QED BY <3>1, <3>2, <3>3
    <2>3. s \in Seq(Elem) /\ Len(s) \in Nat
        BY <2>2, ItemsAreElements
    <2>4. <<e>> \in Seq(Elem) /\ rest \in Seq(Elem) /\ Len(rest) - Len(s) = -1
        BY <1>3, <2>3, PopTakes
    <2> HIDE DEF rest
    <2>5. /\ KeyspaceOK(d2)
          /\ Grown(d, d2, keys[i], Len(rest) - Len(s))
          /\ (keys[1] = keys[i] /\ Proper(d) => Proper(d2))
        BY <1>1, <2>2, <2>4, EndIfEmptyIs
    <2>6. Grows(d, d2, -1)
        BY <2>4, <2>5, GrownGrows
    <2>7. res.db = d2 /\ res.ret = "arr" /\ res.val = <<e>>
        BY <1>3 DEF Result
    <2> HIDE DEF res, d2, e
    <2>8. Typed(res) /\ (Len(keys) = 1 => Fine(d, res)) /\ Grows(d, res.db, -1)
        BY <2>2, <2>4, <2>5, <2>6, <2>7 DEF Fine, Typed, Rets
    <2>9. QED BY <2>7, <2>8 DEF res
<1>4. QED BY <1>2, <1>3 DEF blpopbrpop_command

\* The move of an element takes one and gives one.
LEMMA PopPushOK ==
    ASSUME NEW d, KeyspaceOK(d), NEW src \in Key, NEW dst \in Key, NEW ret \in {"str", "arr"}
    PROVE  LET res == PopPush(d, src, dst, ret)
           IN  Fine(d, res) /\ (res.ret # "doublefree" => Grows(d, res.db, 0))
<1> DEFINE s == d[src].items
           rest == list_rest(s, "right")
           popped == EndIfEmpty(d, src, rest, src)
           e == list_pop(s, "right")
           t == list_insert(popped[dst].items, "left", e)
           d2 == dict_add(popped, dst, ListObj(t))
           res == PopPush(d, src, dst, ret)
<1>1. s \in Seq(Elem) /\ Len(s) \in Nat
    BY ItemsAreElements
<1>2. CASE s = <<>>
    <2> DEFINE removed == dict_rm(d, src)
    <2>1. KeyspaceOK(removed) /\ Grown(d, removed, src, 0 - Len(s)) /\ (Proper(d) => Proper(removed))
        BY <1>1, StoreIs, StoreGrows, StoreProper
    <2>2. Grows(d, removed, 0)
        <3>1. Len(s) = 0
            BY <1>2, EmptySeq
        <3>2. 0 - Len(s) = 0
            BY <3>1
        <3>3. QED BY <2>1, <3>2, GrownGrows
    <2>3. res.db = removed /\ res.ret \in {"doublefree", "crash"} /\ res.val = <<>>
        BY <1>2 DEF Result, PopPush
    <2> HIDE DEF res, removed
    <2>4. Fine(d, res) /\ Grows(d, res.db, 0)
        BY <2>1, <2>2, <2>3, EmptySeq DEF Fine, Typed, Rets
    <2>5. QED BY <2>4 DEF res
<1>3. CASE s # <<>>
    <2>1. <<e>> \in Seq(Elem) /\ rest \in Seq(Elem) /\ Len(rest) - Len(s) = -1
        BY <1>1, <1>3, PopTakes
    <2> HIDE DEF rest
    <2>2. KeyspaceOK(popped) /\ Grown(d, popped, src, -1) /\ (Proper(d) => Proper(popped))
        BY <2>1, EndIfEmptyIs
    <2>3. popped[dst].items \in Seq(Elem) /\ Len(popped[dst].items) \in Nat
        BY <2>2, ItemsAreElements
    <2> HIDE DEF popped, e, s
    <2>4. t \in Seq(Elem) /\ Len(t) - Len(popped[dst].items) = 1 /\ t # <<>>
        <3>1. t = <<e>> \o popped[dst].items
            BY DEF list_insert
        <3>2. t \in Seq(Elem) /\ Len(t) = Len(<<e>>) + Len(popped[dst].items)
            BY <2>1, <2>3, <3>1, ConcatProperties
        <3> HIDE DEF t
        <3>3. Len(<<e>>) = 1
            OBVIOUS
        <3>4. QED BY <2>3, <3>2, <3>3
    <2> HIDE DEF t
    <2>5. KeyspaceOK(d2) /\ Grown(popped, d2, dst, 1) /\ (Proper(popped) => Proper(d2))
        <3>1. KeyspaceOK(d2)
            BY <2>2, <2>4, StoreIs
        <3>2. Grown(popped, d2, dst, Len(t) - Len(popped[dst].items))
            BY <2>2, <2>4, StoreGrows
        <3>3. Proper(popped) => Proper(d2)
            BY <2>2, <2>4, StoreProper
        <3>4. QED BY <2>4, <3>1, <3>2, <3>3
    <2>6. Grows(d, d2, 0)
        <3>1. 0 = -1 + 1
            OBVIOUS
        <3>2. QED BY <2>2, <2>5, <3>1 DEF Grows
    <2>7. \/ res.ret = "doublefree" /\ res.db = popped /\ res.val = <<>>
          \/ res.ret = ret /\ res.db = d2 /\ res.val = <<e>>
        BY <1>3 DEF PopPush, Result, popped, e, s, rest, t
    <2> HIDE DEF res, d2
    <2>8. Fine(d, res) /\ (res.ret # "doublefree" => Grows(d, res.db, 0))
        BY <2>1, <2>2, <2>5, <2>6, <2>7, EmptySeq DEF Fine, Typed, Rets
    <2>9. QED BY <2>8 DEF res
<1>4. QED BY <1>2, <1>3

\* rpoplpush and brpoplpush lose no element, except on the path that frees an argument
\* for a second time.
LEMMA MovesOK ==
    ASSUME NEW d, KeyspaceOK(d), NEW src \in Key, NEW dst \in Key,
           NEW res \in {rpoplpush_command(d, src, dst), brpoplpush_command(d, src, dst)}
    PROVE  Fine(d, res) /\ (res.ret # "doublefree" => Grows(d, res.db, 0))
<1>1. CASE res \in {PopPush(d, src, dst, "str"), PopPush(d, src, dst, "arr")}
    BY <1>1, PopPushOK
<1>2. CASE res \in {Result("nil", d, <<>>), Result("fail", d, <<>>), Result("blocked", d, <<>>)}
    <2>1. res.db = d /\ res.ret \in {"nil", "fail", "blocked"} /\ res.val = <<>>
        BY <1>2 DEF Result
    <2>2. QED BY <2>1, SameGrows, EmptySeq DEF Fine, Typed, Rets
<1>3. QED BY <1>1, <1>2 DEF rpoplpush_command, brpoplpush_command

\* The last offset of lrange and ltrim is cut off at the tail.
LastOffset(s, j) == IF FromTail(s, j) < Len(s) THEN FromTail(s, j) ELSE Len(s) - 1

\* The loops of lrange and ltrim walk from the first offset to the last.
LEMMA SliceIs ==
    ASSUME NEW s \in Seq(Elem), NEW i \in Int, NEW j \in Int, ~OutOfRange(s, i, j),
           NEW a, a = FirstOffset(s, i), NEW b, b = LastOffset(s, j)
    PROVE  /\ a \in Nat /\ b \in Nat /\ a <= b /\ b < Len(s)
           /\ Slice(s, i, j) \in Seq(Elem)
           /\ Len(Slice(s, i, j)) = b - a + 1
           /\ \A r \in 1..(b - a + 1) : Slice(s, i, j)[r] = s[a + r]
<1> DEFINE n == Len(s)
           v == FromTail(s, j)
<1>1. n \in Nat /\ v \in Int
    BY DEF FromTail
<1>2. a \in Nat
    BY DEF FirstOffset, FromTail
<1>3. ~(v < a) /\ ~(a >= n)
    BY DEF OutOfRange
<1>4. b = IF v < n THEN v ELSE n - 1
    BY DEF LastOffset
<1>5. Slice(s, i, j) = IF v < n THEN SubSeq(s, a + 1, v + 1) ELSE SubSeq(s, a + 1, n)
    BY DEF Slice
<1>6. DOMAIN s = 1..n /\ \A x \in 1..n : s[x] \in Elem
    OBVIOUS
<1> HIDE DEF n, v
<1>7. b \in Nat /\ a <= b /\ b < n
    BY <1>1, <1>2, <1>3, <1>4
<1>8. Slice(s, i, j) = SubSeq(s, a + 1, b + 1)
    <2>1. v < n => b + 1 = v + 1
        BY <1>4
    <2>2. ~(v < n) => b + 1 = n
        BY <1>1, <1>4
    <2>3. QED BY <1>5, <2>1, <2>2
<1>9. \A x \in (a + 1)..(b + 1) : s[x] \in Elem
    BY <1>1, <1>2, <1>6, <1>7
<1>10. PICK m \in Int, w \in Int : m = a + 1 /\ w = b + 1
    BY <1>2, <1>7
<1>11. /\ SubSeq(s, m, w) \in Seq(Elem)
       /\ Len(SubSeq(s, m, w)) = IF m <= w THEN w - m + 1 ELSE 0
       /\ \A x \in 1..(w - m + 1) : SubSeq(s, m, w)[x] = s[m + x - 1]
    <2>1. \A x \in m..w : s[x] \in Elem
        BY <1>9, <1>10
    <2>2. QED BY <2>1, SubSeqProperties
<1>12. w - m + 1 = b - a + 1 /\ m <= w
    BY <1>2, <1>7, <1>10
<1>13. Slice(s, i, j) = SubSeq(s, m, w)
    BY <1>8, <1>10
<1>14. ASSUME NEW x \in 1..(b - a + 1) PROVE Slice(s, i, j)[x] = s[a + x]
    <2>1. x \in 1..(w - m + 1) /\ m + x - 1 = a + x
        BY <1>2, <1>7, <1>10, <1>12
    <2>2. QED BY <1>11, <1>13, <2>1
<1>15. QED BY <1>2, <1>7, <1>11, <1>12, <1>13, <1>14 DEF n

\* The reply array keeps the last cells it is filled with, all of them if they are
\* fewer than ArrCap.
LEMMA FilledIs ==
    ASSUME NEW s \in Seq(Elem)
    PROVE  /\ Filled(s) \in Seq(Elem)
           /\ Len(Filled(s)) = Len(s) % ArrCap
           /\ EndsWith(s, Filled(s))
<1>1. ArrCap \in Nat \ {0}
    BY BoundsAssumption
<1>2. Filled(s) = LastOf(s, ArrCap)
    BY DEF Filled, LastOf
<1> DEFINE t == Filled(s)
<1>3. /\ t \in Seq(Elem) /\ Len(t) = Len(s) % ArrCap /\ Len(t) <= Len(s)
      /\ \A r \in 1..Len(t) : t[r] = s[Len(s) - Len(t) + r]
    BY <1>1, <1>2, LastOnes
<1> HIDE DEF t
<1>4. DOMAIN t = 1..Len(t)
    BY <1>3
<1>5. EndsWith(s, t)
    BY <1>3, <1>4 DEF EndsWith
<1>6. QED BY <1>3, <1>5 DEF t

\* The commands that only look leave the keyspace alone.
LEMMA LookOK ==
    ASSUME NEW d, KeyspaceOK(d), NEW k \in Key, NEW i \in Int, NEW j \in Int,
           NEW res \in {llen_command(d, k), lrange_command(d, k, i, j), lindex_command(d, k, i)}
    PROVE  Fine(d, res) /\ Grows(d, res.db, 0)
<1> DEFINE s == d[k].items
<1>1. s \in Seq(Elem) /\ Len(s) \in Nat
    BY ItemsAreElements
<1>2. OutOfRange(s, i, j) \/ Filled(Slice(s, i, j)) \in Seq(Elem)
    BY <1>1, SliceIs, FilledIs
<1>3. InList(s, i) => <<s[FromTail(s, i) + 1]>> \in Seq(Elem)
    BY <1>1 DEF InList, FromTail
<1> HIDE DEF s
<1>4. res.db = d /\ res.ret \in {"fail", "int", "arr", "nil", "str"}
    BY DEF llen_command, lrange_command, lindex_command, Result
<1>5. (res.ret = "int" => res.val \in Int) /\ (res.ret # "int" => res.val \in Seq(Elem))
    <2>1. CASE res = llen_command(d, k)
        BY <1>1, <2>1, EmptySeq DEF llen_command, Result, s
    <2>2. CASE res = lrange_command(d, k, i, j)
        BY <1>2, <2>2, EmptySeq DEF lrange_command, Result, s
    <2>3. CASE res = lindex_command(d, k, i)
        BY <1>3, <2>3, EmptySeq DEF lindex_command, Result, s
    <2>4. QED BY <2>1, <2>2, <2>3
<1>6. QED BY <1>4, <1>5, SameGrows DEF Fine, Typed, Rets

\* ltrim leaves a list that is not empty, or none.
LEMMA TrimOK ==
    ASSUME NEW d, KeyspaceOK(d), NEW k \in Key, NEW i \in Int, NEW j \in Int
    PROVE  Fine(d, ltrim_command(d, k, i, j))
<1> DEFINE s == d[k].items
           t == Slice(s, i, j)
           removed == dict_rm(d, k)
           kept == dict_add(d, k, ListObj(t))
           res == ltrim_command(d, k, i, j)
<1>1. s \in Seq(Elem)
    BY ItemsAreElements
<1>2. \/ res \in {Result("ok", d, <<>>), Result("fail", d, <<>>), Result("ok", removed, <<>>)}
      \/ ~OutOfRange(s, i, j) /\ res = Result("ok", kept, <<>>)
    BY DEF ltrim_command
<1>3. CASE res \in {Result("ok", d, <<>>), Result("fail", d, <<>>), Result("ok", removed, <<>>)}
    <2>1. KeyspaceOK(removed) /\ (Proper(d) => Proper(removed))
        BY StoreIs, StoreProper, EmptySeq
    <2>2. res.db \in {d, removed} /\ res.ret \in {"ok", "fail"} /\ res.val = <<>>
        BY <1>3 DEF Result
    <2> HIDE DEF res, removed
    <2>3. Fine(d, res)
        BY <2>1, <2>2, EmptySeq DEF Fine, Typed, Rets
    <2>4. QED BY <2>3 DEF res
<1>4. CASE ~OutOfRange(s, i, j) /\ res = Result("ok", kept, <<>>)
    <2> DEFINE a == FirstOffset(s, i)
               b == LastOffset(s, j)
    <2>1. a \in Nat /\ b \in Nat /\ a <= b /\ t \in Seq(Elem) /\ Len(t) = b - a + 1
        BY <1>1, <1>4, SliceIs
    <2> HIDE DEF a, b, t
    <2>2. t # <<>>
        BY <2>1
    <2>3. KeyspaceOK(kept) /\ (Proper(d) => Proper(kept))
        BY <2>1, <2>2, StoreIs, StoreProper
    <2>4. res.db = kept /\ res.ret = "ok" /\ res.val = <<>>
        BY <1>4 DEF Result
    <2> HIDE DEF res, kept
    <2>5. Fine(d, res)
        BY <2>3, <2>4, EmptySeq DEF Fine, Typed, Rets
    <2>6. QED BY <2>5 DEF res
<1>5. QED BY <1>2, <1>3, <1>4

\* lset replaces one element by one.
LEMMA LsetOK ==
    ASSUME NEW d, KeyspaceOK(d), NEW k \in Key, NEW i \in Int, NEW e \in Elem
    PROVE  LET res == lset_command(d, k, i, e)
           IN  Fine(d, res) /\ Grows(d, res.db, 0)
<1> DEFINE s == d[k].items
           p == FromTail(s, i) + 1
           t == [s EXCEPT ![p] = e]
           d2 == dict_add(d, k, ListObj(t))
           res == lset_command(d, k, i, e)
<1>1. s \in Seq(Elem) /\ Len(s) \in Nat
    BY ItemsAreElements
<1>2. CASE res \in {Result("nil", d, <<>>), Result("fail", d, <<>>)}
    <2>1. res.db = d /\ res.ret \in {"nil", "fail"} /\ res.val = <<>>
        BY <1>2 DEF Result
    <2> HIDE DEF res
    <2>2. Fine(d, res) /\ Grows(d, res.db, 0)
        BY <2>1, SameGrows, EmptySeq DEF Fine, Typed, Rets
    <2>3. QED BY <2>2 DEF res
<1>3. CASE InList(s, i) /\ res = Result("str", d2, <<e>>)
    <2>1. p \in 1..Len(s)
        BY <1>1, <1>3 DEF InList, FromTail
    <2> HIDE DEF s, p
    <2>2. t \in Seq(Elem) /\ Len(t) = Len(s) /\ t # <<>>
        BY <1>1, <2>1
    <2> HIDE DEF t
    <2>3. KeyspaceOK(d2) /\ Grown(d, d2, k, Len(t) - Len(s)) /\ (Proper(d) => Proper(d2))
        BY <2>2, StoreIs, StoreGrows, StoreProper DEF s
    <2>4. Len(t) - Len(s) = 0
        BY <1>1, <2>2
    <2>5. Grows(d, d2, 0)
        BY <2>3, <2>4, GrownGrows
    <2>6. res.db = d2 /\ res.ret = "str" /\ res.val = <<e>>
        BY <1>3 DEF Result
    <2>7. <<e>> \in Seq(Elem)
        OBVIOUS
    <2> HIDE DEF res, d2
    <2>8. Fine(d, res) /\ Grows(d, res.db, 0)
        BY <2>3, <2>5, <2>6, <2>7 DEF Fine, Typed, Rets
    <2>9. QED BY <2>8 DEF res
<1>4. QED BY <1>2, <1>3 DEF lset_command

\* linsert finds the first occurrence of the pivot, and says 0 only if there is none.
PivotAt(s, pivot) == SelectInSeq(s, LAMBDA x : x = pivot)

LEMMA PivotIs ==
    ASSUME NEW s \in Seq(Elem), NEW pivot
    PROVE  LET i == PivotAt(s, pivot)
           IN  \/ i = 0 /\ \A j \in 1..Len(s) : s[j] # pivot
               \/ i \in 1..Len(s) /\ s[i] = pivot /\ \A j \in 1..(i - 1) : s[j] # pivot
<1> DEFINE I == {j \in 1..Len(s) : s[j] = pivot}
           i == PivotAt(s, pivot)
<1>1. i = IF I # {} THEN Min(I) ELSE 0
    BY DEF PivotAt, SelectInSeq
<1>2. I # {} => Min(I) \in I /\ \A j \in I : Min(I) <= j
    <2>1. I \subseteq Nat
        OBVIOUS
    <2> HIDE DEF I
    <2>2. QED BY <2>1, MinOfNats
<1>3. CASE I = {}
    BY <1>1, <1>3
<1>4. CASE I # {}
    <2>1. i \in I /\ \A j \in I : i <= j
        BY <1>1, <1>2, <1>4
    <2> HIDE DEF i
    <2>2. i \in 1..Len(s) /\ s[i] = pivot
        BY <2>1
    <2>3. ASSUME NEW j \in 1..(i - 1) PROVE s[j] # pivot
        <3>1. j \in 1..Len(s) /\ ~(i <= j)
            BY <2>2
        <3>2. QED BY <2>1, <3>1
    <2>4. QED BY <2>2, <2>3 DEF i
<1>5. QED BY <1>3, <1>4

\* The list with an element inserted at position p.
LEMMA InsertAtIs ==
    ASSUME NEW s \in Seq(Elem), NEW p \in 1..(Len(s) + 1), NEW e \in Elem
    PROVE  /\ InsertAt(s, p, e) \in Seq(Elem)
           /\ Len(InsertAt(s, p, e)) = Len(s) + 1
           /\ \A r \in 1..(Len(s) + 1) :
                 InsertAt(s, p, e)[r] = IF r < p THEN s[r] ELSE IF r = p THEN e ELSE s[r - 1]
<1> DEFINE t == SubSeq(s, 1, p - 1) \o <<e>> \o SubSeq(s, p, Len(s))
           l == Len(s)
<1>1. l \in Nat /\ p \in 1..(l + 1) /\ p - 1 \in 0..l /\ <<e>> \in Seq(Elem) /\ Len(<<e>>) = 1
    OBVIOUS
<1>2. /\ t \in Seq(Elem)
      /\ Len(t) = (p - 1) + Len(<<e>>) + (l - p + 1)
      /\ \A r \in 1..((p - 1) + Len(<<e>>) + (l - p + 1)) :
            t[r] = IF r <= p - 1 THEN s[r]
                   ELSE IF r <= (p - 1) + Len(<<e>>) THEN <<e>>[r - (p - 1)]
                   ELSE s[p + (r - (p - 1) - Len(<<e>>)) - 1]
    <2>1. PICK a \in 0..l, m \in Seq(Elem) : a = p - 1 /\ m = <<e>>
        BY <1>1
    <2>2. LET u == SubSeq(s, 1, a) \o m \o SubSeq(s, p, Len(s))
          IN  u \in Seq(Elem) /\ IsSplice(u, s, a, p, m)
        BY SpliceIs
    <2>3. SubSeq(s, 1, a) \o m \o SubSeq(s, p, Len(s)) = t
        BY <2>1
    <2> HIDE DEF t
    <2>4. t \in Seq(Elem) /\ IsSplice(t, s, a, p, m)
        BY <2>2, <2>3
    <2>5. QED BY <2>1, <2>4 DEF IsSplice
<1> HIDE DEF t, l
<1>3. (p - 1) + Len(<<e>>) + (l - p + 1) = l + 1
    BY <1>1
<1>4. ASSUME NEW r \in 1..(l + 1)
      PROVE  t[r] = IF r < p THEN s[r] ELSE IF r = p THEN e ELSE s[r - 1]
    <2>1. t[r] = IF r <= p - 1 THEN s[r]
                 ELSE IF r <= (p - 1) + 1 THEN <<e>>[r - (p - 1)]
                 ELSE s[p + (r - (p - 1) - 1) - 1]
        BY <1>1, <1>2, <1>3
    <2>2. CASE r < p
        <3>1. r <= p - 1
            BY <1>1, <2>2
        <3>2. QED BY <2>1, <2>2, <3>1
    <2>3. CASE r = p
        <3>1. ~(r <= p - 1) /\ r <= (p - 1) + 1 /\ r - (p - 1) = 1
            BY <1>1, <2>3
        <3>2. QED BY <2>1, <2>3, <3>1
    <2>4. CASE r > p
        <3>1. ~(r <= p - 1) /\ ~(r <= (p - 1) + 1) /\ p + (r - (p - 1) - 1) - 1 = r - 1
              /\ ~(r < p) /\ r # p
            BY <1>1, <2>4
        <3>2. QED BY <2>1, <3>1
    <2>5. QED BY <1>1, <2>2, <2>3, <2>4
<1>5. QED BY <1>2, <1>3, <1>4 DEF InsertAt, t, l

\* linsert adds one element if it answers a length, and none if it answers 0 or -1.
LEMMA LinsertOK ==
    ASSUME NEW d, KeyspaceOK(d), NEW k \in Key, NEW where, NEW pivot, NEW e \in Elem
    PROVE  LET res == linsert_command(d, k, where, pivot, e)
           IN  /\ Fine(d, res)
               /\ Grows(d, res.db, IF res.ret = "int" /\ res.val > 0 THEN 1 ELSE 0)
<1> DEFINE s == d[k].items
           i == PivotAt(s, pivot)
           t == InsertAt(s, InsertPos(where, i), e)
           d2 == dict_add(d, k, ListObj(t))
           res == linsert_command(d, k, where, pivot, e)
<1>1. s \in Seq(Elem) /\ Len(s) \in Nat
    BY ItemsAreElements
<1>2. \/ res \in {Result("fail", d, <<>>), Result("int", d, 0), Result("int", d, -1)}
      \/ i # 0 /\ res = Result("int", d2, Len(t))
    BY DEF linsert_command, PivotAt
<1>3. CASE res \in {Result("fail", d, <<>>), Result("int", d, 0), Result("int", d, -1)}
    <2>1. /\ res.db = d
          /\ \/ res.ret = "fail" /\ res.val = <<>>
             \/ res.ret = "int" /\ res.val \in {0, -1}
        BY <1>3 DEF Result
    <2> HIDE DEF res
    <2>2. Fine(d, res) /\ Grows(d, res.db, 0) /\ ~(res.ret = "int" /\ res.val > 0)
        <3>1. ~(0 > 0) /\ ~(-1 > 0) /\ 0 \in Int /\ -1 \in Int
            OBVIOUS
        <3>2. QED BY <2>1, <3>1, SameGrows, EmptySeq DEF Fine, Typed, Rets
    <2>3. QED BY <2>2 DEF res
<1>4. CASE i # 0 /\ res = Result("int", d2, Len(t))
    <2>1. i \in 1..Len(s)
        BY <1>1, <1>4, PivotIs
    <2> HIDE DEF s, i
    <2>2. InsertPos(where, i) \in 1..(Len(s) + 1)
        BY <1>1, <2>1 DEF InsertPos
    <2>3. t \in Seq(Elem) /\ Len(t) = Len(s) + 1
        BY <1>1, <2>2, InsertAtIs
    <2> HIDE DEF t
    <2>4. t # <<>> /\ Len(t) > 0 /\ Len(t) \in Int /\ Len(t) - Len(s) = 1
        BY <1>1, <2>3
    <2>5. KeyspaceOK(d2) /\ Grown(d, d2, k, Len(t) - Len(s)) /\ (Proper(d) => Proper(d2))
        BY <2>3, <2>4, StoreIs, StoreGrows, StoreProper DEF s
    <2>6. Grows(d, d2, 1)
        BY <2>4, <2>5, GrownGrows
    <2>7. res.db = d2 /\ res.ret = "int" /\ res.val = Len(t)
        BY <1>4 DEF Result
    <2> HIDE DEF res, d2
    <2>8. Fine(d, res) /\ Grows(d, res.db, 1) /\ res.ret = "int" /\ res.val > 0
        BY <2>4, <2>5, <2>6, <2>7 DEF Fine, Typed, Rets
    <2>9. QED BY <2>8 DEF res
<1>5. QED BY <1>2, <1>3, <1>4

\* set and del leave no empty list behind.
LEMMA SetDelOK ==
    ASSUME NEW d, KeyspaceOK(d), NEW k \in Key, NEW l \in Key
    PROVE  Fine(d, set_command(d, k)) /\ Fine(d, del_command(d, <<k, l>>))
<1>1. Fine(d, set_command(d, k))
    <2> DEFINE d2 == dict_add(d, k, StrObj)
    <2>1. KeyspaceOK(d2) /\ (Proper(d) => Proper(d2))
        BY StoreIs, StoreProper, EmptySeq
    <2> HIDE DEF d2
    <2>2. Fine(d, Result("ok", d2, <<>>))
        BY <2>1, EmptySeq DEF Fine, Typed, Rets, Result
    <2>3. QED BY <2>2 DEF set_command, d2
<1>2. Fine(d, del_command(d, <<k, l>>))
    <2> DEFINE keys == <<k, l>>
               d2 == [x \in Key |-> IF x \in ToSet(keys) THEN NoObj ELSE d[x]]
               gone == {x \in ToSet(keys) : ~Missing(d, x)}
    <2>1. KeyspaceOK(d2)
        BY DEF KeyspaceOK, Obj, NoObj
    <2>2. Proper(d) => Proper(d2)
        BY DEF Proper, NoObj
    <2>3. Cardinality(gone) \in Int
        <3>1. ToSet(keys) = {k, l}
            BY DEF ToSet
        <3>2. IsFiniteSet({k} \cup {l})
            BY FS_Singleton, FS_AddElement
        <3>3. gone \subseteq {k} \cup {l}
            BY <3>1
        <3>4. Cardinality(gone) \in Nat
            BY <3>2, <3>3, FS_Subset, FS_CardinalityType
        <3>5. QED BY <3>4
    <2> HIDE DEF d2, gone
    <2>4. Fine(d, Result("int", d2, Cardinality(gone)))
        BY <2>1, <2>2, <2>3 DEF Fine, Typed, Rets, Result
    <2>5. QED BY <2>4 DEF del_command, d2, gone
<1>3. QED BY <1>1, <1>2

-----------------------------------------------------------------------------
(* Ranks, and lrem *)

\* The number of positions in K up to p.
RankIn(K, p) == Cardinality({q \in K : q <= p})

\* Ranks count up to the cardinality, by one at each position of the set.
LEMMA RankSteps ==
    ASSUME NEW n \in Nat, NEW K, K \subseteq 1..n
    PROVE  /\ \A p \in 0..n : RankIn(K, p) \in Nat
           /\ RankIn(K, 0) = 0
           /\ RankIn(K, n) = Cardinality(K)
           /\ \A p \in 1..n : RankIn(K, p) = RankIn(K, p - 1) + (IF p \in K THEN 1 ELSE 0)
<1>1. ASSUME NEW p \in 0..n
      PROVE  IsFiniteSet({q \in K : q <= p}) /\ RankIn(K, p) \in Nat
    <2>1. IsFiniteSet(1..n)
        BY FS_Interval
    <2>2. {q \in K : q <= p} \subseteq 1..n
        OBVIOUS
    <2>3. QED BY <2>1, <2>2, FS_Subset, FS_CardinalityType DEF RankIn
<1>2. {q \in K : q <= 0} = {} /\ {q \in K : q <= n} = K
    <2>1. \A q \in K : q \in 1..n
        OBVIOUS
    <2>2. \A q \in 1..n : ~(q <= 0) /\ q <= n
        OBVIOUS
    <2>3. QED BY <2>1, <2>2
<1>3. RankIn(K, 0) = 0 /\ RankIn(K, n) = Cardinality(K)
    BY <1>2, FS_EmptySet DEF RankIn
<1>4. ASSUME NEW p \in 1..n
      PROVE  RankIn(K, p) = RankIn(K, p - 1) + (IF p \in K THEN 1 ELSE 0)
    <2> DEFINE A == {q \in K : q <= p - 1}
               B == {q \in K : q <= p}
    <2>1. IsFiniteSet(A)
        <3>1. p - 1 \in 0..n
            OBVIOUS
        <3>2. QED BY <1>1, <3>1
    <2>2. \A q \in K : (q <= p <=> q <= p - 1 \/ q = p) /\ (q <= p - 1 => q # p)
        <3>1. \A q \in 1..n : (q <= p <=> q <= p - 1 \/ q = p) /\ (q <= p - 1 => q # p)
            OBVIOUS
        <3>2. QED BY <3>1
    <2>3. CASE p \in K
        <3>1. B = A \cup {p} /\ p \notin A
            BY <2>2, <2>3
        <3> HIDE DEF A, B
        <3>2. Cardinality(B) = Cardinality(A) + 1
            BY <2>1, <3>1, FS_AddElement
        <3>3. QED BY <2>3, <3>2 DEF RankIn, A, B
    <2>4. CASE p \notin K
        <3>1. B = A
            BY <2>2, <2>4
        <3>2. p - 1 \in 0..n
            OBVIOUS
        <3>3. RankIn(K, p) = RankIn(K, p - 1) /\ RankIn(K, p - 1) \in Nat
            BY <1>1, <3>1, <3>2 DEF RankIn
        <3>4. QED BY <2>4, <3>3
    <2>5. QED BY <2>3, <2>4
<1>5. QED BY <1>1, <1>3, <1>4

\* A position has each rank.
LEMMA RankTaken ==
    ASSUME NEW n \in Nat, NEW K, K \subseteq 1..n, NEW r \in 1..Cardinality(K)
    PROVE  \E p \in K : RankIn(K, p) = r
<1> DEFINE S == {p \in 1..n : RankIn(K, p) >= r}
<1>1. /\ \A p \in 0..n : RankIn(K, p) \in Nat
      /\ RankIn(K, 0) = 0
      /\ RankIn(K, n) = Cardinality(K)
      /\ \A p \in 1..n : RankIn(K, p) = RankIn(K, p - 1) + (IF p \in K THEN 1 ELSE 0)
    BY RankSteps
<1>2. Cardinality(K) \in Nat /\ n \in 0..n
    BY <1>1
<1>3. n \in S
    <2>1. RankIn(K, n) >= r
        BY <1>1, <1>2
    <2>2. n # 0
        BY <1>1, <2>1
    <2>3. QED BY <2>1, <2>2
<1>4. PICK p \in S : \A q \in S : p <= q
    <2>1. S \subseteq Nat
        OBVIOUS
    <2> HIDE DEF S
    <2>2. QED BY <1>3, <2>1, MinOfNats
<1>5. p \in 1..n /\ p - 1 \in 0..n /\ RankIn(K, p) >= r
    BY <1>4
<1>6. RankIn(K, p - 1) < r
    <2>1. p - 1 \notin S
        <3> HIDE DEF S
        <3>1. p - 1 \in S => p <= p - 1
            BY <1>4
        <3>2. QED BY <1>5, <3>1
    <2>2. CASE p - 1 \in 1..n
        <3>1. RankIn(K, p - 1) \in Nat /\ ~(RankIn(K, p - 1) >= r)
            BY <1>1, <1>5, <2>1, <2>2
        <3>2. QED BY <3>1
    <2>3. CASE p - 1 = 0
        BY <1>1, <2>3
    <2>4. QED BY <1>5, <2>2, <2>3
<1>7. RankIn(K, p) = RankIn(K, p - 1) + (IF p \in K THEN 1 ELSE 0)
    BY <1>1, <1>5
<1>8. RankIn(K, p) \in Nat /\ RankIn(K, p - 1) \in Nat
    BY <1>1, <1>5
<1>9. p \in K
    BY <1>5, <1>6, <1>7, <1>8
<1>10. RankIn(K, p) = r
    BY <1>5, <1>6, <1>7, <1>8, <1>9
<1>11. QED BY <1>9, <1>10

\* A sequence whose element at the rank of each position in K is the element of s
\* at that position consists of the elements of s at K.
LEMMA AtIs ==
    ASSUME NEW s \in Seq(Elem), NEW K, K \subseteq DOMAIN s, NEW t \in Seq(Elem),
           Len(t) = Cardinality(K),
           \A p \in K : t[RankIn(K, p)] = s[p]
    PROVE  t = At(s, K)
<1>1. At(s, K) = [r \in 1..Cardinality(K) |-> s[CHOOSE p \in K : RankIn(K, p) = r]]
    BY DEF At, RankIn
<1>2. ASSUME NEW r \in 1..Cardinality(K)
      PROVE  t[r] = s[CHOOSE p \in K : RankIn(K, p) = r]
    <2>1. Len(s) \in Nat /\ K \subseteq 1..Len(s)
        OBVIOUS
    <2>2. \E p \in K : RankIn(K, p) = r
        BY <2>1, RankTaken
    <2>3. PICK p \in K : RankIn(K, p) = r /\ p = CHOOSE q \in K : RankIn(K, q) = r
        BY <2>2
    <2>4. QED BY <2>3
<1>3. t = [r \in 1..Cardinality(K) |-> t[r]]
    <2>1. t = [r \in 1..Len(t) |-> t[r]]
        OBVIOUS
    <2>2. QED BY <2>1
<1>4. QED BY <1>1, <1>2, <1>3

\* The positions at which s has e, and those that a pass that removes max of these keeps.
Hits(s, e) == {p \in DOMAIN s : s[p] = e}
KeptBy(s, e, max) == {p \in DOMAIN s : ~(s[p] = e /\ RankIn(Hits(s, e), p) <= max)}

\* What a pass of lrem has done after m positions.
PassedTo(s, e, max, m, x) ==
    /\ x.count = IF RankIn(Hits(s, e), m) <= max THEN RankIn(Hits(s, e), m) ELSE max
    /\ x.count + Len(x.left) = m
    /\ Len(x.left) = RankIn(KeptBy(s, e, max), m)
    /\ \A p \in KeptBy(s, e, max) : p <= m => x.left[RankIn(KeptBy(s, e, max), p)] = s[p]

\* One step of a pass.
LEMMA PassStep ==
    ASSUME NEW s \in Seq(Elem), NEW e, NEW max \in Nat, NEW m \in 1..Len(s),
           NEW x \in [left : Seq(Elem), count : Nat], PassedTo(s, e, max, m - 1, x),
           NEW y, y = IF s[m] = e /\ x.count < max
                      THEN [x EXCEPT !.count = @ + 1]
                      ELSE [x EXCEPT !.left = Append(@, s[m])]
    PROVE  PassedTo(s, e, max, m, y)
<1> DEFINE H == Hits(s, e)
           K == KeptBy(s, e, max)
           h == RankIn(H, m - 1)
           k == RankIn(K, m - 1)
<1>1. Len(s) \in Nat /\ H \subseteq 1..Len(s) /\ K \subseteq 1..Len(s) /\ m - 1 \in 0..Len(s)
    BY DEF Hits, KeptBy
<1>2. /\ h \in Nat /\ k \in Nat
      /\ RankIn(H, m) = h + (IF m \in H THEN 1 ELSE 0)
      /\ RankIn(K, m) = k + (IF m \in K THEN 1 ELSE 0)
    <2> HIDE DEF H, K
    <2>1. /\ RankIn(H, m - 1) \in Nat /\ RankIn(K, m - 1) \in Nat
          /\ RankIn(H, m) = RankIn(H, m - 1) + (IF m \in H THEN 1 ELSE 0)
          /\ RankIn(K, m) = RankIn(K, m - 1) + (IF m \in K THEN 1 ELSE 0)
        <3> DEFINE n == Len(s)
        <3>1. n \in Nat /\ H \subseteq 1..n /\ K \subseteq 1..n /\ m \in 1..n /\ m - 1 \in 0..n
            BY <1>1
        <3> HIDE DEF n
        <3>2. /\ \A p \in 0..n : RankIn(H, p) \in Nat
              /\ \A p \in 1..n : RankIn(H, p) = RankIn(H, p - 1) + (IF p \in H THEN 1 ELSE 0)
            BY <3>1, RankSteps
        <3>3. /\ \A p \in 0..n : RankIn(K, p) \in Nat
              /\ \A p \in 1..n : RankIn(K, p) = RankIn(K, p - 1) + (IF p \in K THEN 1 ELSE 0)
            BY <3>1, RankSteps
        <3>4. QED BY <3>1, <3>2, <3>3
    <2>2. QED BY <2>1
<1>3. (m \in H <=> s[m] = e) /\ (m \in K <=> ~(s[m] = e /\ RankIn(H, m) <= max))
    BY DEF Hits, KeptBy
<1>4. /\ x.count = IF h <= max THEN h ELSE max
      /\ x.count + Len(x.left) = m - 1
      /\ Len(x.left) = k
      /\ \A p \in K : p <= m - 1 => x.left[RankIn(K, p)] = s[p]
    BY DEF PassedTo
<1> DEFINE below == \A p \in K : p <= m - 1 => RankIn(K, p) \in 1..k
<1>5. below
    <2>1. ASSUME NEW p \in K, p <= m - 1 PROVE RankIn(K, p) \in 1..k
        <3> DEFINE A == {q \in K : q <= p}
                   B == {q \in K : q <= m - 1}
        <3>1. A \subseteq B
            <4>1. \A q \in K : q \in Nat /\ p \in Nat
                BY <1>1
            <4>2. QED BY <2>1, <4>1, <1>1
        <3>2. p \in A
            BY <1>1, <2>1
        <3>3. B \subseteq 1..Len(s) /\ IsFiniteSet(1..Len(s))
            <4>1. Len(s) \in Int /\ 1 \in Int
                BY <1>1
            <4>2. IsFiniteSet(1..Len(s))
                BY <4>1, FS_Interval
            <4>3. QED BY <1>1, <4>2
        <3> HIDE DEF A, B
        <3>4. IsFiniteSet(B) /\ IsFiniteSet(A)
            BY <3>1, <3>3, FS_Subset
        <3>5. Cardinality(A) <= Cardinality(B) /\ Cardinality(A) \in Nat /\ Cardinality(B) \in Nat
            BY <3>1, <3>4, FS_Subset, FS_CardinalityType
        <3>6. Cardinality(A) # 0
            BY <3>2, <3>4, FS_EmptySet
        <3>7. RankIn(K, p) = Cardinality(A) /\ k = Cardinality(B)
            BY DEF RankIn, A, B
        <3>8. QED BY <3>5, <3>6, <3>7
    <2>2. QED BY <2>1
<1> HIDE DEF H, K, h, k, below
<1>6. CASE s[m] = e /\ x.count < max
    <2>1. h < max /\ x.count = h /\ m \in H /\ RankIn(H, m) = h + 1 /\ h + 1 <= max
        BY <1>2, <1>3, <1>4, <1>6
    <2>2. m \notin K /\ RankIn(K, m) = k
        BY <1>2, <1>3, <1>6, <2>1
    <2>3. y.left = x.left /\ y.count = h + 1
        BY <1>6, <2>1
    <2>4. ASSUME NEW p \in K, p <= m PROVE y.left[RankIn(K, p)] = s[p]
        <3>1. p <= m - 1
            <4>1. p \in Nat /\ p # m
                BY <1>1, <2>2
            <4>2. QED BY <2>4, <4>1
        <3>2. QED BY <1>4, <2>3, <3>1
    <2>5. (h + 1) + Len(x.left) = m
        BY <1>2, <1>4, <2>1
    <2>6. QED BY <1>4, <2>1, <2>2, <2>3, <2>4, <2>5 DEF PassedTo, H, K
<1>7. CASE ~(s[m] = e /\ x.count < max)
    <2>1. m \in K /\ RankIn(K, m) = k + 1
        <3>1. s[m] = e => RankIn(H, m) = h + 1 /\ ~(h < max)
            BY <1>2, <1>3, <1>4, <1>7
        <3>2. s[m] = e => ~(RankIn(H, m) <= max)
            BY <1>2, <3>1
        <3>3. m \in K
            BY <1>3, <3>2
        <3>4. QED BY <1>2, <3>3
    <2>2. x.count = IF RankIn(H, m) <= max THEN RankIn(H, m) ELSE max
        <3>1. CASE s[m] = e
            <4>1. RankIn(H, m) = h + 1 /\ ~(h < max)
                BY <1>2, <1>3, <1>4, <1>7, <3>1
            <4>2. QED BY <1>2, <1>4, <4>1
        <3>2. CASE s[m] # e
            BY <1>2, <1>3, <1>4, <3>2
        <3>3. QED BY <3>1, <3>2
    <2>3. y.left = Append(x.left, s[m]) /\ y.count = x.count
        BY <1>7
    <2>4. /\ x.left \in Seq(Elem) /\ s[m] \in Elem
          /\ Len(Append(x.left, s[m])) = k + 1
          /\ Append(x.left, s[m])[k + 1] = s[m]
          /\ \A q \in 1..k : Append(x.left, s[m])[q] = x.left[q]
        BY <1>4
    <2>5. ASSUME NEW p \in K, p <= m PROVE y.left[RankIn(K, p)] = s[p]
        <3>1. CASE p = m
            BY <2>1, <2>3, <2>4, <3>1
        <3>2. CASE p # m
            <4>1. p <= m - 1
                <5>1. p \in Nat
                    BY <1>1
                <5>2. QED BY <2>5, <3>2, <5>1
            <4>2. RankIn(K, p) \in 1..k /\ x.left[RankIn(K, p)] = s[p]
                BY <1>4, <1>5, <4>1 DEF below
            <4>3. QED BY <2>3, <2>4, <4>2
        <3>3. QED BY <3>1, <3>2
    <2>6. x.count + (k + 1) = m
        BY <1>2, <1>4
    <2>7. QED BY <2>1, <2>2, <2>3, <2>4, <2>5, <2>6 DEF PassedTo, H, K
<1>8. QED BY <1>6, <1>7

\* A pass of lrem keeps what it should, in the order of the list, and counts the rest.
LEMMA RemovePassIs ==
    ASSUME NEW s \in Seq(Elem), NEW e, NEW max \in Nat
    PROVE  /\ RemovePass(s, e, max) \in [left : Seq(Elem), count : Nat]
           /\ PassedTo(s, e, max, Len(s), RemovePass(s, e, max))
<1> DEFINE n == Len(s)
           V == [left : Seq(Elem), count : Nat]
           Step(v, x) == IF x = e /\ v.count < max
                         THEN [v EXCEPT !.count = @ + 1]
                         ELSE [v EXCEPT !.left = Append(@, x)]
           base == [left |-> <<>>, count |-> 0]
           Eq(g) == g = [S \in SUBSET (DOMAIN s) |->
                            IF S = {} THEN base ELSE Step(g[S \ {Max(S)}], s[Max(S)])]
           iter == CHOOSE g : Eq(g)
           F == [p \in 1..n |-> [v \in V |-> Step(v, s[p])]]
<1>1. RemovePass(s, e, max) = iter[DOMAIN s]
    BY DEF RemovePass, FoldLeft, MapThenFoldSet
<1>2. n \in Nat /\ DOMAIN s = 1..n /\ \A p \in 1..n : s[p] \in Elem
    OBVIOUS
<1> HIDE DEF n
<1>3. ASSUME NEW v \in V, NEW x \in Elem PROVE Step(v, x) \in V
    <2>1. v.count \in Nat /\ v.left \in Seq(Elem)
        OBVIOUS
    <2>2. v.count + 1 \in Nat /\ Append(v.left, x) \in Seq(Elem)
        BY <2>1
    <2>3. [v EXCEPT !.count = @ + 1] = [left |-> v.left, count |-> v.count + 1]
        OBVIOUS
    <2>4. [v EXCEPT !.left = Append(@, x)] \in V
        <3> DEFINE t == Append(v.left, x)
        <3> HIDE DEF t
        <3>1. [v EXCEPT !.left = t] = [left |-> t, count |-> v.count]
            OBVIOUS
        <3>2. QED BY <2>1, <2>2, <3>1 DEF t
    <2>5. QED BY <2>1, <2>2, <2>3, <2>4
<1> HIDE DEF Step
<1>4. base \in V
    BY EmptySeq
<1> HIDE DEF V, base
<1>5. F \in [1..n -> [V -> V]]
    BY <1>2, <1>3
<1>6. PICK g \in [SUBSET (1..n) -> V] : FoldsTo(g, n, F, base)
    <2> HIDE DEF F
    <2>1. QED BY <1>2, <1>4, <1>5, FoldExists
<1>7. ASSUME NEW S \in SUBSET (1..n), S # {} PROVE Max(S) \in 1..n /\ Max(S) \in S
    BY <1>2, <1>7, MaxOfNats
<1>8. Eq(g)
    <2>1. ASSUME NEW S \in SUBSET (1..n), S # {}
          PROVE  g[S] = Step(g[S \ {Max(S)}], s[Max(S)])
        <3>1. Max(S) \in 1..n
            BY <1>7, <2>1
        <3>2. g[S] = F[Max(S)][g[S \ {Max(S)}]]
            BY <1>6, <2>1 DEF FoldsTo
        <3>3. g[S \ {Max(S)}] \in V
            BY <1>6
        <3>4. QED BY <3>1, <3>2, <3>3
    <2>2. g[{}] = base
        BY <1>6 DEF FoldsTo
    <2>3. g = [S \in SUBSET (1..n) |-> g[S]]
        BY <1>6
    <2>4. QED BY <1>2, <2>1, <2>2, <2>3
<1>9. Eq(iter)
    <2> HIDE DEF Eq
    <2>1. QED BY <1>8
<1>10. /\ iter[{}] = base
       /\ \A S \in SUBSET (1..n) : S # {} => iter[S] = Step(iter[S \ {Max(S)}], s[Max(S)])
    <2> HIDE DEF iter
    <2>1. QED BY <1>2, <1>9
<1> HIDE DEF iter, Eq, F
<1> DEFINE W == [S \in SUBSET (1..n) |->
                   {v \in V : \A m \in 0..n : S = 1..m => PassedTo(s, e, max, m, v)}]
<1>11. iter[{}] \in W[{}]
    <2>1. PassedTo(s, e, max, 0, base)
        <3>1. Hits(s, e) \subseteq 1..n /\ KeptBy(s, e, max) \subseteq 1..n
            BY <1>2 DEF Hits, KeptBy
        <3>2. RankIn(Hits(s, e), 0) = 0 /\ RankIn(KeptBy(s, e, max), 0) = 0
            BY <1>2, <3>1, RankSteps
        <3>3. base.left = <<>> /\ base.count = 0 /\ Len(<<>>) = 0
            BY DEF base
        <3>4. \A p \in KeptBy(s, e, max) : ~(p <= 0)
            BY <1>2, <3>1
        <3>5. QED BY <3>2, <3>3, <3>4 DEF PassedTo
    <2>2. \A m \in 0..n : {} = 1..m => m = 0
        BY <1>2
    <2>3. QED BY <1>4, <1>10, <2>1, <2>2
<1>12. ASSUME NEW S \in SUBSET (1..n), S # {}, iter[S \ {Max(S)}] \in W[S \ {Max(S)}]
       PROVE  iter[S] \in W[S]
    <2> DEFINE q == Max(S)
               v == iter[S \ {q}]
    <2>1. q \in 1..n /\ q \in S
        BY <1>7, <1>12
    <2>2. iter[S] = Step(v, s[q]) /\ v \in V
        BY <1>10, <1>12
    <2>3. iter[S] \in V
        BY <1>2, <1>3, <2>1, <2>2
    <2>4. ASSUME NEW m \in 0..n, S = 1..m PROVE PassedTo(s, e, max, m, iter[S])
        <3>1. m \in 1..n /\ m - 1 \in 0..n
            BY <1>2, <1>12, <2>4
        <3>2. q = m
            <4>1. m \in S /\ \A y \in S : y <= q
                <5>1. m \in S
                    BY <2>4, <3>1
                <5>2. S \subseteq 1..n
                    OBVIOUS
                <5>3. QED BY <1>2, <1>12, <5>1, <5>2, MaxOfNats
            <4>2. m <= q /\ q <= m
                BY <2>1, <2>4, <4>1
            <4>3. QED BY <2>1, <3>1, <4>2
        <3>3. S \ {q} = 1..(m - 1)
            BY <1>2, <2>4, <3>1, <3>2
        <3>4. PassedTo(s, e, max, m - 1, v)
            BY <1>12, <3>1, <3>3
        <3>5. m \in 1..Len(s) /\ v \in [left : Seq(Elem), count : Nat]
            BY <2>2, <3>1 DEF n, V
        <3>6. iter[S] = IF s[m] = e /\ v.count < max
                        THEN [v EXCEPT !.count = @ + 1]
                        ELSE [v EXCEPT !.left = Append(@, s[m])]
            BY <2>2, <3>2 DEF Step
        <3> HIDE DEF v, q
        <3>7. QED BY <3>4, <3>5, <3>6, PassStep
    <2> HIDE DEF v, q
    <2>5. QED BY <2>3, <2>4
<1>13. iter[1..n] \in W[1..n]
    <2> HIDE DEF W
    <2>1. \A S \in SUBSET (1..n) : iter[S] \in W[S]
        BY <1>2, <1>11, <1>12, FoldKeeps
    <2>2. QED BY <2>1
<1>14. iter[1..n] \in V /\ PassedTo(s, e, max, n, iter[1..n])
    BY <1>2, <1>13
<1>15. QED BY <1>1, <1>2, <1>14 DEF V, n

\* A reversed sequence.
LEMMA ReverseIs ==
    ASSUME NEW s \in Seq(Elem)
    PROVE  /\ Reverse(s) \in Seq(Elem) /\ Len(Reverse(s)) = Len(s)
           /\ \A i \in 1..Len(s) : Reverse(s)[i] = s[Len(s) + 1 - i]
<1>1. \A i \in 1..Len(s) : Len(s) - i + 1 \in 1..Len(s) /\ Len(s) - i + 1 = Len(s) + 1 - i
    OBVIOUS
<1>2. Reverse(s) = [i \in 1..Len(s) |-> s[Len(s) - i + 1]]
    BY DEF Reverse
<1>3. \A i \in 1..Len(s) : s[Len(s) - i + 1] \in Elem
    BY <1>1
<1>4. QED BY <1>1, <1>2, <1>3

\* The sets A and B of positions in 1..n are mirror images of one another.
Mirror(n, A, B) ==
    /\ A \subseteq 1..n /\ B \subseteq 1..n
    /\ \A p \in 1..n : p \in A <=> n + 1 - p \in B

\* They are equally large.
LEMMA MirrorSize ==
    ASSUME NEW n \in Nat, NEW A, NEW B, Mirror(n, A, B)
    PROVE  /\ IsFiniteSet(A) /\ IsFiniteSet(B)
           /\ Cardinality(A) = Cardinality(B) /\ Cardinality(A) \in Nat
<1> DEFINE f == [p \in A |-> n + 1 - p]
<1> USE DEF Mirror
<1>1. \A p \in 1..n : n + 1 - p \in 1..n /\ n + 1 - (n + 1 - p) = p
    OBVIOUS
<1>2. f \in [A -> B]
    <2>1. \A p \in A : p \in 1..n
        OBVIOUS
    <2>2. \A p \in A : n + 1 - p \in B
        BY <2>1
    <2>3. QED BY <2>2
<1>3. \A p, q \in A : f[p] = f[q] => p = q
    <2>1. TAKE p, q \in A
    <2>2. p \in 1..n /\ q \in 1..n /\ f[p] = n + 1 - p /\ f[q] = n + 1 - q
        OBVIOUS
    <2> HIDE DEF f
    <2>3. QED BY <2>2
<1>4. \A t \in B : \E p \in A : f[p] = t
    <2>1. TAKE t \in B
    <2>2. t \in 1..n /\ n + 1 - t \in 1..n /\ n + 1 - (n + 1 - t) = t
        BY <1>1
    <2>3. n + 1 - t \in A
        BY <2>2
    <2>4. f[n + 1 - t] = t
        BY <2>2, <2>3
    <2>5. QED BY <2>3, <2>4
<1>5. f \in Bijection(A, B)
    <2> HIDE DEF f
    <2>1. QED BY <1>2, <1>3, <1>4 DEF Bijection, Injection, Surjection, IsInjective
<1>6. IsFiniteSet(A) /\ IsFiniteSet(B)
    <2>1. IsFiniteSet(1..n)
        BY FS_Interval
    <2>2. QED BY <2>1, FS_Subset
<1>7. ExistsBijection(A, B)
    BY <1>5 DEF ExistsBijection
<1>8. QED BY <1>6, <1>7, FS_Bijection, FS_CardinalityType

\* The rank of position p in A and that of its image in B.
RanksMirror(n, A, B, p) ==
    /\ RankIn(B, n + 1 - p) = Cardinality({q \in A : q >= p})
    /\ p \in A => RankIn(A, p) + RankIn(B, n + 1 - p) = Cardinality(A) + 1
    /\ RankIn(A, p) \in Nat /\ RankIn(B, n + 1 - p) \in Nat /\ Cardinality(A) \in Nat

\* The ranks in a set and in its mirror image add up.
LEMMA MirrorRank ==
    ASSUME NEW n \in Nat, NEW A, NEW B, Mirror(n, A, B), NEW p \in 1..n
    PROVE  RanksMirror(n, A, B, p)
<1>1. A \subseteq 1..n /\ B \subseteq 1..n /\ \A q \in 1..n : q \in A <=> n + 1 - q \in B
    BY DEF Mirror
<1> DEFINE above == {q \in A : q >= p}
           upto == {q \in A : q <= p}
           image == {q \in B : q <= n + 1 - p}
<1>2. /\ IsFiniteSet(above) /\ IsFiniteSet(image) /\ Cardinality(image) = Cardinality(above)
      /\ Cardinality(above) \in Nat
    <2>1. above \subseteq 1..n /\ image \subseteq 1..n
        BY <1>1
    <2>2. \A q \in 1..n : q >= p <=> n + 1 - q <= n + 1 - p
        OBVIOUS
    <2>3. \A q \in 1..n : q \in above <=> n + 1 - q \in image
        BY <1>1, <2>2
    <2> HIDE DEF above, image
    <2>4. /\ IsFiniteSet(above) /\ IsFiniteSet(image)
          /\ Cardinality(above) = Cardinality(image) /\ Cardinality(above) \in Nat
        BY <2>1, <2>3, MirrorSize DEF Mirror
    <2>5. QED BY <2>4
<1>3. IsFiniteSet(A) /\ IsFiniteSet(upto) /\ Cardinality(upto) \in Nat /\ Cardinality(A) \in Nat
    <2>1. upto \subseteq 1..n
        BY <1>1
    <2>2. IsFiniteSet(1..n)
        BY FS_Interval
    <2> HIDE DEF upto
    <2>3. QED BY <2>1, <2>2, FS_Subset, FS_CardinalityType, <1>1
<1>4. p \in A => Cardinality(upto) + Cardinality(above) = Cardinality(A) + 1
    <2>1. SUFFICES ASSUME p \in A PROVE Cardinality(upto) + Cardinality(above) = Cardinality(A) + 1
        OBVIOUS
    <2>2. \A q \in 1..n : (q <= p \/ q >= p) /\ (q <= p /\ q >= p <=> q = p)
        OBVIOUS
    <2>3. upto \cup above = A /\ upto \cap above = {p}
        <3>1. \A q \in A : q \in 1..n
            BY <1>1
        <3>2. QED BY <2>1, <2>2, <3>1
    <2> HIDE DEF upto, above
    <2>4. Cardinality(A) = Cardinality(upto) + Cardinality(above) - Cardinality({p})
        BY <1>2, <1>3, <2>3, FS_Union
    <2>5. Cardinality({p}) = 1
        BY FS_Singleton
    <2>6. QED BY <1>2, <1>3, <2>4, <2>5
<1>5. QED BY <1>2, <1>3, <1>4 DEF RanksMirror, RankIn

\* The positions that lrem with count n should keep: RemAgrees speaks of the elements there.
Kept(s, n, e) ==
    LET Rank(p) == Cardinality({q \in DOMAIN s : s[q] = e /\ (IF n > 0 THEN q <= p ELSE q >= p)})
    IN  {p \in DOMAIN s : ~(s[p] = e /\ (n = 0 \/ Rank(p) <= (IF n > 0 THEN n ELSE -n)))}

\* lrem unlinks what it counts, and keeps the elements it should.
LEMMA LremIs ==
    ASSUME NEW s \in Seq(Elem), NEW n \in Int, NEW e
    PROVE  /\ lrem(s, n, e).left \in Seq(Elem)
           /\ lrem(s, n, e).count \in Nat
           /\ lrem(s, n, e).count + Len(lrem(s, n, e).left) = Len(s)
           /\ lrem(s, n, e).left = At(s, Kept(s, n, e))
<1> DEFINE L == Len(s)
<1>1. L \in Nat /\ DOMAIN s = 1..L
    OBVIOUS
<1>2. CASE n > 0
    <2> DEFINE r == RemovePass(s, e, n)
    <2>1. n \in Nat
        BY <1>2
    <2>2. r.left \in Seq(Elem) /\ r.count \in Nat /\ PassedTo(s, e, n, L, r)
        BY <2>1, RemovePassIs
    <2>3. lrem(s, n, e) = r
        BY <1>2 DEF lrem
    <2>4. Kept(s, n, e) = KeptBy(s, e, n)
        <3>1. ASSUME NEW p \in 1..L
              PROVE  {q \in DOMAIN s : s[q] = e /\ q <= p} = {q \in Hits(s, e) : q <= p}
            BY DEF Hits
        <3>2. n # 0
            BY <1>2
        <3>3. QED BY <1>1, <1>2, <3>1, <3>2 DEF Kept, KeptBy, RankIn
    <2> DEFINE K == KeptBy(s, e, n)
    <2>5. K \subseteq 1..L
        BY <1>1 DEF KeptBy
    <2> HIDE DEF r, K, L
    <2>6. /\ r.count + Len(r.left) = L
          /\ Len(r.left) = RankIn(K, L)
          /\ \A p \in K : p <= L => r.left[RankIn(K, p)] = s[p]
        BY <2>2 DEF PassedTo, K
    <2>7. RankIn(K, L) = Cardinality(K)
        BY <1>1, <2>5, RankSteps
    <2>8. \A p \in K : r.left[RankIn(K, p)] = s[p]
        BY <1>1, <2>5, <2>6
    <2>9. r.left = At(s, K)
        BY <1>1, <2>2, <2>5, <2>6, <2>7, <2>8, AtIs
    <2>10. QED BY <2>2, <2>3, <2>4, <2>6, <2>9 DEF K, L
<1>3. CASE n = 0
    <2> DEFINE r == RemovePass(s, e, L)
    <2>1. r.left \in Seq(Elem) /\ r.count \in Nat /\ PassedTo(s, e, L, L, r)
        BY <1>1, RemovePassIs
    <2>2. lrem(s, n, e) = r
        BY <1>3 DEF lrem
    <2>3. Kept(s, n, e) = KeptBy(s, e, L)
        <3>1. Hits(s, e) \subseteq 1..L
            BY <1>1 DEF Hits
        <3>2. ASSUME NEW p \in 1..L PROVE RankIn(Hits(s, e), p) <= L
            <4>1. {q \in Hits(s, e) : q <= p} \subseteq 1..L
                BY <3>1
            <4>2. IsFiniteSet(1..L) /\ Cardinality(1..L) = L
                <5>1. 1 \in Int /\ L \in Int /\ (1 > L => L = 0) /\ L - 1 + 1 = L
                    BY <1>1
                <5> HIDE DEF L
                <5>2. IsFiniteSet(1..L) /\ Cardinality(1..L) = IF 1 > L THEN 0 ELSE L - 1 + 1
                    BY <5>1, FS_Interval
                <5>3. QED BY <5>1, <5>2
            <4>3. Cardinality({q \in Hits(s, e) : q <= p}) <= Cardinality(1..L)
                BY <4>1, <4>2, FS_Subset
            <4>4. QED BY <4>2, <4>3 DEF RankIn
        <3>3. QED BY <1>1, <1>3, <3>2 DEF Kept, KeptBy
    <2> DEFINE K == KeptBy(s, e, L)
    <2>4. K \subseteq 1..L
        BY <1>1 DEF KeptBy
    <2> HIDE DEF r, K, L
    <2>5. /\ r.count + Len(r.left) = L
          /\ Len(r.left) = RankIn(K, L)
          /\ \A p \in K : p <= L => r.left[RankIn(K, p)] = s[p]
        BY <2>1 DEF PassedTo, K
    <2>6. RankIn(K, L) = Cardinality(K)
        BY <1>1, <2>4, RankSteps
    <2>7. \A p \in K : r.left[RankIn(K, p)] = s[p]
        BY <1>1, <2>4, <2>5
    <2>8. r.left = At(s, K)
        BY <1>1, <2>1, <2>4, <2>5, <2>6, <2>7, AtIs
    <2>9. QED BY <2>1, <2>2, <2>3, <2>5, <2>8 DEF K, L
<1>4. CASE n < 0
    <2> DEFINE m == -n
               u == Reverse(s)
               r == RemovePass(u, e, m)
               t == Reverse(r.left)
               K == Kept(s, n, e)
               M == KeptBy(u, e, m)
    <2>1. m \in Nat /\ ~(n > 0) /\ n # 0
        BY <1>4
    <2>2. u \in Seq(Elem) /\ Len(u) = L /\ DOMAIN u = 1..L /\ \A i \in 1..L : u[i] = s[L + 1 - i]
        BY ReverseIs
    <2>3. r \in [left : Seq(Elem), count : Nat] /\ PassedTo(u, e, m, L, r)
        <3> HIDE DEF u, m, r, L
        <3>1. QED BY <2>1, <2>2, RemovePassIs DEF r
    <2>4. lrem(s, n, e).left = t /\ lrem(s, n, e).count = r.count
        <3>1. lrem(s, n, e) = [r EXCEPT !.left = Reverse(@)]
            BY <2>1 DEF lrem
        <3> HIDE DEF r
        <3>2. QED BY <2>3, <3>1
    <2> HIDE DEF m, u, r, L
    <2>5. t \in Seq(Elem) /\ Len(t) = Len(r.left)
          /\ \A i \in 1..Len(r.left) : t[i] = r.left[Len(r.left) + 1 - i]
        BY <2>3, ReverseIs
    <2> HIDE DEF t
    <2>6. K \subseteq 1..L /\ M \subseteq 1..L
        BY <1>1, <2>2 DEF Kept, KeptBy
    <2>7. \A p \in 1..L : L + 1 - p \in 1..L /\ L + 1 - (L + 1 - p) = p
        BY <1>1
    <2>8. ASSUME NEW p \in 1..L PROVE p \in K <=> L + 1 - p \in M
        <3> DEFINE A == Hits(s, e)
                   B == Hits(u, e)
        <3>1. A \subseteq 1..L /\ B \subseteq 1..L
            BY <1>1, <2>2 DEF Hits
        <3>2. \A q \in 1..L : q \in A <=> L + 1 - q \in B
            BY <1>1, <2>2, <2>7 DEF Hits
        <3>3. {q \in DOMAIN s : s[q] = e /\ q >= p} = {q \in A : q >= p}
            BY DEF Hits
        <3> HIDE DEF A, B
        <3>4. RankIn(B, L + 1 - p) = Cardinality({q \in A : q >= p})
            <4>1. Mirror(L, A, B)
                BY <3>1, <3>2 DEF Mirror
            <4>2. RanksMirror(L, A, B, p)
                BY <1>1, <4>1, MirrorRank
            <4>3. QED BY <4>2 DEF RanksMirror
        <3>5. p \in K <=> ~(s[p] = e /\ Cardinality({q \in A : q >= p}) <= m)
            BY <1>1, <2>1, <3>3 DEF Kept, m
        <3>6. L + 1 - p \in M <=> ~(s[p] = e /\ RankIn(B, L + 1 - p) <= m)
            <4>1. u[L + 1 - p] = s[p] /\ L + 1 - p \in DOMAIN u
                BY <2>2, <2>7
            <4>2. QED BY <4>1 DEF KeptBy, B
        <3>7. QED BY <3>4, <3>5, <3>6
    <2> HIDE DEF K, M
    <2>9. /\ r.count + Len(r.left) = L
          /\ Len(r.left) = RankIn(M, L)
          /\ \A p \in M : p <= L => r.left[RankIn(M, p)] = u[p]
        BY <2>3 DEF PassedTo, M
    <2>10. RankIn(M, L) = Cardinality(M) /\ Cardinality(K) = Cardinality(M)
        <3>1. RankIn(M, L) = Cardinality(M)
            BY <1>1, <2>6, RankSteps
        <3>2. Cardinality(K) = Cardinality(M)
            BY <1>1, <2>6, <2>8, MirrorSize DEF Mirror
        <3>3. QED BY <3>1, <3>2
    <2>11. ASSUME NEW p \in K PROVE t[RankIn(K, p)] = s[p]
        <3>1. p \in 1..L /\ L + 1 - p \in M /\ L + 1 - p <= L
            BY <1>1, <2>6, <2>7, <2>8
        <3> DEFINE a == RankIn(K, p)
                   b == RankIn(M, L + 1 - p)
                   l == Len(r.left)
        <3>2. a \in Nat /\ b \in Nat /\ l \in Nat /\ a + b = l + 1
            <4>1. Cardinality(K) = l
                BY <2>9, <2>10
            <4>2. /\ RankIn(K, p) + RankIn(M, L + 1 - p) = Cardinality(K) + 1
                  /\ RankIn(K, p) \in Nat /\ RankIn(M, L + 1 - p) \in Nat /\ Cardinality(K) \in Nat
                <5>1. Mirror(L, K, M)
                    BY <2>6, <2>8 DEF Mirror
                <5>2. RanksMirror(L, K, M, p)
                    BY <1>1, <3>1, <5>1, MirrorRank
                <5>3. QED BY <5>2 DEF RanksMirror
            <4>3. QED BY <4>1, <4>2
        <3>3. b \in 1..l
            <4> DEFINE v == L + 1 - p
            <4>1. v \in 1..L /\ v \in M
                BY <2>7, <3>1
            <4> HIDE DEF v
            <4>2. /\ \A q \in 0..L : RankIn(M, q) \in Nat
                  /\ \A q \in 1..L : RankIn(M, q) = RankIn(M, q - 1) + (IF q \in M THEN 1 ELSE 0)
                BY <1>1, <2>6, RankSteps
            <4>3. v - 1 \in 0..L
                BY <1>1, <4>1
            <4>4. RankIn(M, v) >= 1
                BY <4>1, <4>2, <4>3
            <4>5. a >= 1
                <5>1. /\ \A q \in 0..L : RankIn(K, q) \in Nat
                      /\ \A q \in 1..L : RankIn(K, q) = RankIn(K, q - 1) + (IF q \in K THEN 1 ELSE 0)
                    BY <1>1, <2>6, RankSteps
                <5>2. p - 1 \in 0..L
                    BY <1>1, <3>1
                <5>3. QED BY <3>1, <5>1, <5>2
            <4>6. b >= 1
                BY <4>4 DEF v
            <4> HIDE DEF a, b, l
            <4>7. QED BY <3>2, <4>5, <4>6
        <3>4. r.left[b] = s[p]
            <4>1. r.left[RankIn(M, L + 1 - p)] = u[L + 1 - p]
                BY <2>9, <3>1
            <4>2. u[L + 1 - p] = s[p]
                BY <2>2, <2>7, <3>1
            <4>3. QED BY <4>1, <4>2
        <3> HIDE DEF b
        <3>5. a \in 1..l /\ l + 1 - a = b
            <4> HIDE DEF a, l
            <4>1. QED BY <3>2, <3>3
        <3>6. t[a] = r.left[b]
            BY <2>5, <3>5
        <3>7. QED BY <3>4, <3>6
    <2>12. t = At(s, K)
        <3>1. K \subseteq DOMAIN s /\ Len(t) = Cardinality(K)
            BY <1>1, <2>5, <2>6, <2>9, <2>10
        <3>2. QED BY <2>5, <2>11, <3>1, AtIs
    <2>13. r.count \in Nat /\ r.count + Len(t) = L
        BY <2>3, <2>5, <2>9
    <2>14. QED BY <2>4, <2>5, <2>12, <2>13 DEF K, L
<1>5. QED BY <1>2, <1>3, <1>4

\* lrem takes as many elements as it answers.
LEMMA LremOK ==
    ASSUME NEW d, KeyspaceOK(d), NEW k \in Key, NEW n \in Int, NEW e
    PROVE  LET res == lrem_command(d, k, n, e)
           IN  /\ Fine(d, res)
               /\ Grows(d, res.db, IF res.ret = "int" THEN 0 - res.val ELSE 0)
<1> DEFINE s == d[k].items
           r == lrem(s, n, e)
           left == r.left
           d2 == EndIfEmpty(d, k, left, k)
           res == lrem_command(d, k, n, e)
<1>1. s \in Seq(Elem) /\ Len(s) \in Nat
    BY ItemsAreElements
<1>2. left \in Seq(Elem) /\ r.count \in Nat /\ r.count + Len(left) = Len(s)
    BY <1>1, LremIs
<1> HIDE DEF left
<1>3. KeyspaceOK(d2) /\ Grown(d, d2, k, Len(left) - Len(s)) /\ (Proper(d) => Proper(d2))
    BY <1>2, EndIfEmptyIs
<1> DEFINE c == r.count
<1>4. \/ res = Result("fail", d, <<>>)
      \/ res = Result("int", d, 0)
      \/ res = Result("int", d2, c)
    BY DEF lrem_command, left
<1> HIDE DEF s, r, c
<1>5. Len(left) - Len(s) = 0 - c /\ c \in Int
    <2>1. Len(left) \in Nat /\ c \in Nat /\ c + Len(left) = Len(s)
        BY <1>2 DEF c
    <2>2. QED BY <1>1, <2>1
<1>6. Grows(d, d2, 0 - c)
    BY <1>3, <1>5, GrownGrows
<1>7. CASE res = Result("int", d2, c)
    <2>1. res.db = d2 /\ res.ret = "int" /\ res.val = c
        BY <1>7 DEF Result
    <2> HIDE DEF res, d2
    <2>2. Fine(d, res) /\ Grows(d, res.db, 0 - res.val) /\ res.ret = "int"
        BY <1>3, <1>5, <1>6, <2>1 DEF Fine, Typed, Rets
    <2>3. QED BY <2>2 DEF res
<1>8. CASE res \in {Result("fail", d, <<>>), Result("int", d, 0)}
    <2>1. /\ res.db = d
          /\ \/ res.ret = "fail" /\ res.val = <<>>
             \/ res.ret = "int" /\ res.val = 0
        BY <1>8 DEF Result
    <2> HIDE DEF res
    <2>2. Fine(d, res) /\ Grows(d, res.db, 0) /\ (res.ret = "int" => 0 - res.val = 0)
        <3>1. 0 - 0 = 0 /\ 0 \in Int
            OBVIOUS
        <3>2. QED BY <2>1, <3>1, SameGrows, EmptySeq DEF Fine, Typed, Rets
    <2>3. QED BY <2>2 DEF res
<1>9. QED BY <1>4, <1>7, <1>8

-----------------------------------------------------------------------------
(* Type correctness, and no empty list *)

\* By how much the lists should grow, by the latest command and its reply.
Change(op, given, ret, num) ==
    LET did == ret \in {"int", "str", "arr"}
    IN  CASE op \in {"pop", "blockpop"} /\ did -> -1
          [] op = "rem" /\ did -> 0 - num
          [] op \in {"push", "pushx"} /\ did -> given
          [] op = "insert" /\ did /\ num > 0 -> 1
          [] OTHER -> 0

\* The number that a reply shows: an integer, or how many elements it has.
Shown(res) == IF res.ret = "int" THEN res.val ELSE Len(res.val)

\* The result of a command is as it should be.
Done(d, op, given, res) ==
    /\ Typed(res)
    /\ MaxBlockKeys <= 1 /\ Proper(d) => Proper(res.db)
    /\ op \notin {"trim", "set", "del"} /\ res.ret # "doublefree" =>
           Grows(d, res.db, Change(op, given, res.ret, Shown(res)))

\* Every step does a command, whose result is as it should be.
LEMMA StepDone ==
    ASSUME TypeOK, Next
    PROVE  \E op, k, given, res :
              k \in Key /\ Do(op, k, given, res) /\ Done(db, op, given, res)
<1>1. KeyspaceOK(db) /\ Offset \subseteq Int /\ MaxBlockKeys \in Nat
    BY BoundsAssumption DEF TypeOK
<1>2. ASSUME NEW k \in Key, push(k)
      PROVE  \E given, res : Do("push", k, given, res) /\ Done(db, "push", given, res)
    <2>1. PICK side \in Side, vals \in Values :
              Do("push", k, Len(vals), lpushrpush_command(db, side, k, vals))
        BY <1>2 DEF push
    <2>2. vals \in Seq(Elem) /\ vals # <<>>
        <3>1. PICK n \in 1..2 : vals \in [1..n -> Elem]
            BY DEF Values
        <3>2. vals \in Seq(Elem) /\ Len(vals) = n
            BY <3>1
        <3>3. QED BY <3>2
    <2> DEFINE res == lpushrpush_command(db, side, k, vals)
    <2>3. Fine(db, res) /\ Grows(db, res.db, IF res.ret = "int" THEN Len(vals) ELSE 0)
        BY <1>1, <2>2, PushOK
    <2>4. res.ret \in {"fail", "int"}
        BY DEF lpushrpush_command, Result
    <2> HIDE DEF res
    <2>5. Change("push", Len(vals), res.ret, Shown(res)) = IF res.ret = "int" THEN Len(vals) ELSE 0
        BY <2>4 DEF Change
    <2>6. Done(db, "push", Len(vals), res)
        BY <2>3, <2>5 DEF Done, Fine
    <2>7. QED BY <2>1, <2>6 DEF res
<1>3. ASSUME NEW k \in Key, pushx(k)
      PROVE  \E given, res : Do("pushx", k, given, res) /\ Done(db, "pushx", given, res)
    <2>1. PICK side \in Side, e \in Elem :
              Do("pushx", k, 1, lpushxrpushx_command(db, side, k, e))
        BY <1>3 DEF pushx
    <2>2. <<e>> \in Seq(Elem) /\ <<e>> # <<>> /\ Len(<<e>>) = 1
        OBVIOUS
    <2> DEFINE res == lpushrpush_command(db, side, k, <<e>>)
    <2>3. Fine(db, res) /\ Grows(db, res.db, IF res.ret = "int" THEN 1 ELSE 0)
        <3>1. LET r == lpushrpush_command(db, side, k, <<e>>)
              IN  Fine(db, r) /\ Grows(db, r.db, IF r.ret = "int" THEN Len(<<e>>) ELSE 0)
            BY <1>1, <2>2, PushOK
        <3>2. QED BY <2>2, <3>1
    <2>4. res.ret \in {"fail", "int"}
        BY DEF lpushrpush_command, Result
    <2>5. Do("pushx", k, 1, res)
        BY <2>1 DEF lpushxrpushx_command
    <2> HIDE DEF res
    <2>6. Change("pushx", 1, res.ret, Shown(res)) = IF res.ret = "int" THEN 1 ELSE 0
        BY <2>4 DEF Change
    <2>7. Done(db, "pushx", 1, res)
        BY <2>3, <2>6 DEF Done, Fine
    <2>8. QED BY <2>5, <2>7
<1>4. ASSUME NEW k \in Key, pop(k)
      PROVE  \E given, res : Do("pop", k, given, res) /\ Done(db, "pop", given, res)
    <2>1. PICK side \in Side : Do("pop", k, 0, lpoprpop_command(db, side, k))
        BY <1>4 DEF pop
    <2> DEFINE res == lpoprpop_command(db, side, k)
    <2>2. Fine(db, res) /\ Grows(db, res.db, IF res.ret = "str" THEN -1 ELSE 0)
        BY <1>1, PopOK
    <2>3. res.ret \in {"nil", "fail", "crash", "str"}
        BY DEF lpoprpop_command, Result
    <2> HIDE DEF res
    <2>4. Change("pop", 0, res.ret, Shown(res)) = IF res.ret = "str" THEN -1 ELSE 0
        BY <2>3 DEF Change
    <2>5. Done(db, "pop", 0, res)
        BY <2>2, <2>4 DEF Done, Fine
    <2>6. QED BY <2>1, <2>5 DEF res
<1>5. ASSUME blockpop
      PROVE  \E k \in Key : \E given, res :
                Do("blockpop", k, given, res) /\ Done(db, "blockpop", given, res)
    <2>1. PICK side \in Side, n \in 1..MaxBlockKeys :
              \E keys \in [1..n -> Key] :
                 Do("blockpop", keys[1], 0, blpopbrpop_command(db, side, keys))
        BY <1>5 DEF blockpop
    <2>2. PICK keys \in [1..n -> Key] :
              Do("blockpop", keys[1], 0, blpopbrpop_command(db, side, keys))
        BY <2>1
    <2>3. keys \in Seq(Key) /\ Len(keys) = n /\ n >= 1 /\ keys[1] \in Key
        BY <1>1
    <2> DEFINE res == blpopbrpop_command(db, side, keys)
    <2>4. /\ Typed(res)
          /\ Len(keys) = 1 => Fine(db, res)
          /\ Grows(db, res.db, IF res.ret = "arr" THEN -1 ELSE 0)
        BY <1>1, <2>3, BlpopOK
    <2>5. res.ret \in {"blocked", "fail", "crash", "arr"}
        BY DEF blpopbrpop_command, Result
    <2> HIDE DEF res
    <2>6. Change("blockpop", 0, res.ret, Shown(res)) = IF res.ret = "arr" THEN -1 ELSE 0
        BY <2>5 DEF Change
    <2>7. MaxBlockKeys <= 1 => Len(keys) = 1
        BY <1>1, <2>3
    <2>8. Done(db, "blockpop", 0, res)
        BY <2>4, <2>6, <2>7 DEF Done, Fine
    <2>9. QED BY <2>2, <2>3, <2>8 DEF res
<1>6. ASSUME NEW k \in Key, poppush(k)
      PROVE  \E given, res : Do("poppush", k, given, res) /\ Done(db, "poppush", given, res)
    <2>1. PICK dst \in Key :
              \/ Do("poppush", k, 0, rpoplpush_command(db, k, dst))
              \/ Do("poppush", k, 0, brpoplpush_command(db, k, dst))
        BY <1>6 DEF poppush
    <2>2. PICK res \in {rpoplpush_command(db, k, dst), brpoplpush_command(db, k, dst)} :
              Do("poppush", k, 0, res)
        BY <2>1
    <2>3. Fine(db, res) /\ (res.ret # "doublefree" => Grows(db, res.db, 0))
        BY <1>1, MovesOK
    <2>4. Change("poppush", 0, res.ret, Shown(res)) = 0
        BY DEF Change
    <2>5. Done(db, "poppush", 0, res)
        BY <2>3, <2>4 DEF Done, Fine
    <2>6. QED BY <2>2, <2>5
<1>7. ASSUME NEW k \in Key, look(k)
      PROVE  \E given, res : Do("look", k, given, res) /\ Done(db, "look", given, res)
    <2>1. PICK i \in Int, j \in Int :
              \E res \in {llen_command(db, k), lrange_command(db, k, i, j), lindex_command(db, k, i)} :
                 Do("look", k, 0, res)
        <3>1. CASE Do("look", k, 0, llen_command(db, k))
            BY <3>1
        <3>2. CASE \E i, j \in Offset : Do("look", k, 0, lrange_command(db, k, i, j))
            BY <1>1, <3>2
        <3>3. CASE \E i \in Offset : Do("look", k, 0, lindex_command(db, k, i))
            BY <1>1, <3>3
        <3>4. QED BY <1>7, <3>1, <3>2, <3>3 DEF look
    <2>2. PICK res \in {llen_command(db, k), lrange_command(db, k, i, j), lindex_command(db, k, i)} :
              Do("look", k, 0, res)
        BY <2>1
    <2>3. Fine(db, res) /\ Grows(db, res.db, 0)
        BY <1>1, LookOK
    <2>4. Change("look", 0, res.ret, Shown(res)) = 0
        BY DEF Change
    <2>5. Done(db, "look", 0, res)
        BY <2>3, <2>4 DEF Done, Fine
    <2>6. QED BY <2>2, <2>5
<1>8. ASSUME NEW k \in Key, trim(k)
      PROVE  \E given, res : Do("trim", k, given, res) /\ Done(db, "trim", given, res)
    <2>1. PICK i \in Offset, j \in Offset : Do("trim", k, 0, ltrim_command(db, k, i, j))
        BY <1>8 DEF trim
    <2>2. Fine(db, ltrim_command(db, k, i, j))
        BY <1>1, TrimOK
    <2>3. Done(db, "trim", 0, ltrim_command(db, k, i, j))
        BY <2>2 DEF Done, Fine
    <2>4. QED BY <2>1, <2>3
<1>9. ASSUME NEW k \in Key, lset(k)
      PROVE  \E given, res : Do("lset", k, given, res) /\ Done(db, "lset", given, res)
    <2>1. PICK i \in Offset, e \in Elem : Do("lset", k, 1, lset_command(db, k, i, e))
        BY <1>9 DEF lset
    <2> DEFINE res == lset_command(db, k, i, e)
    <2>2. Fine(db, res) /\ Grows(db, res.db, 0)
        BY <1>1, LsetOK
    <2> HIDE DEF res
    <2>3. Change("lset", 1, res.ret, Shown(res)) = 0
        BY DEF Change
    <2>4. Done(db, "lset", 1, res)
        BY <2>2, <2>3 DEF Done, Fine
    <2>5. QED BY <2>1, <2>4 DEF res
<1>10. ASSUME NEW k \in Key, rem(k)
       PROVE  \E given, res : Do("rem", k, given, res) /\ Done(db, "rem", given, res)
    <2>1. PICK n \in Offset, e \in Elem : Do("rem", k, 0, lrem_command(db, k, n, e))
        BY <1>10 DEF rem
    <2> DEFINE res == lrem_command(db, k, n, e)
    <2>2. Fine(db, res) /\ Grows(db, res.db, IF res.ret = "int" THEN 0 - res.val ELSE 0)
        BY <1>1, LremOK
    <2>3. res.ret \in {"fail", "int"}
        BY DEF lrem_command, Result
    <2> HIDE DEF res
    <2>4. Change("rem", 0, res.ret, Shown(res)) = IF res.ret = "int" THEN 0 - res.val ELSE 0
        BY <2>3 DEF Change, Shown
    <2>5. Done(db, "rem", 0, res)
        BY <2>2, <2>4 DEF Done, Fine
    <2>6. QED BY <2>1, <2>5 DEF res
<1>11. ASSUME NEW k \in Key, insert(k)
       PROVE  \E given, res : Do("insert", k, given, res) /\ Done(db, "insert", given, res)
    <2>1. PICK where \in {"before", "after", "beside"}, pivot \in Elem, e \in Elem :
              Do("insert", k, 1, linsert_command(db, k, where, pivot, e))
        BY <1>11 DEF insert
    <2> DEFINE res == linsert_command(db, k, where, pivot, e)
    <2>2. Fine(db, res) /\ Grows(db, res.db, IF res.ret = "int" /\ res.val > 0 THEN 1 ELSE 0)
        BY <1>1, LinsertOK
    <2>3. res.ret \in {"fail", "int"}
        BY DEF linsert_command, Result
    <2> HIDE DEF res
    <2>4. Change("insert", 1, res.ret, Shown(res)) = IF res.ret = "int" /\ res.val > 0 THEN 1 ELSE 0
        BY <2>3 DEF Change, Shown
    <2>5. Done(db, "insert", 1, res)
        BY <2>2, <2>4 DEF Done, Fine
    <2>6. QED BY <2>1, <2>5 DEF res
<1>12. ASSUME NEW k \in Key, set(k)
       PROVE  \E given, res : Do("set", k, given, res) /\ Done(db, "set", given, res)
    <2>1. Fine(db, set_command(db, k))
        BY <1>1, SetDelOK
    <2>2. Done(db, "set", 0, set_command(db, k))
        BY <2>1 DEF Done, Fine
    <2>3. QED BY <1>12, <2>2 DEF set
<1>13. ASSUME NEW k \in Key, del(k)
       PROVE  \E given, res : Do("del", k, given, res) /\ Done(db, "del", given, res)
    <2>1. PICK other \in Key : Do("del", k, 0, del_command(db, <<k, other>>))
        BY <1>13 DEF del
    <2>2. Fine(db, del_command(db, <<k, other>>))
        BY <1>1, SetDelOK
    <2>3. Done(db, "del", 0, del_command(db, <<k, other>>))
        BY <2>2 DEF Done, Fine
    <2>4. QED BY <2>1, <2>3
<1>14. QED
    BY <1>2, <1>3, <1>4, <1>5, <1>6, <1>7, <1>8, <1>9, <1>10, <1>11, <1>12, <1>13 DEF Next

-----------------------------------------------------------------------------
(* Type correctness, and no empty list *)

\* A command whose result is as it should be keeps the types.
LEMMA DoKeeps ==
    ASSUME NEW op, NEW k \in Key, NEW given, NEW res, Do(op, k, given, res), Typed(res)
    PROVE  TypeOK' /\ reply'.num = Shown(res)
<1>1. db' = res.db /\ reply'.key = k /\ reply'.ret = res.ret /\ reply'.num = Shown(res)
    BY DEF Do, Shown
<1>2. Shown(res) \in Int
    <2>1. CASE res.ret = "int"
        BY <2>1 DEF Typed, Shown
    <2>2. CASE res.ret # "int"
        <3>1. res.val \in Seq(Elem)
            BY <2>2 DEF Typed
        <3>2. Len(res.val) \in Int
            BY <3>1
        <3>3. QED BY <2>2, <3>2 DEF Shown
    <2>3. QED BY <2>1, <2>2
<1>3. QED BY <1>1, <1>2 DEF TypeOK, Typed, Rets

\* At first there is nothing.
LEMMA FirstOK ==
    ASSUME Init
    PROVE  TypeOK /\ NoEmptyList
<1>1. KeyspaceOK(db) /\ Proper(db)
    BY EmptySeq DEF Init, KeyspaceOK, Obj, NoObj, Proper
<1>2. PICK k \in Key : reply = [op |-> "none", key |-> k, given |-> 0, ret |-> "ok", num |-> 0]
    BY DEF Init
<1>3. QED BY <1>1, <1>2 DEF TypeOK, NoEmptyList, Proper

\* The keyspace and the replies always have their types: whatever list commands are
\* given, in any order, they leave objects of the types of obj.h behind, of which only
\* lists have elements.
THEOREM TypeCorrect == Spec => []TypeOK
<1>1. Init => TypeOK
    BY FirstOK
<1>2. TypeOK /\ [Next]_vars => TypeOK'
    <2>1. ASSUME TypeOK, Next PROVE TypeOK'
        BY <2>1, StepDone, DoKeeps DEF Done
    <2>2. ASSUME TypeOK, UNCHANGED vars PROVE TypeOK'
        BY <2>2 DEF vars, TypeOK
    <2>3. QED BY <2>1, <2>2
<1>3. QED BY <1>1, <1>2, PTL DEF Spec

\* If a blocking pop names one key, no key ever holds an empty list, so that no pop of
\* an existing list dereferences a missing entry.  The run many_keys shows that with
\* two keys one does: the list that has become empty is not the one that is removed.
THEOREM NoneEmpty ==
    ASSUME MaxBlockKeys <= 1
    PROVE  Spec => []NoEmptyList
<1>1. Init => TypeOK /\ NoEmptyList
    BY FirstOK
<1>2. TypeOK /\ NoEmptyList /\ [Next]_vars => TypeOK' /\ NoEmptyList'
    <2>1. ASSUME TypeOK, NoEmptyList, Next PROVE TypeOK' /\ NoEmptyList'
        <3>1. PICK op, k, given, res :
                  k \in Key /\ Do(op, k, given, res) /\ Done(db, op, given, res)
            BY <2>1, StepDone
        <3>2. TypeOK'
            BY <3>1, DoKeeps DEF Done
        <3>3. Proper(db) /\ db' = res.db
            BY <2>1, <3>1 DEF NoEmptyList, Proper, Do
        <3>4. Proper(db')
            BY <3>1, <3>3 DEF Done
        <3>5. QED BY <3>2, <3>4 DEF NoEmptyList, Proper
    <2>2. ASSUME TypeOK, NoEmptyList, UNCHANGED vars PROVE TypeOK' /\ NoEmptyList'
        BY <2>2 DEF vars, TypeOK, NoEmptyList
    <2>3. QED BY <2>1, <2>2
<1>3. QED BY <1>1, <1>2, PTL DEF Spec

-----------------------------------------------------------------------------
(* The algorithms against their reference definitions *)

\* lrem keeps the elements that its reference definition keeps, and counts the others,
\* for any list and any count.
THEOREM RemAlwaysAgrees == Spec => []RemAgrees
<1>1. TypeOK => RemAgrees
    <2>1. SUFFICES ASSUME TypeOK, NEW k \in Key, NEW n \in Offset, NEW e \in Elem
                   PROVE  /\ lrem(db[k].items, n, e).left = At(db[k].items, Kept(db[k].items, n, e))
                          /\ lrem(db[k].items, n, e).count
                                 = Len(db[k].items) - Len(At(db[k].items, Kept(db[k].items, n, e)))
        BY DEF RemAgrees, Kept
    <2> DEFINE s == db[k].items
               r == lrem(s, n, e)
    <2>2. s \in Seq(Elem) /\ n \in Int
        BY <2>1, ItemsAreElements, BoundsAssumption DEF TypeOK
    <2>3. /\ r.left \in Seq(Elem) /\ r.count \in Nat
          /\ r.count + Len(r.left) = Len(s)
          /\ r.left = At(s, Kept(s, n, e))
        BY <2>2, LremIs
    <2> HIDE DEF r, s
    <2>4. r.count = Len(s) - Len(r.left)
        <3>1. Len(r.left) \in Nat /\ Len(s) \in Nat
            BY <2>2, <2>3
        <3>2. QED BY <2>3, <3>1
    <2>5. QED BY <2>3, <2>4 DEF r, s
<1>2. QED BY <1>1, TypeCorrect, PTL

\* linsert puts its element directly before or after the first occurrence of the pivot,
\* and moves nothing else, in any list.
THEOREM InsertAlwaysAgrees == Spec => []InsertAgrees
<1>1. TypeOK => InsertAgrees
    <2>1. SUFFICES ASSUME TypeOK, NEW k \in Key, NEW where \in {"before", "after"},
                          NEW pivot \in Elem, NEW e \in Elem, pivot \in ToSet(db[k].items)
                   PROVE  LET s == db[k].items
                              t == linsert_command(db, k, where, pivot, e).db[k].items
                          IN  \E p \in DOMAIN s :
                                 /\ s[p] = pivot
                                 /\ pivot \notin ToSet(SubSeq(s, 1, p - 1))
                                 /\ t = IF where = "before"
                                        THEN SubSeq(s, 1, p - 1) \o <<e, pivot>> \o SubSeq(s, p + 1, Len(s))
                                        ELSE SubSeq(s, 1, p) \o <<e>> \o SubSeq(s, p + 1, Len(s))
        BY DEF InsertAgrees
    <2> DEFINE s == db[k].items
               n == Len(s)
               i == PivotAt(s, pivot)
               t == InsertAt(s, InsertPos(where, i), e)
    <2>2. KeyspaceOK(db) /\ s \in Seq(Elem) /\ n \in Nat /\ DOMAIN s = 1..n
        BY <2>1, ItemsAreElements DEF TypeOK
    <2>3. \E j \in 1..n : s[j] = pivot
        BY <2>1, <2>2 DEF ToSet
    <2>4. i \in 1..n /\ s[i] = pivot /\ \A j \in 1..(i - 1) : s[j] # pivot
        BY <2>2, <2>3, PivotIs
    <2>5. linsert_command(db, k, where, pivot, e).db[k].items = t
        <3>1. db[k].type = "list"
            <4>1. s # <<>>
                BY <2>3, EmptySeq
            <4>2. QED BY <2>2, <4>1, ItemsAreElements
        <3>2. linsert_command(db, k, where, pivot, e)
                  = Result("int", dict_add(db, k, ListObj(t)), Len(t))
            BY <2>4, <3>1 DEF linsert_command, PivotAt, Missing, WrongType
        <3>3. InsertPos(where, i) \in 1..(n + 1)
            BY <2>2, <2>4 DEF InsertPos
        <3>4. t \in Seq(Elem)
            BY <2>2, <3>3, InsertAtIs
        <3> HIDE DEF t
        <3>5. dict_add(db, k, ListObj(t))[k] = ListObj(t)
            BY <2>2, <3>4, StoreIs
        <3>6. QED BY <3>2, <3>5 DEF Result, ListObj
    <2>6. pivot \notin ToSet(SubSeq(s, 1, i - 1))
        <3> DEFINE u == SubSeq(s, 1, i - 1)
        <3>1. u \in Seq(Elem) /\ Len(u) = i - 1 /\ \A r \in 1..(i - 1) : u[r] = s[r]
            <4>1. PICK b \in Int : b = i - 1
                BY <2>4
            <4>2. \A r \in 1..b : s[r] \in Elem
                BY <2>2, <2>4, <4>1
            <4>3. /\ SubSeq(s, 1, b) \in Seq(Elem)
                  /\ Len(SubSeq(s, 1, b)) = IF 1 <= b THEN b - 1 + 1 ELSE 0
                  /\ \A r \in 1..(b - 1 + 1) : SubSeq(s, 1, b)[r] = s[1 + r - 1]
                BY <4>2, SubSeqProperties
            <4>4. b - 1 + 1 = b /\ (~(1 <= b) => b = 0) /\ \A r \in 1..b : 1 + r - 1 = r
                BY <2>4, <4>1
            <4>5. QED BY <4>1, <4>3, <4>4
        <3> HIDE DEF u
        <3>2. DOMAIN u = 1..(i - 1)
            BY <3>1
        <3>3. QED BY <2>4, <3>1, <3>2 DEF ToSet
    <2>7. t = IF where = "before"
              THEN SubSeq(s, 1, i - 1) \o <<e, pivot>> \o SubSeq(s, i + 1, n)
              ELSE SubSeq(s, 1, i) \o <<e>> \o SubSeq(s, i + 1, n)
        <3> HIDE DEF s, i
        <3>1. CASE where = "after"
            <4>1. InsertPos(where, i) = i + 1 /\ (i + 1) - 1 = i
                BY <2>4, <3>1 DEF InsertPos
            <4>2. t = SubSeq(s, 1, (i + 1) - 1) \o <<e>> \o SubSeq(s, i + 1, n)
                BY <4>1 DEF InsertAt
            <4>3. QED BY <3>1, <4>1, <4>2
        <3>2. CASE where = "before"
            <4>1. InsertPos(where, i) = i
                BY <3>2 DEF InsertPos
            <4>2. t = SubSeq(s, 1, i - 1) \o <<e>> \o SubSeq(s, i, n)
                BY <4>1 DEF InsertAt
            <4> DEFINE u == SubSeq(s, 1, i - 1) \o <<e, pivot>> \o SubSeq(s, i + 1, n)
            <4>3. /\ t \in Seq(Elem) /\ Len(t) = n + 1
                  /\ \A r \in 1..(n + 1) :
                        t[r] = IF r < i THEN s[r] ELSE IF r = i THEN e ELSE s[r - 1]
                <5>1. i \in 1..(n + 1)
                    BY <2>2, <2>4
                <5>2. QED BY <2>2, <4>1, <5>1, InsertAtIs
            <4>4. /\ u \in Seq(Elem) /\ Len(u) = n + 1
                  /\ \A r \in 1..(n + 1) :
                        u[r] = IF r < i THEN s[r] ELSE IF r = i THEN e ELSE s[r - 1]
                <5>1. PICK p \in 0..n, q \in 1..(n + 1), m \in Seq(Elem) :
                          p = i - 1 /\ q = i + 1 /\ m = <<e, pivot>>
                    <6>1. i - 1 \in 0..n /\ i + 1 \in 1..(n + 1) /\ <<e, pivot>> \in Seq(Elem)
                        BY <2>2, <2>4
                    <6>2. QED BY <6>1
                <5>2. u = SubSeq(s, 1, p) \o m \o SubSeq(s, q, n)
                    BY <5>1
                <5> HIDE DEF u
                <5>3. Len(m) = 2 /\ m[1] = e /\ m[2] = pivot
                    BY <5>1
                <5>4. /\ u \in Seq(Elem)
                      /\ Len(u) = p + Len(m) + (Len(s) - q + 1)
                      /\ \A r \in 1..(p + Len(m) + (Len(s) - q + 1)) :
                            u[r] = IF r <= p THEN s[r]
                                   ELSE IF r <= p + Len(m) THEN m[r - p]
                                   ELSE s[q + (r - p - Len(m)) - 1]
                    <6> HIDE DEF n
                    <6>1. p \in 0..Len(s) /\ q \in 1..(Len(s) + 1) /\ n = Len(s)
                        BY DEF n
                    <6>2. u = SubSeq(s, 1, p) \o m \o SubSeq(s, q, Len(s))
                        BY <5>2, <6>1
                    <6>3. u \in Seq(Elem) /\ IsSplice(u, s, p, q, m)
                        BY <2>2, <6>1, <6>2, SpliceIs
                    <6>4. QED BY <6>3 DEF IsSplice
                <5>5. p + 2 + (n - q + 1) = n + 1
                    BY <2>2, <2>4, <5>1
                <5>6. ASSUME NEW r \in 1..(n + 1)
                      PROVE  u[r] = IF r < i THEN s[r] ELSE IF r = i THEN e ELSE s[r - 1]
                    <6>1. u[r] = IF r <= p THEN s[r]
                                 ELSE IF r <= p + 2 THEN m[r - p] ELSE s[q + (r - p - 2) - 1]
                        BY <5>3, <5>4, <5>5
                    <6>2. CASE r < i
                        <7>1. r <= p
                            BY <2>4, <5>1, <6>2
                        <7>2. QED BY <6>1, <6>2, <7>1
                    <6>3. CASE r = i
                        <7>1. ~(r <= p) /\ r <= p + 2 /\ r - p = 1 /\ ~(r < i)
                            BY <2>4, <5>1, <6>3
                        <7>2. QED BY <5>3, <6>1, <6>3, <7>1
                    <6>4. CASE r = i + 1
                        <7>1. ~(r <= p) /\ r <= p + 2 /\ r - p = 2 /\ ~(r < i) /\ r # i /\ r - 1 = i
                            BY <2>4, <5>1, <6>4
                        <7>2. QED BY <2>4, <5>3, <6>1, <7>1
                    <6>5. CASE r > i + 1
                        <7>1. ~(r <= p) /\ ~(r <= p + 2) /\ q + (r - p - 2) - 1 = r - 1
                              /\ ~(r < i) /\ r # i
                            BY <2>2, <2>4, <5>1, <6>5
                        <7>2. QED BY <6>1, <7>1
                    <6>6. QED BY <2>2, <2>4, <6>2, <6>3, <6>4, <6>5
                <5>7. QED BY <5>3, <5>4, <5>5, <5>6
            <4> HIDE DEF t, u
            <4>5. \A r \in 1..(n + 1) : t[r] = u[r]
                BY <4>3, <4>4
            <4>6. t = [r \in 1..(n + 1) |-> t[r]] /\ u = [r \in 1..(n + 1) |-> u[r]]
                BY <4>3, <4>4
            <4>7. t = u
                BY <4>5, <4>6
            <4>8. QED BY <3>2, <4>7 DEF u
        <3>3. QED BY <3>1, <3>2
    <2>8. i \in DOMAIN s
        BY <2>2, <2>4
    <2> HIDE DEF i
    <2>9. QED BY <2>4, <2>5, <2>6, <2>7, <2>8
<1>2. QED BY <1>1, TypeCorrect, PTL

\* The positions from offset i to offset j: RangesAgree speaks of the elements there.
Within(s, i, j) == {p \in DOMAIN s : NotBefore(s, i, p - 1) /\ NotAfter(s, j, p - 1)}

\* If the loops of lrange walk, then over these positions.
LEMMA WalkIs ==
    ASSUME NEW s \in Seq(Elem), NEW i \in Int, NEW j \in Int
    PROVE  IF OutOfRange(s, i, j) THEN Within(s, i, j) = {}
           ELSE Within(s, i, j) = (FirstOffset(s, i) + 1)..(LastOffset(s, j) + 1)
<1> DEFINE n == Len(s)
           a == FirstOffset(s, i)
           v == FromTail(s, j)
<1>1. n \in Nat /\ DOMAIN s = 1..n
    OBVIOUS
<1>2. /\ a = IF (IF i < 0 THEN i + n ELSE i) < 0 THEN 0 ELSE IF i < 0 THEN i + n ELSE i
      /\ v = IF j < 0 THEN j + n ELSE j
    BY DEF FirstOffset, FromTail
<1>3. OutOfRange(s, i, j) <=> v < a \/ a >= n
    BY DEF OutOfRange
<1>4. LastOffset(s, j) = IF v < n THEN v ELSE n - 1
    BY DEF LastOffset
<1>5. ASSUME NEW p \in 1..n
      PROVE  /\ NotBefore(s, i, p - 1) <=> a + 1 <= p
             /\ NotAfter(s, j, p - 1) <=> p <= v + 1
    <2>1. NotBefore(s, i, p - 1) <=> IF i >= 0 THEN p - 1 >= i ELSE p - 1 - n >= i
        BY DEF NotBefore
    <2>2. NotAfter(s, j, p - 1) <=> IF j >= 0 THEN p - 1 <= j ELSE p - 1 - n <= j
        BY DEF NotAfter
    <2> HIDE DEF n, a, v
    <2>3. QED BY <1>1, <1>2, <2>1, <2>2
<1>6. a \in Int /\ v \in Int /\ a >= 0
    <2> HIDE DEF n, a, v
    <2>1. QED BY <1>1, <1>2
<1>7. Within(s, i, j) = {p \in 1..n : a + 1 <= p /\ p <= v + 1}
    BY <1>1, <1>5 DEF Within
<1> HIDE DEF n, a, v
<1>8. CASE OutOfRange(s, i, j)
    <2>1. \A p \in 1..n : ~(a + 1 <= p /\ p <= v + 1)
        BY <1>1, <1>3, <1>6, <1>8
    <2>2. QED BY <1>7, <1>8, <2>1
<1>9. CASE ~OutOfRange(s, i, j)
    <2> DEFINE b == LastOffset(s, j)
    <2>1. b = IF v < n THEN v ELSE n - 1
        BY <1>4
    <2> HIDE DEF b
    <2>2. b \in Int /\ a <= b /\ b < n /\ b <= v /\ (b < v => b = n - 1)
        BY <1>1, <1>3, <1>6, <1>9, <2>1
    <2>3. \A p \in Int : (p \in 1..n /\ a + 1 <= p /\ p <= v + 1) <=> (a + 1 <= p /\ p <= b + 1)
        BY <1>1, <1>6, <2>2
    <2>4. {p \in 1..n : a + 1 <= p /\ p <= v + 1} = (a + 1)..(b + 1)
        BY <1>6, <2>2, <2>3
    <2>5. QED BY <1>7, <1>9, <2>4 DEF a, b
<1>10. QED BY <1>8, <1>9

\* The elements at these positions are those the loops walk over.
LEMMA RangeIs ==
    ASSUME NEW s \in Seq(Elem), NEW i \in Int, NEW j \in Int
    PROVE  At(s, Within(s, i, j)) = IF OutOfRange(s, i, j) THEN <<>> ELSE Slice(s, i, j)
<1> DEFINE K == Within(s, i, j)
<1>1. K \subseteq DOMAIN s
    BY DEF Within
<1>2. CASE OutOfRange(s, i, j)
    <2>1. K = {}
        BY <1>2, WalkIs
    <2>2. Len(<<>>) = Cardinality(K)
        BY <2>1, FS_EmptySet
    <2> HIDE DEF K
    <2>3. <<>> = At(s, K)
        BY <1>1, <2>1, <2>2, EmptySeq, AtIs
    <2>4. QED BY <1>2, <2>3 DEF K
<1>3. CASE ~OutOfRange(s, i, j)
    <2> DEFINE a == FirstOffset(s, i)
               b == LastOffset(s, j)
               t == Slice(s, i, j)
    <2>1. /\ a \in Nat /\ b \in Nat /\ a <= b /\ b < Len(s)
          /\ t \in Seq(Elem) /\ Len(t) = b - a + 1
          /\ \A r \in 1..(b - a + 1) : t[r] = s[a + r]
        BY <1>3, SliceIs
    <2>2. K = (a + 1)..(b + 1)
        BY <1>3, WalkIs
    <2> HIDE DEF a, b, t, K
    <2>3. ASSUME NEW p \in a..(b + 1)
          PROVE  Cardinality((a + 1)..p) = p - a
        <3>1. PICK l \in Int : l = a + 1
            BY <2>1
        <3>2. p \in Int /\ (l > p => p - a = 0) /\ p - l + 1 = p - a
            BY <2>1, <3>1
        <3>3. Cardinality(l..p) = IF l > p THEN 0 ELSE p - l + 1
            BY <3>2, FS_Interval
        <3>4. QED BY <3>1, <3>2, <3>3
    <2>4. Cardinality(K) = Len(t)
        <3>1. PICK w \in a..(b + 1) : w = b + 1 /\ w - a = b - a + 1
            BY <2>1
        <3>2. Cardinality((a + 1)..w) = w - a
            BY <2>3
        <3>3. QED BY <2>1, <2>2, <3>1, <3>2
    <2>5. ASSUME NEW p \in K PROVE t[RankIn(K, p)] = s[p]
        <3>1. p \in (a + 1)..(b + 1)
            BY <2>2
        <3>2. {q \in K : q <= p} = (a + 1)..p
            BY <2>1, <2>2, <3>1
        <3>3. RankIn(K, p) = p - a
            <4>1. p \in a..(b + 1)
                BY <2>1, <3>1
            <4>2. Cardinality((a + 1)..p) = p - a
                BY <2>3, <4>1
            <4>3. QED BY <3>2, <4>2 DEF RankIn
        <3>4. p - a \in 1..(b - a + 1) /\ a + (p - a) = p
            BY <2>1, <3>1
        <3>5. QED BY <2>1, <3>3, <3>4
    <2>6. t = At(s, K)
        BY <1>1, <2>1, <2>4, <2>5, AtIs
    <2>7. QED BY <1>3, <2>6 DEF K, t
<1>4. QED BY <1>2, <1>3

\* lrange answers the elements that are neither before its first nor after its last offset,
\* but of ArrCap or more only the last ones, as the length of the reply array wraps; ltrim
\* leaves exactly these elements, and lindex answers the one at its offset, for any list and
\* any offsets: the cuts at both ends are right.
THEOREM RangesAlwaysAgree == Spec => []RangesAgree
<1>1. TypeOK => RangesAgree
    <2>1. SUFFICES ASSUME TypeOK, NEW k \in Key, NEW i \in Offset, NEW j \in Offset,
                          db[k].type = "list"
                   PROVE  LET s == db[k].items
                              range == At(s, Within(s, i, j))
                              answer == lrange_command(db, k, i, j).val
                          IN  /\ EndsWith(range, answer)
                              /\ Len(answer) = Len(range) % ArrCap
                              /\ ltrim_command(db, k, i, j).db[k] =
                                     (IF range = <<>> THEN NoObj ELSE ListObj(range))
                              /\ i = j => lindex_command(db, k, i).val = range
        BY DEF RangesAgree, Elements, Within
    <2> DEFINE s == db[k].items
               n == Len(s)
               range == At(s, Within(s, i, j))
               t == Slice(s, i, j)
               a == FirstOffset(s, i)
               b == LastOffset(s, j)
    <2>2. KeyspaceOK(db) /\ s \in Seq(Elem) /\ n \in Nat /\ i \in Int /\ j \in Int
        BY <2>1, ItemsAreElements, BoundsAssumption DEF TypeOK
    <2>3. ~Missing(db, k) /\ ~WrongType(db, k)
        BY <2>1 DEF Missing, WrongType
    <2>4. range = IF OutOfRange(s, i, j) THEN <<>> ELSE t
        BY <2>2, RangeIs
    <2>5. ~OutOfRange(s, i, j) =>
              /\ a \in Nat /\ b \in Nat /\ a <= b /\ b < n
              /\ t \in Seq(Elem) /\ Len(t) = b - a + 1
              /\ \A r \in 1..(b - a + 1) : t[r] = s[a + r]
        BY <2>2, SliceIs
    <2> HIDE DEF range
    <2>6. /\ EndsWith(range, lrange_command(db, k, i, j).val)
          /\ Len(lrange_command(db, k, i, j).val) = Len(range) % ArrCap
        <3>1. range \in Seq(Elem)
            BY <2>4, <2>5, EmptySeq
        <3>2. lrange_command(db, k, i, j).val = Filled(range)
            <4>1. Filled(<<>>) = <<>>
                <5>1. Filled(<<>>) \in Seq(Elem) /\ Len(Filled(<<>>)) = 0 % ArrCap
                    BY EmptySeq, FilledIs
                <5>2. 0 % ArrCap = 0
                    BY BoundsAssumption, WrapsOn
                <5>3. QED BY <5>1, <5>2, EmptySeq
            <4>2. QED BY <2>3, <2>4, <4>1 DEF lrange_command, Result
        <3>3. QED BY <3>1, <3>2, FilledIs
    <2>7. ltrim_command(db, k, i, j).db[k] = IF range = <<>> THEN NoObj ELSE ListObj(range)
        <3>1. CASE OutOfRange(s, i, j)
            <4>1. ltrim_command(db, k, i, j).db = dict_rm(db, k)
                BY <2>3, <3>1 DEF ltrim_command, Result
            <4>2. dict_rm(db, k)[k] = NoObj
                BY <2>2, StoreIs
            <4>3. QED BY <2>4, <3>1, <4>1, <4>2
        <3>2. CASE ~OutOfRange(s, i, j)
            <4>1. ltrim_command(db, k, i, j).db = dict_add(db, k, ListObj(t))
                BY <2>3, <3>2 DEF ltrim_command, Result
            <4> HIDE DEF t
            <4>2. dict_add(db, k, ListObj(t))[k] = ListObj(t)
                BY <2>2, <2>5, <3>2, StoreIs
            <4>3. t # <<>>
                <5> HIDE DEF a, b, n
                <5>1. QED BY <2>2, <2>5, <3>2
            <4>4. QED BY <2>4, <3>2, <4>1, <4>2, <4>3
        <3>3. QED BY <3>1, <3>2
    <2>8. ASSUME i = j PROVE lindex_command(db, k, i).val = range
        <3> DEFINE v == FromTail(s, i)
        <3>1. v \in Int
            BY <2>2 DEF FromTail
        <3>2. a = IF v < 0 THEN 0 ELSE v
            BY DEF FirstOffset
        <3>3. OutOfRange(s, i, i) <=> v < a \/ a >= n
            BY DEF OutOfRange
        <3>4. b = IF v < n THEN v ELSE n - 1
            BY <2>8 DEF LastOffset
        <3>5. InList(s, i) <=> v >= 0 /\ v < n
            BY DEF InList
        <3> HIDE DEF v, a, b, t, s, n
        <3>6. OutOfRange(s, i, j) <=> ~InList(s, i)
            BY <2>2, <2>8, <3>1, <3>2, <3>3, <3>5
        <3>7. CASE ~InList(s, i)
            <4>1. lindex_command(db, k, i).val = <<>>
                BY <2>3, <3>7 DEF lindex_command, Result, s
            <4>2. QED BY <2>4, <3>6, <3>7, <4>1
        <3>8. CASE InList(s, i)
            <4>1. lindex_command(db, k, i).val = <<s[v + 1]>>
                BY <2>3, <3>8 DEF lindex_command, Result, s, v
            <4>2. a = v /\ b = v /\ b - a + 1 = 1
                BY <2>2, <3>1, <3>2, <3>4, <3>5, <3>8
            <4>3. Len(t) = 1 /\ t[1] = s[v + 1] /\ t \in Seq(Elem)
                BY <2>5, <3>6, <3>8, <4>2
            <4>4. t = <<s[v + 1]>>
                BY <4>3
            <4>5. QED BY <2>4, <3>6, <3>8, <4>1, <4>4
        <3>9. QED BY <3>7, <3>8
    <2>9. QED BY <2>6, <2>7, <2>8 DEF range
<1>2. QED BY <1>1, TypeCorrect, PTL

-----------------------------------------------------------------------------
(* The lengths together *)

\* If one list grows, all lists together grow by as much.
LEMMA GrownTotal ==
    ASSUME IsFiniteSet(Key), NEW d, NEW d2, NEW k, NEW n, Grown(d, d2, k, n)
    PROVE  n \in Int /\ Total(d) \in Int /\ Total(d2) = Total(d) + n
<1> DEFINE f == [x \in Key |-> Len(d[x].items)]
           h == [x \in Key |-> Len(d2[x].items)]
<1>1. KeyspaceOK(d) /\ KeyspaceOK(d2) /\ k \in Key
    BY DEF Grown
<1>2. \A x \in Key : Len(d[x].items) \in Int /\ Len(d2[x].items) \in Int
    BY <1>1, ItemsAreElements
<1>3. f \in [Key -> Int] /\ h \in [Key -> Int]
    BY <1>2
<1>4. \A x \in Key \ {k} : h[x] = f[x]
    BY DEF Grown
<1>5. n \in Int /\ n = h[k] - f[k]
    BY <1>1, <1>2 DEF Grown
<1>6. Total(d) = SumFunctionOnSet(f, Key) /\ Total(d2) = SumFunctionOnSet(h, Key)
    BY DEF Total
<1> HIDE DEF f, h
<1>7. /\ SumFunctionOnSet(f, Key) \in Int
      /\ SumFunctionOnSet(h, Key) = SumFunctionOnSet(f, Key) + (h[k] - f[k])
    BY <1>1, <1>3, <1>4, SumMoves
<1>8. QED BY <1>5, <1>6, <1>7

\* The same of a command, which does it in two steps at most.
LEMMA GrowsTotal ==
    ASSUME IsFiniteSet(Key), NEW d, NEW d2, NEW n, Grows(d, d2, n)
    PROVE  Total(d2) - Total(d) = n
<1>1. PICK mid, k, l, n1, n2 : Grown(d, mid, k, n1) /\ Grown(mid, d2, l, n2) /\ n = n1 + n2
    BY DEF Grows
<1>2. n1 \in Int /\ Total(d) \in Int /\ Total(mid) = Total(d) + n1
    BY <1>1, GrownTotal
<1>3. n2 \in Int /\ Total(d2) = Total(mid) + n2
    BY <1>1, GrownTotal
<1>4. QED BY <1>1, <1>2, <1>3

\* For any finite set of keys, each command changes the number of elements in the lists
\* by what its reply says: a pop that answers an element took one, a move took and gave
\* one, lrem took as many as it says, pushes and insertions that answer a length gave
\* what they brought, and what fails changes nothing.  Cutting a list and removing a key
\* are left out, whose replies do not say how much, and the move to a key of another
\* type, which has popped an element before it finds out.
THEOREM RepliesAlwaysTell ==
    ASSUME IsFiniteSet(Key)
    PROVE  Spec => ReplyTellsChange
<1> DEFINE Tells ==
        LET change == Total(db') - Total(db)
            did == reply'.ret \in {"int", "str", "arr"}
        IN  reply'.op \notin {"trim", "set", "del"} /\ reply'.ret # "doublefree" =>
               change = CASE reply'.op \in {"pop", "blockpop"} /\ did -> -1
                          [] reply'.op = "rem" /\ did -> -reply'.num
                          [] reply'.op \in {"push", "pushx"} /\ did -> reply'.given
                          [] reply'.op = "insert" /\ did /\ reply'.num > 0 -> 1
                          [] OTHER -> 0
<1>1. ASSUME TypeOK, Next PROVE Tells
    <2>1. PICK op, k, given, res :
              k \in Key /\ Do(op, k, given, res) /\ Done(db, op, given, res)
        BY <1>1, StepDone
    <2>2. TypeOK' /\ reply'.num = Shown(res)
        BY <2>1, DoKeeps DEF Done
    <2>3. /\ db' = res.db /\ reply'.op = op /\ reply'.given = given
          /\ reply'.ret = res.ret /\ reply'.num = Shown(res) /\ reply'.num \in Int
        BY <2>1, <2>2 DEF Do, TypeOK
    <2>4. 0 - reply'.num = -reply'.num
        BY <2>3
    <2>5. SUFFICES ASSUME op \notin {"trim", "set", "del"}, res.ret # "doublefree"
                   PROVE  Tells
        BY <2>3
    <2>6. Grows(db, res.db, Change(op, given, res.ret, Shown(res)))
        BY <2>1, <2>5 DEF Done
    <2>7. Total(db') - Total(db) = Change(op, given, res.ret, Shown(res))
        BY <2>3, <2>6, GrowsTotal
    <2>8. Change(op, given, res.ret, Shown(res)) = Change(reply'.op, reply'.given, reply'.ret, reply'.num)
        BY <2>3
    <2>9. QED BY <2>4, <2>7, <2>8 DEF Change
<1>2. TypeOK /\ [Next]_vars => [Tells]_vars
    BY <1>1
<1>3. Spec => []TypeOK
    BY TypeCorrect
<1>4. QED BY <1>2, <1>3, PTL DEF Spec, ReplyTellsChange
=============================================================================
