--------------------------- MODULE EventLoopProofs ---------------------------
(* Theorems about EventLoop, for every value of its constants. *)
EXTENDS EventLoop, TLAPS, Lemmas

\* The scan of blpop and brpop over their keys stops at a key that exists, and
\* says 0 only if none does.
LEMMA FirstPresentIs ==
    ASSUME NEW d, NEW keys \in Seq(Key)
    PROVE  LET i == FirstPresent(d, keys)
           IN  /\ i \in 0..Len(keys)
               /\ i = 0 => \A j \in 1..Len(keys) : Missing(d, keys[j])
               /\ i # 0 => ~Missing(d, keys[i])
<1> DEFINE I == {j \in 1..Len(keys) : ~Missing(d, keys[j])}
<1>1. FirstPresent(d, keys) = IF I # {} THEN Min(I) ELSE 0
    BY DEF FirstPresent, SelectInSeq
<1>2. I # {} => Min(I) \in I
    <2>1. I \subseteq Nat
        OBVIOUS
    <2> HIDE DEF I
    <2>2. QED BY <2>1, MinOfNats
<1>3. Len(keys) \in Nat
    OBVIOUS
<1>4. I = {} => FirstPresent(d, keys) = 0 /\ \A j \in 1..Len(keys) : Missing(d, keys[j])
    BY <1>1
<1>5. I # {} => FirstPresent(d, keys) \in 1..Len(keys) /\ ~Missing(d, keys[FirstPresent(d, keys)])
    BY <1>1, <1>2
<1>6. QED BY <1>3, <1>4, <1>5

-----------------------------------------------------------------------------
(* The commands keep the keyspace well formed *)

\* Storing an object at a key, or removing one, keeps the keyspace well formed.
LEMMA StoreKeeps ==
    ASSUME NEW d, KeyspaceOK(d), NEW k \in Key, NEW s \in Seq(ReqId)
    PROVE  /\ KeyspaceOK(dict_rm(d, k))
           /\ KeyspaceOK(dict_add(d, k, StrObj))
           /\ KeyspaceOK(dict_add(d, k, ListObj(s)))
           /\ dict_add(d, k, ListObj(s))[k] = ListObj(s)
    BY DEF KeyspaceOK, Obj, dict_rm, dict_add, NoObj, StrObj, ListObj

\* The elements of any object are elements that were pushed.
LEMMA ItemsAreElements ==
    ASSUME NEW d, KeyspaceOK(d), NEW k \in Key
    PROVE  /\ d[k] \in Obj
           /\ d[k].items \in Seq(ReqId)
    BY DEF KeyspaceOK, Obj

\* A pop takes an element of the list and leaves a list.
LEMMA PopTakes ==
    ASSUME NEW s \in Seq(ReqId), s # <<>>, NEW side
    PROVE  /\ list_pop(s, side) \in ReqId
           /\ list_rest(s, side) \in Seq(ReqId)
<1>1. Len(s) \in Nat /\ Len(s) >= 1
    BY EmptySeq
<1>2. s[1] \in ReqId /\ s[Len(s)] \in ReqId /\ Head(s) = s[1] /\ Last(s) = s[Len(s)]
    BY <1>1 DEF Last
<1>3. Tail(s) \in Seq(ReqId) /\ Front(s) \in Seq(ReqId)
    BY <1>1 DEF Front
<1>4. QED BY <1>2, <1>3 DEF list_pop, list_rest

\* Storing what a pop has left, or ending the life of the list, keeps the
\* keyspace well formed.
LEMMA EndIfEmptyKeeps ==
    ASSUME NEW d, KeyspaceOK(d), NEW k \in Key, NEW rmkey \in Key, NEW s \in Seq(ReqId)
    PROVE  KeyspaceOK(EndIfEmpty(d, k, s, rmkey))
    BY StoreKeeps, EmptySeq DEF EndIfEmpty

\* What is known of the result of a command.
ResultOK(res) ==
    /\ KeyspaceOK(res.db)
    /\ res.ret \in {"ok", "int", "nil", "str", "arr", "fail", "blocked", "crash",
                    "doublefree"}
    /\ res.ret \in {"str", "arr"} => res.val \in Seq(ReqId)

\* blpop and brpop return a result of the right form, for any list of keys.
LEMMA BlpopOK ==
    ASSUME NEW d, KeyspaceOK(d), NEW side, NEW keys \in Seq(Key), Len(keys) >= 1
    PROVE  LET res == blpopbrpop_command(d, side, keys)
           IN  ResultOK(res) /\ (res.ret = "arr" => Len(res.val) = 1)
<1> DEFINE i == FirstPresent(d, keys)
           s == d[keys[i]].items
<1>1. CASE i = 0
    BY <1>1 DEF blpopbrpop_command, ResultOK, Result
<1>2. CASE i # 0
    <2>1. i \in 1..Len(keys) /\ Len(keys) \in Nat
        BY <1>2, FirstPresentIs
    <2>2. keys[i] \in Key /\ keys[1] \in Key
        BY <2>1
    <2>3. s \in Seq(ReqId)
        BY <2>2, ItemsAreElements
    <2> HIDE DEF i
    <2>4. s # <<>> => /\ KeyspaceOK(EndIfEmpty(d, keys[i], list_rest(s, side), keys[1]))
                     /\ <<list_pop(s, side)>> \in Seq(ReqId)
                     /\ Len(<<list_pop(s, side)>>) = 1
        BY <2>2, <2>3, PopTakes, EndIfEmptyKeeps
    <2>5. QED BY <1>2, <2>4 DEF blpopbrpop_command, ResultOK, Result, i
<1>3. QED BY <1>1, <1>2

\* The move of an element, shared by rpoplpush and brpoplpush, returns a result
\* of the right form.
LEMMA PopPushOK ==
    ASSUME NEW d, KeyspaceOK(d), NEW src \in Key, NEW dst \in Key,
           NEW ret \in {"str", "arr"}
    PROVE  LET res == PopPush(d, src, dst, ret)
           IN  ResultOK(res) /\ (res.ret = "arr" => Len(res.val) = 1)
<1> DEFINE s == d[src].items
           popped == EndIfEmpty(d, src, list_rest(s, "right"), src)
           e == list_pop(s, "right")
           t == list_insert(popped[dst].items, "left", e)
<1>1. s \in Seq(ReqId)
    BY ItemsAreElements
<1>2. CASE s = <<>>
    BY <1>2, StoreKeeps, EmptySeq DEF PopPush, ResultOK, Result
<1>3. CASE s # <<>>
    <2>1. /\ KeyspaceOK(popped)
          /\ e \in ReqId
        BY <1>1, <1>3, PopTakes, EndIfEmptyKeeps
    <2>2. popped[dst].items \in Seq(ReqId)
        BY <2>1, ItemsAreElements
    <2> HIDE DEF popped, e, s
    <2>3. t \in Seq(ReqId)
        BY <2>1, <2>2, ConcatProperties DEF list_insert
    <2>4. /\ KeyspaceOK(dict_add(popped, dst, ListObj(t)))
          /\ <<e>> \in Seq(ReqId) /\ Len(<<e>>) = 1
        BY <2>1, <2>3, StoreKeeps
    <2>5. QED BY <1>3, <2>1, <2>4 DEF PopPush, ResultOK, Result, popped, e, s
<1>4. QED BY <1>2, <1>3

\* rpoplpush and brpoplpush return a result of the right form.
LEMMA MovesOK ==
    ASSUME NEW d, KeyspaceOK(d), NEW src \in Key, NEW dst \in Key
    PROVE  /\ ResultOK(rpoplpush_command(d, src, dst))
           /\ ResultOK(brpoplpush_command(d, src, dst))
           /\ brpoplpush_command(d, src, dst).ret = "arr"
                 => Len(brpoplpush_command(d, src, dst).val) = 1
    BY PopPushOK DEF rpoplpush_command, brpoplpush_command, ResultOK, Result

\* lpop and rpop return a result of the right form.
LEMMA PopOK ==
    ASSUME NEW d, KeyspaceOK(d), NEW k \in Key, NEW side
    PROVE  ResultOK(lpoprpop_command(d, side, k))
<1> DEFINE s == d[k].items
<1>1. s \in Seq(ReqId)
    BY ItemsAreElements
<1>2. s # <<>> => /\ KeyspaceOK(EndIfEmpty(d, k, list_rest(s, side), k))
                  /\ <<list_pop(s, side)>> \in Seq(ReqId)
    BY <1>1, PopTakes, EndIfEmptyKeeps
<1>3. QED BY <1>1, <1>2 DEF lpoprpop_command, ResultOK, Result

\* lpush and rpush return a result of the right form.
LEMMA PushOK ==
    ASSUME NEW d, KeyspaceOK(d), NEW k \in Key, NEW side, NEW e \in ReqId
    PROVE  ResultOK(lpushrpush_command(d, side, k, <<e>>))
<1> DEFINE s == d[k].items
           t == list_insert_all(s, side, <<e>>)
<1>1. s \in Seq(ReqId)
    BY ItemsAreElements
<1>2. Reverse(<<e>>) = <<e>>
    BY DEF Reverse
<1>3. <<e>> \in Seq(ReqId)
    OBVIOUS
<1> HIDE DEF s
<1>4. t \in Seq(ReqId)
    BY <1>1, <1>2, <1>3, ConcatProperties DEF list_insert_all
<1>5. QED BY <1>4, StoreKeeps DEF s, lpushrpush_command, ResultOK, Result

\* The reply array keeps cells it is filled with, all of them if they are fewer
\* than ArrCap.
LEMMA FilledIs ==
    ASSUME NEW S, NEW s \in Seq(S)
    PROVE  /\ Filled(s) \in Seq(S)
           /\ \A i \in DOMAIN Filled(s) : \E j \in DOMAIN s : Filled(s)[i] = s[j]
           /\ Len(s) < ArrCap => Filled(s) = s
<1>1. ArrCap \in Nat \ {0}
    BY ConstantsAssumption
<1>2. Filled(s) = LastOf(s, ArrCap)
    BY DEF Filled, LastOf
<1> DEFINE t == Filled(s)
<1>4. /\ t \in Seq(S) /\ Len(t) = Len(s) % ArrCap /\ Len(t) <= Len(s)
      /\ \A r \in 1..Len(t) : t[r] = s[Len(s) - Len(t) + r]
    BY <1>1, <1>2, LastOnes
<1> HIDE DEF t
<1>5. /\ Len(s) \in Nat /\ DOMAIN s = 1..Len(s)
      /\ Len(t) \in Nat /\ DOMAIN t = 1..Len(t)
    BY <1>4
<1>6. ASSUME NEW i \in DOMAIN t
      PROVE  \E j \in DOMAIN s : t[i] = s[j]
    <2>1. Len(s) - Len(t) + i \in 1..Len(s)
        BY <1>4, <1>5
    <2>2. t[i] = s[Len(s) - Len(t) + i]
        BY <1>4, <1>5
    <2>3. QED BY <1>5, <2>1, <2>2
<1>7. ASSUME Len(s) < ArrCap
      PROVE  t = s
    <2>1. Len(t) = Len(s)
        BY <1>1, <1>4, <1>5, <1>7, WrapsOn
    <2>2. \A r \in 1..Len(s) : t[r] = s[r]
        <3> SUFFICES ASSUME NEW r \in 1..Len(s)
                     PROVE  t[r] = s[r]
            OBVIOUS
        <3>1. Len(s) - Len(t) + r = r
            BY <1>5, <2>1
        <3>2. QED BY <1>4, <2>1, <3>1
    <2>3. QED BY <1>4, <2>1, <2>2, SeqEqual
<1>8. QED BY <1>4, <1>6, <1>7 DEF t

\* lrange of the whole list returns a result of the right form.
LEMMA RangeOK ==
    ASSUME NEW d, KeyspaceOK(d), NEW k \in Key
    PROVE  ResultOK(lrange_command(d, k, 0, -1))
<1> DEFINE s == d[k].items
<1>1. s \in Seq(ReqId) /\ Len(s) \in Nat
    BY ItemsAreElements
<1>2. ~OutOfRange(s, 0, -1) => Slice(s, 0, -1) \in Seq(ReqId)
    BY <1>1, SubSeqProperties DEF Slice, FirstOffset, FromTail, OutOfRange
<1> HIDE DEF s
<1>3. ~OutOfRange(s, 0, -1) => Filled(Slice(s, 0, -1)) \in Seq(ReqId)
    BY <1>2, FilledIs
<1>4. QED BY <1>3, EmptySeq DEF s, lrange_command, ResultOK, Result

\* set and del return a result of the right form.
LEMMA SetDelOK ==
    ASSUME NEW d, KeyspaceOK(d), NEW k \in Key, NEW keys
    PROVE  /\ ResultOK(set_command(d, k))
           /\ ResultOK(del_command(d, keys))
<1>1. ResultOK(set_command(d, k))
    BY StoreKeeps, EmptySeq DEF set_command, ResultOK, Result
<1>2. KeyspaceOK([x \in Key |-> IF x \in ToSet(keys) THEN NoObj ELSE d[x]])
    BY DEF KeyspaceOK, Obj, NoObj
<1>3. QED BY <1>1, <1>2 DEF del_command, ResultOK, Result

\* Whatever command a request names, its result has the right form.
LEMMA CommandOK ==
    ASSUME NEW d, KeyspaceOK(d), NEW id \in ReqId, NEW r \in Request \cup {NoReq}
    PROVE  LET res == Command(d, id, r)
           IN  /\ ResultOK(res)
               /\ res.ret = "arr" /\ r.op \in Blocking => Len(res.val) = 1
<1>1. ArgsOK(r) => r.op \in Op /\ r.keys \in Seq(Key) /\ Len(r.keys) \in Nat
    BY ConstantsAssumption DEF NoReq, ArgsOK
<1>2. CASE ~ArgsOK(r)
    BY <1>2 DEF Command, Result, ResultOK
<1>3. CASE ArgsOK(r)
    <2>0. r.op \in {"brpoplpush", "rpoplpush"} => Len(r.keys) = 2
        BY <1>3 DEF ArgsOK
    <2>1. Len(r.keys) >= 1
        <3> DEFINE n == Len(r.keys)
        <3>1. n >= 1 \/ n = 2 \/ n = 1
            BY <1>3 DEF ArgsOK
        <3> HIDE DEF n
        <3>2. n >= 1
            BY <3>1
        <3>3. QED BY <3>2 DEF n
    <2>2. r.keys[1] \in Key /\ (r.op \in {"brpoplpush", "rpoplpush"} => r.keys[2] \in Key)
        BY <1>1, <1>3, <2>0, <2>1
    <2>3. r.op # "invalid"
        BY <1>3 DEF ArgsOK
    <2>4. CASE r.op \in {"blpop", "brpop"}
        BY <1>1, <1>3, <2>1, <2>4, BlpopOK DEF Command
    <2>5. CASE r.op \in {"brpoplpush", "rpoplpush"}
        BY <1>3, <2>2, <2>5, MovesOK DEF Command, Blocking
    <2>6. CASE r.op \in {"lpop", "rpop", "lpush", "rpush"}
        BY <1>3, <2>2, <2>6, PopOK, PushOK DEF Command, Blocking
    <2>7. CASE r.op \in {"lrange", "set", "del"}
        BY <1>3, <2>2, <2>7, RangeOK, SetDelOK DEF Command, Blocking
    <2>8. QED BY <1>1, <1>3, <2>3, <2>4, <2>5, <2>6, <2>7 DEF Op
<1>4. QED BY <1>2, <1>3

-----------------------------------------------------------------------------
(* process_request and the reply array *)

Replies == [type : {"ok", "int", "nil", "str", "arr", "fail", "garbled", "none"},
            val : Seq(Item)]

\* What is known of every outcome of an attempt at a request.
OutcomeOK(out) ==
    /\ KeyspaceOK(out.db)
    /\ out.arr \in Seq(CellType)
    /\ out.ret \in {"reply", "blocked", "down"}
    /\ out.reply \in Replies

\* create_arr_reply leaves cells in the array and replies one of the known types,
\* also when the array refers to strings that were freed.
LEMMA ArrayReplyOK ==
    ASSUME NEW a \in Seq(CellType), NEW d, KeyspaceOK(d), NEW current \in Replies,
           NEW out \in create_arr_reply(a, d, current)
    PROVE  OutcomeOK(out) /\ out.db = d /\ out.ret \in {"reply", "down"}
<1>1. a \in [1..Len(a) -> CellType] /\ Len(a) \in Nat /\ DOMAIN a = 1..Len(a)
    OBVIOUS
<1>2. FreeOwned(a) \in [1..Len(a) -> CellType]
    BY <1>1 DEF FreeOwned, CellType
<1>3. [i \in DOMAIN a |-> a[i].what] \in [1..Len(a) -> Item]
    BY <1>1 DEF CellType
<1>4. /\ FreeOwned(a) \in Seq(CellType)
      /\ [i \in DOMAIN a |-> a[i].what] \in Seq(Item)
    BY <1>1, <1>2, <1>3, IsASeq
<1>5. <<>> \in Seq(Item)
    OBVIOUS
<1>6. CASE \E i \in DOMAIN a : Dangling(a[i], d)
    <2>1. PICK o \in FreedRead :
              out = CASE o = "kept" -> Outcome("reply", d, FreeOwned(a), current)
                      [] o = "garbled" -> Outcome("reply", d, FreeOwned(a), Reply("garbled", <<>>))
                      [] o = "abort" -> Down(d, a)
        BY <1>6 DEF create_arr_reply
    <2>2. o \in {"kept", "garbled", "abort"}
        BY ConstantsAssumption
    <2>3. \/ out = Outcome("reply", d, FreeOwned(a), current)
          \/ out = Outcome("reply", d, FreeOwned(a), Reply("garbled", <<>>))
          \/ out = Down(d, a)
        BY <2>1, <2>2
    <2>4. CASE out = Outcome("reply", d, FreeOwned(a), current)
        BY <1>4, <2>4 DEF Outcome, OutcomeOK
    <2>5. CASE out = Outcome("reply", d, FreeOwned(a), Reply("garbled", <<>>))
        BY <1>4, <1>5, <2>5 DEF Outcome, Reply, OutcomeOK, Replies
    <2>6. CASE out = Down(d, a)
        BY <1>5, <2>6 DEF Outcome, Down, Reply, OutcomeOK, Replies
    <2>7. QED BY <2>3, <2>4, <2>5, <2>6
<1>7. CASE ~\E i \in DOMAIN a : Dangling(a[i], d)
    <2>1. out = Outcome("reply", d, FreeOwned(a), Reply("arr", [i \in DOMAIN a |-> a[i].what]))
        BY <1>7 DEF create_arr_reply
    <2>2. QED BY <1>4, <2>1 DEF Outcome, Reply, OutcomeOK, Replies
<1>8. QED BY <1>6, <1>7

\* What a command leaves in the reply array are cells.
LEMMA ArrayAfterOK ==
    ASSUME NEW a \in Seq(CellType), NEW r \in Request \cup {NoReq}, NEW res,
           ResultOK(res), res.ret = "arr" /\ r.op \in Blocking => Len(res.val) = 1,
           res.ret = "arr" => ArgsOK(r)
    PROVE  ArrayAfter(r, res, a) \in Seq(CellType)
<1>1. <<>> \in Seq(CellType)
    OBVIOUS
<1>2. ASSUME res.ret = "arr", r.op \in Blocking
      PROVE  res.val[1] \in ReqId
    BY <1>2 DEF ResultOK
<1>3. ASSUME res.ret = "arr", r.op \in {"blpop", "brpop"}
      PROVE  <<KeyCell(r.keys[1]), PoppedCell(res.val[1])>> \in Seq(CellType)
    <2>1. r.keys[1] \in Key
        <3>1. r \in Request
            BY <1>3 DEF NoReq
        <3>2. r.keys \in Seq(Key) /\ Len(r.keys) \in Nat
            BY <3>1, ConstantsAssumption
        <3>3. Len(r.keys) >= 1
            BY <1>3 DEF ArgsOK
        <3>4. QED BY <3>2, <3>3
    <2>2. KeyCell(r.keys[1]) \in CellType /\ PoppedCell(res.val[1]) \in CellType
        BY <1>2, <1>3, <2>1 DEF KeyCell, PoppedCell, Cell, CellType, Item, Blocking
    <2>3. QED BY <2>2
<1>4. ASSUME res.ret = "arr", r.op = "brpoplpush"
      PROVE  <<EntryCell(res.val[1])>> \in Seq(CellType)
    <2>1. EntryCell(res.val[1]) \in CellType
        BY <1>2, <1>4 DEF EntryCell, Cell, CellType, Item, Blocking
    <2>2. QED BY <2>1
<1>5. ASSUME res.ret = "arr"
      PROVE  [i \in DOMAIN res.val |-> EntryCell(res.val[i])] \in Seq(CellType)
    <2>1. res.val \in Seq(ReqId)
        BY <1>5 DEF ResultOK
    <2>2. Len(res.val) \in Nat /\ DOMAIN res.val = 1..Len(res.val)
        BY <2>1
    <2>3. \A i \in DOMAIN res.val : EntryCell(res.val[i]) \in CellType
        BY <2>1 DEF EntryCell, Cell, CellType, Item
    <2>4. QED BY <2>2, <2>3, IsASeq
<1>6. QED BY <1>1, <1>3, <1>4, <1>5 DEF ArrayAfter, Refill

\* An attempt at a request, first or repeated, ends in an outcome of the right
\* form.
LEMMA ProcessRequestOK ==
    ASSUME NEW id \in ReqId, NEW d, KeyspaceOK(d), NEW a \in Seq(CellType),
           asked[id] \in Request \cup {NoReq}, NEW out \in process_request(id, d, a)
    PROVE  OutcomeOK(out)
<1> DEFINE r == asked[id]
           res == Command(d, id, r)
           a2 == ArrayAfter(r, res, a)
<1>1. ResultOK(res) /\ (res.ret = "arr" /\ r.op \in Blocking => Len(res.val) = 1)
    BY CommandOK
<1>2. res.ret = "arr" => ArgsOK(r)
    BY DEF Command, Result
<1>3. a2 \in Seq(CellType)
    BY <1>1, <1>2, ArrayAfterOK
<1>4. OwnReplyOf(res) \in Replies \/ res.ret \in {"blocked", "crash", "doublefree"}
    <2>1. res.ret = "str" => res.val \in Seq(Item)
        BY <1>1, SeqMonotonic DEF ResultOK, Item
    <2>2. <<>> \in Seq(Item)
        OBVIOUS
    <2>3. QED BY <1>1, <2>1, <2>2 DEF OwnReplyOf, Reply, Replies, ResultOK
<1>5. KeyspaceOK(res.db) /\ Reply("none", <<>>) \in Replies
    BY <1>1 DEF ResultOK, Reply, Replies
<1> HIDE DEF res, a2
<1>6. CASE res.ret \in {"crash", "doublefree"}
    BY <1>5, <1>6 DEF process_request, res, a2, Down, Outcome, OutcomeOK
<1>7. CASE res.ret = "blocked"
    BY <1>3, <1>5, <1>7 DEF process_request, res, a2, Blocked, Outcome, OutcomeOK
<1>8. CASE res.ret \notin {"crash", "doublefree", "blocked"}
    <2>1. CASE r.op \in Blocking \/ res.ret = "arr"
        <3>1. out \in create_arr_reply(a2, res.db, OwnReplyOf(res))
            BY <1>8, <2>1 DEF process_request, res, a2
        <3>2. QED BY <1>3, <1>4, <1>5, <1>8, <3>1, ArrayReplyOK
    <2>2. CASE ~(r.op \in Blocking \/ res.ret = "arr")
        <3>1. out = Outcome("reply", res.db, a2, OwnReplyOf(res))
            BY <1>8, <2>2 DEF process_request, res, a2
        <3>2. QED BY <1>3, <1>4, <1>5, <1>8, <3>1 DEF Outcome, OutcomeOK
    <2>3. QED BY <2>1, <2>2
<1>9. QED BY <1>6, <1>7, <1>8

-----------------------------------------------------------------------------
(* Type correctness *)

\* A position of the list of hanging jobs holds a request and its descriptor.
LEMMA JobIs ==
    ASSUME TypeOK, NEW i \in 1..Len(pending)
    PROVE  pending[i].id \in ReqId /\ pending[i].fd \in Fd
<1> DEFINE J == [id : ReqId, fd : Fd]
<1>1. pending \in Seq(J)
    BY DEF TypeOK
<1> HIDE DEF J
<1>2. pending[i] \in J
    BY <1>1, ElementOfSeq
<1>3. QED BY <1>2 DEF J

\* The same of all jobs.
LEMMA JobsAre ==
    ASSUME TypeOK
    PROVE  \A i \in DOMAIN pending :
              /\ pending[i].id \in ReqId
              /\ pending[i].id[1] \in Client
              /\ pending[i].fd \in Fd
<1>1. DOMAIN pending = 1..Len(pending)
    BY DEF TypeOK
<1>2. QED BY <1>1, JobIs DEF ReqId

\* What a finished job may have created are keys.
LEMMA CreatedIsKey ==
    ASSUME TypeOK, NEW id \in ReqId
    PROVE  Created(asked[id]) \subseteq Key
<1>1. CASE asked[id].op = "brpoplpush" /\ ArgsOK(asked[id])
    <2>1. asked[id] \in Request
        BY <1>1 DEF TypeOK, NoReq
    <2>2. asked[id].keys \in Seq(Key) /\ Len(asked[id].keys) \in Nat
        BY <2>1, ConstantsAssumption
    <2>3. Len(asked[id].keys) = 2
        BY <1>1 DEF ArgsOK
    <2>4. asked[id].keys[2] \in Key
        BY <2>2, <2>3
    <2>5. QED BY <1>1, <2>4 DEF Created
<1>2. CASE ~(asked[id].op = "brpoplpush" /\ ArgsOK(asked[id]))
    BY <1>2 DEF Created
<1>3. QED BY <1>1, <1>2

\* send_reply keeps the types of what it changes.
LEMMA SendKeepsTypes ==
    ASSUME TypeOK, NEW f \in Fd, NEW id \in ReqId, NEW reply \in Replies,
           send_reply(f, id, reply)
    PROVE  /\ replies' \in [ReqId -> Seq(ReplyType)]
           /\ outq' \in [Client -> Seq(ReqId)]
           /\ peer' \in [Client -> {"open", "fin", "rst", "pipe"}]
<1> DEFINE c == conn[f]
           arrives == c # NoConn /\ peer[c] = "open"
           written == [to |-> IF arrives THEN c ELSE NoConn, hung |-> pc = "jobs",
                       type |-> reply.type, val |-> reply.val]
<1>1. c \in Client \cup {NoConn}
    BY DEF TypeOK
<1>2. written \in ReplyType
    BY <1>1 DEF Replies, ReplyType
<1>3. replies' = [replies EXCEPT ![id] = Append(@, written)]
    BY DEF send_reply
<1> HIDE DEF written
<1>4. replies' \in [ReqId -> Seq(ReplyType)]
    BY <1>2, <1>3, AppendProperties DEF TypeOK
<1>5. outq' \in [Client -> Seq(ReqId)]
    BY <1>1, AppendProperties DEF TypeOK, send_reply
<1>6. peer' \in [Client -> {"open", "fin", "rst", "pipe"}]
    BY <1>1 DEF TypeOK, send_reply
<1>7. QED BY <1>4, <1>5, <1>6

\* The end of a hanging job keeps the types of what it changes.
LEMMA FinishKeepsTypes ==
    ASSUME TypeOK, pc = "jobs", walk <= Len(pending),
           NEW d, KeyspaceOK(d), NEW a \in Seq(CellType), NEW current \in Replies,
           FinishJob(d, a, current)
    PROVE  /\ KeyspaceOK(db')
           /\ arr' \in Seq(CellType)
           /\ pending' \in Seq([id : ReqId, fd : Fd])
           /\ walk' \in 1..(Len(pending') + 1)
           /\ pc' \in {"poll", "events", "jobs", "down"}
           /\ replies' \in [ReqId -> Seq(ReplyType)]
           /\ outq' \in [Client -> Seq(ReqId)]
           /\ peer' \in [Client -> {"open", "fin", "rst", "pipe"}]
<1> DEFINE J == [id : ReqId, fd : Fd]
           job == pending[walk]
<1>1. pending \in Seq(J) /\ Len(pending) \in Nat /\ walk \in 1..Len(pending)
    BY DEF TypeOK
<1>2. job.id \in ReqId /\ job.fd \in Fd
    BY <1>1, JobIs
<1>3. TimeCell \in CellType
    BY DEF TimeCell, Cell, CellType, Item
<1>4. Filled(Append(a, TimeCell)) \in Seq(CellType)
    <2>1. Append(a, TimeCell) \in Seq(CellType)
        BY <1>3, AppendProperties
    <2>2. QED BY <2>1, FilledIs
<1>5. PICK out \in create_arr_reply(Filled(Append(a, TimeCell)), d, current) :
          /\ db' = d
          /\ arr' = out.arr
          /\ pending' = Unlink(pending, walk)
          /\ \/ /\ out.ret = "reply"
                /\ send_reply(job.fd, job.id, out.reply)
                /\ pc' = IF SigPipe(job.fd) THEN "down" ELSE pc
             \/ /\ out.ret = "down"
                /\ pc' = "down"
                /\ UNCHANGED queueVars
          /\ UNCHANGED walk
    BY DEF FinishJob
<1>6. OutcomeOK(out)
    BY <1>4, <1>5, ArrayReplyOK
<1>7. pending' \in Seq(J) /\ Len(pending') = Len(pending) - 1
    BY <1>1, <1>5, RemoveAtIs DEF Unlink
<1>8. walk' \in 1..(Len(pending') + 1)
    BY <1>1, <1>5, <1>7
<1>9. /\ replies' \in [ReqId -> Seq(ReplyType)]
      /\ outq' \in [Client -> Seq(ReqId)]
      /\ peer' \in [Client -> {"open", "fin", "rst", "pipe"}]
    <2>1. CASE UNCHANGED queueVars
        BY <2>1 DEF queueVars, TypeOK
    <2>2. CASE send_reply(job.fd, job.id, out.reply)
        BY <1>2, <1>6, <2>2, SendKeepsTypes DEF OutcomeOK
    <2>3. QED BY <1>5, <2>1, <2>2
<1>10. QED BY <1>5, <1>6, <1>7, <1>8, <1>9 DEF OutcomeOK

\* accept returns a descriptor that is not in use.
LEMMA LowestFreeIs ==
    ASSUME FreeFd # {}
    PROVE  LowestFree \in FreeFd
<1>1. FreeFd \subseteq Nat
    BY ConstantsAssumption DEF FreeFd
<1>2. QED BY <1>1, MinOfNats DEF LowestFree, Min

\* The state before main_loop has the right types.
LEMMA InitTypes == Init => TypeOK
<1>1. KeyspaceOK([k \in Key |-> NoObj])
    BY DEF KeyspaceOK, Obj, NoObj
<1>2. QED BY <1>1, ConstantsAssumption DEF Init, TypeOK, ReqId

\* No step of a client breaks the type invariant.
LEMMA ClientsKeepTypes ==
    ASSUME TypeOK, Clients
    PROVE  TypeOK'
<1>1. ASSUME NEW c \in Client, connect_server(c)
      PROVE  TypeOK'
    BY <1>1, AppendProperties
    DEF connect_server, TypeOK, queueVars, dataVars, loopVars
<1>2. ASSUME NEW c \in Client, NEW r \in Request, send_request(c, r)
      PROVE  TypeOK'
    <2>1. sent[c] + 1 \in 1..MaxReq /\ <<c, sent[c] + 1>> \in ReqId
        BY <1>2, ConstantsAssumption DEF send_request, TypeOK, ReqId
    <2>2. inq' \in [Client -> Seq(ReqId)]
        BY <1>2, <2>1, AppendProperties DEF send_request, TypeOK
    <2>3. sent' \in [Client -> 0..MaxReq] /\ asked' \in [ReqId -> Request \cup {NoReq}]
        BY <1>2, <2>1 DEF send_request, TypeOK
    <2>4. QED BY <1>2, <2>2, <2>3 DEF send_request, TypeOK, FdOf, queueVars, dataVars, loopVars
<1>3. ASSUME NEW c \in Client, read_reply(c)
      PROVE  TypeOK'
    BY <1>3 DEF read_reply, TypeOK, dataVars, loopVars
<1>4. ASSUME NEW c \in Client, client_exit(c)
      PROVE  TypeOK'
    BY <1>4 DEF client_exit, TypeOK, FdOf, dataVars, loopVars
<1>5. QED BY <1>1, <1>2, <1>3, <1>4 DEF Clients

\* Reading and processing a request keeps the type invariant.
LEMMA ReadKeepsTypes ==
    ASSUME TypeOK, NEW f \in Fd, read_request(f)
    PROVE  TypeOK'
<1> DEFINE c == conn[f]
           id == Head(inq[c])
           J == [id : ReqId, fd : Fd]
<1>1. c \in Client /\ inq[c] \in Seq(ReqId) /\ inq[c] # <<>>
    BY DEF TypeOK, read_request
<1>2. id \in ReqId
    BY <1>1
<1>3. PICK out \in process_request(id, db, arr) :
          /\ db' = out.db
          /\ arr' = out.arr
          /\ \/ /\ out.ret = "reply"
                /\ send_reply(f, id, out.reply)
                /\ pc' = IF SigPipe(f) THEN "down" ELSE pc
                /\ UNCHANGED pending
             \/ /\ out.ret = "blocked"
                /\ pending' = addto_pending(id, f)
                /\ UNCHANGED <<queueVars, pc>>
             \/ /\ out.ret = "down"
                /\ pc' = "down"
                /\ UNCHANGED <<queueVars, pending>>
    BY DEF read_request
<1>4. OutcomeOK(out)
    BY <1>2, <1>3, ProcessRequestOK DEF TypeOK
<1>5. /\ replies' \in [ReqId -> Seq(ReplyType)]
      /\ outq' \in [Client -> Seq(ReqId)]
      /\ peer' \in [Client -> {"open", "fin", "rst", "pipe"}]
    <2>1. CASE UNCHANGED queueVars
        BY <2>1 DEF queueVars, TypeOK
    <2>2. CASE send_reply(f, id, out.reply)
        BY <1>2, <1>4, <2>2, SendKeepsTypes DEF OutcomeOK
    <2>3. QED BY <1>3, <2>1, <2>2
<1>6. /\ pending' \in Seq(J)
      /\ walk \in 1..(Len(pending') + 1)
    <2>1. CASE UNCHANGED pending
        BY <2>1 DEF TypeOK
    <2>2. CASE pending' = addto_pending(id, f)
        <3>1. [id |-> id, fd |-> f] \in J
            BY <1>2
        <3> HIDE DEF J
        <3>2. <<[id |-> id, fd |-> f]>> \in Seq(J) /\ Len(<<[id |-> id, fd |-> f]>>) = 1
            BY <3>1
        <3>3. pending \in Seq(J) /\ Len(pending) \in Nat /\ walk \in 1..(Len(pending) + 1)
            BY DEF TypeOK, J
        <3>4. pending' \in Seq(J) /\ Len(pending') = Len(pending) + 1
            BY <2>2, <3>2, <3>3, ConcatProperties DEF addto_pending
        <3>5. QED BY <3>3, <3>4
    <2>3. QED BY <1>3, <2>1, <2>2
<1>7. pc' \in {"poll", "events", "jobs", "down"}
    BY <1>3 DEF TypeOK
<1>8. KeyspaceOK(db') /\ arr' \in Seq(CellType)
    BY <1>3, <1>4 DEF OutcomeOK
<1>9. /\ inq' = [inq EXCEPT ![c] = <<>>]
      /\ cur' = f /\ batch' = batch
      /\ UNCHANGED <<cstate, sent, asked, backlog, conn, ready, walk, fed>>
    BY DEF read_request, HandlerGoesOn, clientVars
<1>10. inq' \in [Client -> Seq(ReqId)] /\ cur' \in Fd \cup {Listen, NoConn}
    BY <1>1, <1>9 DEF TypeOK
<1>11. QED BY <1>5, <1>6, <1>7, <1>8, <1>9, <1>10 DEF TypeOK

\* No step of the server breaks the type invariant.
LEMMA ServerKeepsTypes ==
    ASSUME TypeOK, Server
    PROVE  TypeOK'
<1>1. CASE epoll_wait
    BY <1>1 DEF epoll_wait, TypeOK, clientVars, queueVars, dataVars
<1>2. CASE accept_connection
    <2>1. FreeFd # {} => LowestFree \in Fd
        BY LowestFreeIs DEF FreeFd
    <2>2. backlog # <<>> => Head(backlog) \in Client /\ Tail(backlog) \in Seq(Client)
        BY DEF TypeOK
    <2>3. /\ conn' \in [Fd -> Client \cup {NoConn}]
          /\ cstate' \in [Client -> {"off", "connecting", "idle", "waiting", "gone"}]
          /\ backlog' \in Seq(Client)
        <3>1. CASE backlog # <<>> /\ FreeFd # {}
            <4>1. /\ conn' = [conn EXCEPT ![LowestFree] = Head(backlog)]
                  /\ cstate' = [cstate EXCEPT ![Head(backlog)] = "idle"]
                  /\ backlog' = Tail(backlog)
                BY <1>2, <3>1 DEF accept_connection
            <4>2. conn \in [Fd -> Client \cup {NoConn}] /\ cstate \in [Client -> {"off", "connecting", "idle", "waiting", "gone"}]
                BY DEF TypeOK
            <4>3. QED BY <2>1, <2>2, <3>1, <4>1, <4>2
        <3>2. CASE backlog = <<>> \/ FreeFd = {}
            <4>1. UNCHANGED <<conn, cstate, backlog>>
                BY <1>2, <3>2 DEF accept_connection
            <4>2. QED BY <4>1 DEF TypeOK
        <3>3. QED BY <3>1, <3>2
    <2>4. batch' \subseteq Fd \cup {Listen} /\ cur' \in Fd \cup {Listen, NoConn}
        BY <1>2 DEF accept_connection, HandlerGoesOn, HandlerReturns, TypeOK
    <2>5. UNCHANGED <<sent, asked, outq, peer, replies, inq, ready, db, arr, pending, pc, walk, fed>>
        BY <1>2 DEF accept_connection, queueVars, dataVars
    <2>6. QED BY <2>3, <2>4, <2>5 DEF TypeOK
<1>3. ASSUME NEW f \in Fd, process_in_data(f)
      PROVE  TypeOK'
    <2>1. CASE read_request(f)
        BY <2>1, ReadKeepsTypes
    <2>2. CASE read_fails(f)
        <3>1. conn[f] \in Client
            BY <2>2 DEF read_fails, TypeOK
        <3>2. QED BY <2>2, <3>1 DEF read_fails, HandlerReturns, TypeOK, clientVars, dataVars
    <2>3. CASE disconnected(f)
        BY <2>3 DEF disconnected, HandlerReturns, TypeOK, clientVars, queueVars, dataVars
    <2>4. QED BY <1>3, <2>1, <2>2, <2>3 DEF process_in_data
<1>4. CASE events_done
    <2>1. Len(pending) \in Nat
        BY DEF TypeOK
    <2>2. QED BY <1>4, <2>1 DEF events_done, TypeOK, clientVars, queueVars, dataVars
<1>5. CASE job_timeout
    <2>1. Refill(arr, <<NilCell>>) \in Seq(CellType) /\ Reply("none", <<>>) \in Replies
        BY DEF Refill, NilCell, Cell, CellType, Item, Reply, Replies
    <2>2. KeyspaceOK(db)
        BY DEF TypeOK
    <2>3. FinishJob(db, Refill(arr, <<NilCell>>), Reply("none", <<>>)) /\ pc = "jobs" /\ walk <= Len(pending)
        BY <1>5 DEF job_timeout
    <2>4. /\ KeyspaceOK(db')
          /\ arr' \in Seq(CellType)
          /\ pending' \in Seq([id : ReqId, fd : Fd])
          /\ walk' \in 1..(Len(pending') + 1)
          /\ pc' \in {"poll", "events", "jobs", "down"}
          /\ replies' \in [ReqId -> Seq(ReplyType)]
          /\ outq' \in [Client -> Seq(ReqId)]
          /\ peer' \in [Client -> {"open", "fin", "rst", "pipe"}]
        BY <2>1, <2>2, <2>3, FinishKeepsTypes
    <2>5. QED BY <1>5, <2>4 DEF job_timeout, TypeOK, clientVars
<1>6. CASE job_attempt
    <2>1. walk \in 1..Len(pending) /\ pending[walk].id \in ReqId
        <3>1. walk \in 1..(Len(pending) + 1) /\ Len(pending) \in Nat
            BY DEF TypeOK
        <3>2. walk \in 1..Len(pending)
            BY <1>6, <3>1 DEF job_attempt
        <3>3. QED BY <3>2, JobIs
    <2>2. PICK out \in process_request(pending[walk].id, db, arr) :
             \/ /\ out.ret = "reply"
                /\ FinishJob(out.db, out.arr, out.reply)
                /\ fed' = fed \cup Created(asked[pending[walk].id])
             \/ /\ out.ret = "blocked"
                /\ db' = out.db
                /\ arr' = out.arr
                /\ walk' = walk + 1
                /\ UNCHANGED <<queueVars, pending, pc, fed>>
             \/ /\ out.ret = "down"
                /\ db' = out.db
                /\ arr' = out.arr
                /\ pc' = "down"
                /\ UNCHANGED <<queueVars, pending, walk, fed>>
        BY <1>6 DEF job_attempt
    <2>3. OutcomeOK(out)
        BY <2>1, <2>2, ProcessRequestOK DEF TypeOK
    <2>4. CASE out.ret = "reply"
        <3>1. pc = "jobs" /\ walk <= Len(pending) /\ FinishJob(out.db, out.arr, out.reply)
            BY <1>6, <2>2, <2>4 DEF job_attempt
        <3>2. /\ KeyspaceOK(db')
              /\ arr' \in Seq(CellType)
              /\ pending' \in Seq([id : ReqId, fd : Fd])
              /\ walk' \in 1..(Len(pending') + 1)
              /\ pc' \in {"poll", "events", "jobs", "down"}
              /\ replies' \in [ReqId -> Seq(ReplyType)]
              /\ outq' \in [Client -> Seq(ReqId)]
              /\ peer' \in [Client -> {"open", "fin", "rst", "pipe"}]
            BY <2>3, <3>1, FinishKeepsTypes DEF OutcomeOK
        <3>3. fed' \subseteq Key
            BY <2>1, <2>2, <2>4, CreatedIsKey DEF TypeOK
        <3>4. QED BY <1>6, <3>2, <3>3 DEF job_attempt, TypeOK, clientVars
    <2>5. CASE out.ret # "reply"
        <3>1. walk \in 1..Len(pending) /\ Len(pending) \in Nat
            BY <1>6 DEF job_attempt, TypeOK
        <3>2. walk' \in 1..(Len(pending') + 1)
            BY <2>2, <2>5, <3>1
        <3>3. QED BY <1>6, <2>2, <2>3, <2>5, <3>2
                  DEF job_attempt, TypeOK, OutcomeOK, clientVars, queueVars
    <2>6. QED BY <2>4, <2>5
<1>7. CASE jobs_done
    BY <1>7 DEF jobs_done, TypeOK, clientVars, queueVars, dataVars
<1>8. QED BY <1>1, <1>2, <1>3, <1>4, <1>5, <1>6, <1>7 DEF Server

\* The type invariant is inductive.
LEMMA TypesKept == TypeOK /\ [Next]_vars => TypeOK'
<1>1. CASE UNCHANGED vars
    BY <1>1 DEF vars, TypeOK
<1>2. QED BY <1>1, ClientsKeepTypes, ServerKeepsTypes DEF Next

\* Every variable keeps its type, whatever clients ask and however many there
\* are: the keyspace stays well formed, the walk of do_hanging_jobs stays within
\* the list of jobs, and the reply array holds only what addto_reply_arr put there.
THEOREM TypeCorrect == Spec => []TypeOK
    BY InitTypes, TypesKept, PTL DEF Spec

-----------------------------------------------------------------------------
(* One answer to each request *)

AnswerInv == TypeOK /\ IdsSent /\ AnsweredOnce

\* Steps that neither send, read, hang nor answer a request keep AnswerInv.
LEMMA IdleKeepsAnswers ==
    ASSUME IdsSent, AnsweredOnce, UNCHANGED <<sent, inq, pending, replies>>
    PROVE  IdsSent' /\ AnsweredOnce'
<1>1. IdsSent'
    BY DEF IdsSent
<1>2. \A id \in ReqId : (id \in Hanging' <=> id \in Hanging) /\ (id \in Unread' <=> id \in Unread)
    BY DEF Hanging, Unread
<1>3. QED BY <1>1, <1>2 DEF AnsweredOnce

\* send_reply appends one reply to those of its request.
LEMMA SendAnswers ==
    ASSUME TypeOK, NEW f \in Fd, NEW id \in ReqId, NEW reply, send_reply(f, id, reply)
    PROVE  /\ \A x \in ReqId \ {id} : replies'[x] = replies[x]
           /\ replies'[id] # <<>>
           /\ replies[id] = <<>> => Len(replies'[id]) = 1
<1> DEFINE c == conn[f]
           arrives == c # NoConn /\ peer[c] = "open"
           written == [to |-> IF arrives THEN c ELSE NoConn, hung |-> pc = "jobs",
                       type |-> reply.type, val |-> reply.val]
<1>1. replies' = [replies EXCEPT ![id] = Append(@, written)]
    BY DEF send_reply
<1> HIDE DEF written
<1>2. replies'[id] = Append(replies[id], written) /\ \A x \in ReqId \ {id} : replies'[x] = replies[x]
    BY <1>1 DEF TypeOK
<1>3. replies[id] \in Seq(ReplyType)
    BY DEF TypeOK
<1>4. Len(Append(replies[id], written)) = Len(replies[id]) + 1 /\ Len(replies[id]) \in Nat
    BY <1>3
<1>5. Append(replies[id], written) # <<>>
    BY <1>4
<1>6. QED BY <1>2, <1>4, <1>5

\* What process_in_data does with a request, seen from its answers.
LEMMA ReadKeepsAnswers ==
    ASSUME AnswerInv, NEW f \in Fd, read_request(f)
    PROVE  IdsSent' /\ AnsweredOnce'
<1> DEFINE c == conn[f]
           id == Head(inq[c])
           job == [id |-> id, fd |-> f]
<1>1. c \in Client /\ inq[c] \in Seq(ReqId) /\ inq[c] # <<>>
    BY DEF AnswerInv, TypeOK, read_request
<1>2. 1 \in DOMAIN inq[c] /\ id = inq[c][1] /\ id \in ReqId
    BY <1>1
<1>3. id \in Unread /\ id[1] = c /\ id[2] <= sent[id[1]]
    BY <1>1, <1>2 DEF Unread, AnswerInv, IdsSent
<1>4. replies[id] = <<>> /\ id \notin Hanging
    BY <1>2, <1>3 DEF AnswerInv, AnsweredOnce
<1>5. UNCHANGED sent /\ inq' = [inq EXCEPT ![c] = <<>>]
    BY DEF read_request, clientVars
<1>6. \A x \in Client : inq'[x] = IF x = c THEN <<>> ELSE inq[x]
    BY <1>1, <1>5 DEF AnswerInv, TypeOK
<1>7. id \notin Unread' /\ \A x \in ReqId : x \in Unread' => x \in Unread
    BY <1>3, <1>6 DEF Unread, AnswerInv, IdsSent
<1>8. \A x \in Client : \A n \in DOMAIN inq'[x] : inq'[x][n][1] = x /\ inq'[x][n][2] <= sent'[x]
    BY <1>5, <1>6 DEF AnswerInv, IdsSent
<1> HIDE DEF id
<1>9. CASE /\ \E reply : send_reply(f, id, reply)
           /\ UNCHANGED pending
    <2>1. /\ \A x \in ReqId \ {id} : replies'[x] = replies[x]
          /\ Len(replies'[id]) = 1
        BY <1>2, <1>4, <1>9, SendAnswers DEF AnswerInv
    <2>2. \A x \in ReqId : x \in Hanging' <=> x \in Hanging
        BY <1>9 DEF Hanging
    <2>3. IdsSent'
        BY <1>3, <1>5, <1>8, <1>9, <2>1 DEF AnswerInv, IdsSent
    <2>4. ASSUME NEW x \in ReqId
          PROVE  /\ Len(replies'[x]) <= 1
                 /\ x \in Hanging' \cup Unread' => replies'[x] = <<>>
                 /\ x \notin Hanging' \cap Unread'
        <3>1. Len(replies'[x]) <= 1
            <4>1. Len(replies[x]) <= 1
                BY DEF AnswerInv, AnsweredOnce
            <4>2. CASE x = id
                <5>1. Len(replies'[x]) = 1
                    BY <2>1, <4>2
                <5>2. QED BY <5>1
            <4>3. CASE x # id
                <5>1. replies'[x] = replies[x]
                    BY <2>1, <4>3
                <5>2. QED BY <4>1, <5>1
            <4>4. QED BY <4>2, <4>3
        <3>2. /\ x \in Hanging \cup Unread => replies[x] = <<>>
              /\ x \notin Hanging \cap Unread
            BY DEF AnswerInv, AnsweredOnce
        <3>3. /\ x \in Hanging' \cup Unread' => replies'[x] = <<>>
              /\ x \notin Hanging' \cap Unread'
            BY <1>4, <1>7, <2>1, <2>2, <3>2
        <3>4. QED BY <3>1, <3>3
    <2>5. QED BY <1>9, <2>3, <2>4 DEF AnswerInv, AnsweredOnce
<1>10. CASE UNCHANGED <<replies, pending>>
    <2>1. \A x \in ReqId : x \in Hanging' <=> x \in Hanging
        BY <1>10 DEF Hanging
    <2>2. QED BY <1>5, <1>7, <1>8, <1>10, <2>1 DEF AnswerInv, IdsSent, AnsweredOnce
<1>11. CASE UNCHANGED replies /\ pending' = addto_pending(id, f)
    <2> DEFINE J == [id : ReqId, fd : Fd]
    <2>1. pending \in Seq(J) /\ Len(pending) \in Nat /\ job \in J
        BY <1>2 DEF AnswerInv, TypeOK
    <2> HIDE DEF J, job
    <2>2. /\ Len(pending') = Len(pending) + 1
          /\ DOMAIN pending' = 1..(Len(pending) + 1)
          /\ \A i \in DOMAIN pending' : pending'[i] = IF i = 1 THEN job ELSE pending[i - 1]
        <3>1. pending' = <<job>> \o pending
            BY <1>11 DEF addto_pending, job
        <3>2. <<job>> \in Seq(J) /\ Len(<<job>>) = 1 /\ <<job>>[1] = job
            BY <2>1
        <3>3. QED BY <2>1, <3>1, <3>2, ConcatProperties
    <2>3. job.id = id /\ DOMAIN pending = 1..Len(pending)
        BY <2>1 DEF job
    <2>4. \A i \in DOMAIN pending' \ {1} : i - 1 \in DOMAIN pending /\ pending'[i] = pending[i - 1]
        BY <2>1, <2>2, <2>3
    <2>5. pending'[1] = job
        BY <2>1, <2>2
    <2>6. \A x \in ReqId : x \in Hanging' => x \in Hanging \/ x = id
        BY <2>3, <2>4, <2>5 DEF Hanging
    <2>7. \A i \in DOMAIN pending' : pending'[i].id[2] <= sent'[pending'[i].id[1]]
        BY <1>3, <1>5, <2>3, <2>4, <2>5 DEF AnswerInv, IdsSent
    <2>8. IdsSent'
        BY <1>5, <1>8, <1>11, <2>7 DEF AnswerInv, IdsSent
    <2>9. ASSUME NEW i \in DOMAIN pending', NEW j \in DOMAIN pending',
                 pending'[i].id = pending'[j].id
          PROVE  i = j
        <3>1. CASE i = 1 \/ j = 1
            BY <1>2, <1>4, <2>3, <2>4, <2>5, <2>9, <3>1 DEF Hanging
        <3>2. CASE i # 1 /\ j # 1
            <4>1. i - 1 = j - 1
                BY <2>4, <2>9, <3>2 DEF AnswerInv, AnsweredOnce
            <4>2. QED BY <2>1, <2>2, <4>1
        <3>3. QED BY <3>1, <3>2
    <2>10. ASSUME NEW x \in ReqId
          PROVE  /\ Len(replies'[x]) <= 1
                 /\ x \in Hanging' \cup Unread' => replies'[x] = <<>>
                 /\ x \notin Hanging' \cap Unread'
        <3>1. Len(replies'[x]) <= 1
            BY <1>4, <1>7, <1>11, <2>6 DEF AnswerInv, AnsweredOnce
        <3>2. /\ x \in Hanging \cup Unread => replies[x] = <<>>
              /\ x \notin Hanging \cap Unread
            BY DEF AnswerInv, AnsweredOnce
        <3>3. /\ x \in Hanging' \cup Unread' => replies'[x] = <<>>
              /\ x \notin Hanging' \cap Unread'
            BY <1>4, <1>7, <1>11, <2>6, <3>2
        <3>4. QED BY <3>1, <3>3
    <2>11. QED BY <2>8, <2>9, <2>10 DEF AnsweredOnce
<1>12. QED BY <1>9, <1>10, <1>11 DEF read_request, queueVars, id

\* The job at the walk of do_hanging_jobs is taken out of the list, and the
\* other jobs stay in their order.
LEMMA UnlinkIs ==
    ASSUME TypeOK, walk <= Len(pending), pending' = Unlink(pending, walk)
    PROVE  /\ walk \in DOMAIN pending
           /\ DOMAIN pending' = 1..(Len(pending) - 1)
           /\ \A i \in DOMAIN pending' :
                 LET o == IF i < walk THEN i ELSE i + 1
                 IN  o \in DOMAIN pending /\ o # walk /\ pending'[i] = pending[o]
<1> DEFINE J == [id : ReqId, fd : Fd]
<1>1. pending \in Seq(J) /\ Len(pending) \in Nat /\ walk \in 1..Len(pending)
    BY DEF TypeOK
<1> HIDE DEF J
<1>2. /\ pending' \in Seq(J)
      /\ Len(pending') = Len(pending) - 1
      /\ \A i \in 1..(Len(pending) - 1) :
            pending'[i] = IF i < walk THEN pending[i] ELSE pending[i + 1]
    BY <1>1, RemoveAtIs DEF Unlink
<1>3. DOMAIN pending = 1..Len(pending) /\ DOMAIN pending' = 1..(Len(pending) - 1)
    BY <1>1, <1>2
<1>4. ASSUME NEW i \in DOMAIN pending'
      PROVE  LET o == IF i < walk THEN i ELSE i + 1
             IN  o \in DOMAIN pending /\ o # walk /\ pending'[i] = pending[o]
    BY <1>1, <1>2, <1>3
<1>5. QED BY <1>1, <1>3, <1>4

\* What do_hanging_jobs does with a job that is done, seen from its answers.
LEMMA FinishKeepsAnswers ==
    ASSUME AnswerInv, walk <= Len(pending), UNCHANGED <<sent, inq>>,
           NEW d, NEW a, NEW current, FinishJob(d, a, current)
    PROVE  IdsSent' /\ AnsweredOnce'
<1> DEFINE id == pending[walk].id
           Old(i) == IF i < walk THEN i ELSE i + 1
<1>1. TypeOK
    BY DEF AnswerInv
<1>2. /\ walk \in DOMAIN pending
      /\ DOMAIN pending' = 1..(Len(pending) - 1)
      /\ \A i \in DOMAIN pending' :
            Old(i) \in DOMAIN pending /\ Old(i) # walk /\ pending'[i] = pending[Old(i)]
    BY <1>1, UnlinkIs DEF FinishJob
<1>3. id \in ReqId /\ pending[walk].fd \in Fd
    <2>1. walk \in 1..Len(pending)
        BY <1>1 DEF AnswerInv, TypeOK
    <2>2. QED BY <1>1, <2>1, JobIs
<1>4. id \in Hanging /\ replies[id] = <<>> /\ id \notin Unread /\ id[2] <= sent[id[1]]
    BY <1>2, <1>3 DEF AnswerInv, AnsweredOnce, IdsSent, Hanging
<1>5. \A i, j \in DOMAIN pending' : Old(i) = Old(j) => i = j
    <2>1. walk \in Nat /\ Len(pending) \in Nat
        BY <1>1 DEF TypeOK
    <2>2. QED BY <1>2, <2>1
<1> HIDE DEF Old, id
<1>6. /\ id \notin Hanging'
      /\ \A x \in ReqId : x \in Hanging' => x \in Hanging
      /\ \A x \in ReqId : x \in Unread' <=> x \in Unread
    BY <1>2 DEF AnswerInv, AnsweredOnce, Hanging, Unread, id
<1>7. \A i, j \in DOMAIN pending' : pending'[i].id = pending'[j].id => i = j
    BY <1>2, <1>5 DEF AnswerInv, AnsweredOnce
<1>8. /\ \A i \in DOMAIN pending' : pending'[i].id[2] <= sent'[pending'[i].id[1]]
      /\ \A c \in Client : \A n \in DOMAIN inq'[c] :
            inq'[c][n][1] = c /\ inq'[c][n][2] <= sent'[c]
    BY <1>2 DEF AnswerInv, IdsSent
<1>9. CASE UNCHANGED replies
    <2>1. IdsSent'
        BY <1>8, <1>9 DEF AnswerInv, IdsSent
    <2>2. ASSUME NEW x \in ReqId
          PROVE  /\ Len(replies'[x]) <= 1
                 /\ x \in Hanging' \cup Unread' => replies'[x] = <<>>
                 /\ x \notin Hanging' \cap Unread'
        <3>1. Len(replies'[x]) <= 1
            BY <1>6, <1>9 DEF AnswerInv, AnsweredOnce
        <3>2. /\ x \in Hanging \cup Unread => replies[x] = <<>>
              /\ x \notin Hanging \cap Unread
            BY DEF AnswerInv, AnsweredOnce
        <3>3. /\ x \in Hanging' \cup Unread' => replies'[x] = <<>>
              /\ x \notin Hanging' \cap Unread'
            BY <1>6, <1>9, <3>2
        <3>4. QED BY <3>1, <3>3
    <2>3. QED BY <1>7, <2>1, <2>2 DEF AnsweredOnce
<1>10. CASE \E reply : send_reply(pending[walk].fd, id, reply)
    <2>1. /\ \A x \in ReqId \ {id} : replies'[x] = replies[x]
          /\ Len(replies'[id]) = 1
        BY <1>1, <1>3, <1>4, <1>10, SendAnswers
    <2>2. \A x \in ReqId : replies'[x] # <<>> => x[2] <= sent'[x[1]]
        BY <1>4, <2>1 DEF AnswerInv, IdsSent
    <2>3. IdsSent'
        BY <1>8, <2>2 DEF IdsSent
    <2>4. ASSUME NEW x \in ReqId
          PROVE  /\ Len(replies'[x]) <= 1
                 /\ x \in Hanging' \cup Unread' => replies'[x] = <<>>
                 /\ x \notin Hanging' \cap Unread'
        <3>1. Len(replies'[x]) <= 1
            <4>1. Len(replies[x]) <= 1
                BY DEF AnswerInv, AnsweredOnce
            <4>2. CASE x = id
                <5>1. Len(replies'[x]) = 1
                    BY <2>1, <4>2
                <5>2. QED BY <5>1
            <4>3. CASE x # id
                <5>1. replies'[x] = replies[x]
                    BY <2>1, <4>3
                <5>2. QED BY <4>1, <5>1
            <4>4. QED BY <4>2, <4>3
        <3>2. /\ x \in Hanging \cup Unread => replies[x] = <<>>
              /\ x \notin Hanging \cap Unread
            BY DEF AnswerInv, AnsweredOnce
        <3>3. /\ x \in Hanging' \cup Unread' => replies'[x] = <<>>
              /\ x \notin Hanging' \cap Unread'
            BY <1>4, <1>6, <2>1, <3>2
        <3>4. QED BY <3>1, <3>3
    <2>5. QED BY <1>7, <2>3, <2>4 DEF AnsweredOnce
<1>11. QED BY <1>9, <1>10 DEF FinishJob, queueVars, id

\* A request is sent under an id that is new.
LEMMA SendKeepsAnswers ==
    ASSUME AnswerInv, NEW c \in Client, NEW r, send_request(c, r)
    PROVE  IdsSent' /\ AnsweredOnce'
<1> DEFINE id == <<c, sent[c] + 1>>
<1>1. sent \in [Client -> Int] /\ inq \in [Client -> Seq(ReqId)]
    BY DEF AnswerInv, TypeOK
<1>2. /\ sent' = [sent EXCEPT ![c] = @ + 1]
      /\ inq' = [inq EXCEPT ![c] = Append(@, id)]
      /\ UNCHANGED <<pending, replies>>
    BY DEF send_request, queueVars, dataVars
<1>3. /\ \A x \in Client : sent'[x] = IF x = c THEN sent[x] + 1 ELSE sent[x]
      /\ \A x \in Client \ {c} : inq'[x] = inq[x]
      /\ DOMAIN inq'[c] = 1..(Len(inq[c]) + 1)
      /\ \A n \in DOMAIN inq'[c] : inq'[c][n] = IF n <= Len(inq[c]) THEN inq[c][n] ELSE id
    <2>1. inq'[c] = Append(inq[c], id) /\ inq[c] \in Seq(ReqId) /\ Len(inq[c]) \in Nat
        BY <1>1, <1>2
    <2>2. QED BY <1>1, <1>2, <2>1
<1>4. Len(inq[c]) \in Nat /\ DOMAIN inq[c] = 1..Len(inq[c])
    BY <1>1
<1>5. \A n \in DOMAIN inq'[c] : (n \in DOMAIN inq[c] /\ inq'[c][n] = inq[c][n]) \/ inq'[c][n] = id
    BY <1>3, <1>4
<1>6. \A i \in DOMAIN pending : pending[i].id \in ReqId
    BY JobsAre DEF AnswerInv
<1>7. \A x \in ReqId : x[1] \in Client /\ x[2] \in Int
    BY ConstantsAssumption DEF ReqId
<1>8. replies[id] = <<>> \/ id \notin ReqId
    BY <1>1, <1>7 DEF AnswerInv, IdsSent
<1>9. \A x \in ReqId : x \in Hanging => x[2] <= sent[x[1]]
    BY DEF AnswerInv, IdsSent, Hanging
<1>10. id \notin Hanging \/ id \notin ReqId
    BY <1>1, <1>9
<1>11. ASSUME NEW x \in ReqId
       PROVE  (x \in Hanging' <=> x \in Hanging) /\ (x \in Unread' => x \in Unread \/ x = id)
    BY <1>2, <1>3, <1>5 DEF Hanging, Unread
<1>12. ASSUME NEW x \in Client, NEW n \in DOMAIN inq'[x]
       PROVE  inq'[x][n][1] = x /\ inq'[x][n][2] <= sent'[x]
    <2>1. CASE x # c
        BY <1>3, <2>1 DEF AnswerInv, IdsSent
    <2>2. CASE x = c /\ inq'[c][n] = id
        BY <1>1, <1>3, <2>2
    <2>3. CASE x = c /\ n \in DOMAIN inq[c] /\ inq'[c][n] = inq[c][n]
        <3>1. inq[c][n] \in ReqId /\ inq[c][n][2] <= sent[c] /\ inq[c][n][1] = c
            BY <1>1, <2>3 DEF AnswerInv, IdsSent
        <3>2. QED BY <1>1, <1>3, <1>7, <2>3, <3>1
    <2>4. QED BY <1>5, <2>1, <2>2, <2>3
<1>13. ASSUME NEW x \in ReqId, x[2] <= sent[x[1]]
       PROVE  x[2] <= sent'[x[1]]
    <2>1. x[1] \in Client /\ x[2] \in Int /\ sent[x[1]] \in Int
        BY <1>1, <1>7
    <2>2. sent'[x[1]] = sent[x[1]] \/ sent'[x[1]] = sent[x[1]] + 1
        BY <1>3, <2>1
    <2>3. QED BY <1>13, <2>1, <2>2
<1>14. IdsSent'
    BY <1>2, <1>6, <1>12, <1>13 DEF AnswerInv, IdsSent
<1>15. AnsweredOnce'
    <2>1. ASSUME NEW x \in ReqId
          PROVE  /\ Len(replies'[x]) <= 1
                 /\ x \in Hanging' \cup Unread' => replies'[x] = <<>>
                 /\ x \notin Hanging' \cap Unread'
        <3>1. Len(replies'[x]) <= 1
            BY <1>2, <1>8, <1>10, <1>11 DEF AnswerInv, AnsweredOnce
        <3>2. /\ x \in Hanging \cup Unread => replies[x] = <<>>
              /\ x \notin Hanging \cap Unread
            BY DEF AnswerInv, AnsweredOnce
        <3>3. /\ x \in Hanging' \cup Unread' => replies'[x] = <<>>
              /\ x \notin Hanging' \cap Unread'
            BY <1>2, <1>8, <1>10, <1>11, <3>2
        <3>4. QED BY <3>1, <3>3
    <2>2. QED BY <1>2, <2>1 DEF AnswerInv, AnsweredOnce
<1>16. QED BY <1>14, <1>15

\* The invariant behind AnsweredOnce is inductive.
LEMMA AnswersKept == AnswerInv /\ [Next]_vars => AnswerInv'
<1> SUFFICES ASSUME AnswerInv, [Next]_vars
             PROVE  IdsSent' /\ AnsweredOnce'
    BY TypesKept DEF AnswerInv
<1>1. CASE UNCHANGED <<sent, inq, pending, replies>>
    BY <1>1, IdleKeepsAnswers DEF AnswerInv
<1>2. CASE UNCHANGED vars
    BY <1>1, <1>2 DEF vars
<1>3. CASE Clients
    <2>1. ASSUME NEW c \in Client, NEW r \in Request, send_request(c, r)
          PROVE  IdsSent' /\ AnsweredOnce'
        BY <2>1, SendKeepsAnswers
    <2>2. QED BY <1>1, <1>3, <2>1
              DEF Clients, connect_server, read_reply, client_exit, queueVars, dataVars
<1>4. CASE Server
    <2>1. CASE epoll_wait \/ accept_connection \/ events_done \/ jobs_done
        BY <1>1, <2>1 DEF epoll_wait, accept_connection, events_done, jobs_done,
                          clientVars, queueVars, dataVars
    <2>2. ASSUME NEW f \in Fd, process_in_data(f)
          PROVE  IdsSent' /\ AnsweredOnce'
        BY <1>1, <2>2, ReadKeepsAnswers
           DEF process_in_data, read_fails, disconnected, clientVars, queueVars, dataVars
    <2>3. CASE job_timeout
        <3>1. /\ walk <= Len(pending)
              /\ UNCHANGED <<sent, inq>>
              /\ FinishJob(db, Refill(arr, <<NilCell>>), Reply("none", <<>>))
            BY <2>3 DEF job_timeout, clientVars
        <3>2. QED BY <3>1, FinishKeepsAnswers
    <2>4. CASE job_attempt
        <3>1. walk <= Len(pending) /\ UNCHANGED <<sent, inq>>
            BY <2>4 DEF job_attempt, clientVars
        <3>2. CASE \E out : FinishJob(out.db, out.arr, out.reply)
            BY <3>1, <3>2, FinishKeepsAnswers
        <3>3. CASE UNCHANGED <<pending, replies>>
            BY <1>1, <3>1, <3>3
        <3>4. QED BY <2>4, <3>2, <3>3 DEF job_attempt, queueVars
    <2>5. QED BY <1>4, <2>1, <2>2, <2>3, <2>4 DEF Server
<1>5. QED BY <1>2, <1>3, <1>4 DEF Next

\* It holds before main_loop.
LEMMA InitAnswers == Init => AnswerInv
<1> SUFFICES ASSUME Init
             PROVE  IdsSent /\ AnsweredOnce
    BY InitTypes DEF AnswerInv
<1>1. /\ \A c \in Client : inq[c] = <<>>
      /\ pending = <<>>
      /\ \A id \in ReqId : replies[id] = <<>>
    BY DEF Init
<1>2. IdsSent
    BY <1>1 DEF IdsSent
<1>3. QED BY <1>1, <1>2 DEF AnsweredOnce, Hanging, Unread

\* Whatever clients ask, exit and reconnect as, process_in_data and
\* do_hanging_jobs never answer one request twice, and never leave a request
\* both unread and hanging.
THEOREM AnswersOnce == Spec => []AnsweredOnce
<1>1. AnswerInv => AnsweredOnce
    BY DEF AnswerInv
<1>2. QED BY <1>1, AnswersKept, InitAnswers, PTL DEF Spec

-----------------------------------------------------------------------------
(* No wakeup is missed *)

\* An attempt leaves the keyspace as its command does, and blocks exactly if
\* the command does.
LEMMA AttemptIs ==
    ASSUME NEW id \in ReqId, NEW d, KeyspaceOK(d), NEW a \in Seq(CellType),
           asked[id] \in Request \cup {NoReq}, NEW out \in process_request(id, d, a)
    PROVE  /\ out.db = Command(d, id, asked[id]).db
           /\ out.ret = "blocked" => Command(d, id, asked[id]).ret = "blocked"
<1> DEFINE r == asked[id]
           res == Command(d, id, r)
           a2 == ArrayAfter(r, res, a)
<1>1. ResultOK(res) /\ (res.ret = "arr" /\ r.op \in Blocking => Len(res.val) = 1)
    BY CommandOK
<1>2. res.ret = "arr" => ArgsOK(r)
    BY DEF Command, Result
<1>3. a2 \in Seq(CellType)
    BY <1>1, <1>2, ArrayAfterOK
<1>4. OwnReplyOf(res) \in Replies \/ res.ret \in {"blocked", "crash", "doublefree"}
    <2>1. res.ret = "str" => res.val \in Seq(Item)
        BY <1>1, SeqMonotonic DEF ResultOK, Item
    <2>2. <<>> \in Seq(Item)
        OBVIOUS
    <2>3. QED BY <1>1, <2>1, <2>2 DEF OwnReplyOf, Reply, Replies, ResultOK
<1>5. KeyspaceOK(res.db)
    BY <1>1 DEF ResultOK
<1> HIDE DEF res, a2
<1>6. CASE res.ret \in {"crash", "doublefree"}
    <2>1. out = Down(res.db, a)
        BY <1>6 DEF process_request, res
    <2>2. QED BY <2>1 DEF Down, Outcome, res
<1>7. CASE res.ret = "blocked"
    <2>1. out = Blocked(res.db, a2)
        BY <1>7 DEF process_request, res, a2
    <2>2. QED BY <1>7, <2>1 DEF Blocked, Outcome, res
<1>8. CASE res.ret \notin {"crash", "doublefree", "blocked"}
    <2>1. CASE r.op \in Blocking \/ res.ret = "arr"
        <3>1. out \in create_arr_reply(a2, res.db, OwnReplyOf(res))
            BY <1>8, <2>1 DEF process_request, res, a2
        <3>2. out.db = res.db /\ out.ret \in {"reply", "down"}
            BY <1>3, <1>4, <1>5, <1>8, <3>1, ArrayReplyOK
        <3>3. QED BY <3>2 DEF res
    <2>2. CASE ~(r.op \in Blocking \/ res.ret = "arr")
        <3>1. out = Outcome("reply", res.db, a2, OwnReplyOf(res))
            BY <1>8, <2>2 DEF process_request, res, a2
        <3>2. QED BY <3>1 DEF Outcome, res
    <2>3. QED BY <2>1, <2>2
<1>9. QED BY <1>6, <1>7, <1>8

\* A command that blocks is a blocking command, changes nothing, and finds none
\* of the keys it waits for.
LEMMA BlockedIs ==
    ASSUME NEW d, NEW id \in ReqId, NEW r \in Request \cup {NoReq},
           Command(d, id, r).ret = "blocked"
    PROVE  /\ r.op \in Blocking /\ ArgsOK(r)
           /\ Command(d, id, r).db = d
           /\ \A k \in WaitsFor(r) : Missing(d, k)
<1>1. ArgsOK(r)
    BY DEF Command, Result
<1>2. r.op \in Op \ {"invalid"} /\ r.keys \in Seq(Key)
    BY <1>1, ConstantsAssumption DEF NoReq, ArgsOK
<1>3. CASE r.op \in {"blpop", "brpop"}
    <2> DEFINE i == FirstPresent(d, r.keys)
    <2>1. CASE i = 0
        <3>1. \A j \in 1..Len(r.keys) : Missing(d, r.keys[j])
            BY <1>2, <2>1, FirstPresentIs
        <3>2. \A k \in ToSet(r.keys) : Missing(d, k)
            BY <1>2, <3>1 DEF ToSet
        <3>3. QED BY <1>1, <1>3, <2>1, <3>2
                  DEF Command, blpopbrpop_command, Result, WaitsFor, Blocking
    <2>2. CASE i # 0
        BY <1>1, <1>3, <2>2 DEF Command, blpopbrpop_command, Result
    <2>3. QED BY <2>1, <2>2
<1>4. CASE r.op = "brpoplpush"
    BY <1>1, <1>4 DEF Command, brpoplpush_command, PopPush, Result, WaitsFor, Blocking
<1>5. CASE r.op \notin Blocking
    <2>1. r.op \in {"rpoplpush", "lpop", "rpop", "lpush", "rpush", "lrange", "set", "del"}
        BY <1>2, <1>5 DEF Op, Blocking
    <2>2. QED BY <1>1, <2>1
              DEF Command, rpoplpush_command, PopPush, lpoprpop_command,
                  lpushrpush_command, lrange_command, set_command, del_command, Result
<1>6. QED BY <1>1, <1>3, <1>4, <1>5 DEF Blocking

\* A list that is taken from makes no other key appear.
LEMMA EndIfEmptyCreates ==
    ASSUME NEW d, KeyspaceOK(d), NEW k \in Key, NEW rmkey \in Key, NEW s,
           ~Missing(d, k), NEW x \in Key, Missing(d, x)
    PROVE  Missing(EndIfEmpty(d, k, s, rmkey), x)
    BY DEF KeyspaceOK, Missing, EndIfEmpty, dict_add, dict_rm, ListObj, NoObj

\* The only key a blocking command makes appear is the destination of
\* brpoplpush.
LEMMA BlockingCreates ==
    ASSUME NEW d, KeyspaceOK(d), NEW id \in ReqId, NEW r \in Request \cup {NoReq},
           r.op \in Blocking, NEW x \in Key, Missing(d, x)
    PROVE  Missing(Command(d, id, r).db, x) \/ x \in Created(r)
<1>1. CASE ~ArgsOK(r)
    BY <1>1 DEF Command, Result
<1>2. CASE ArgsOK(r)
    <2>1. r.keys \in Seq(Key) /\ Len(r.keys) \in Nat
        BY <1>2, ConstantsAssumption DEF NoReq, ArgsOK
    <2>2. CASE r.op \in {"blpop", "brpop"}
        <3> DEFINE i == FirstPresent(d, r.keys)
                   res(side) == blpopbrpop_command(d, side, r.keys)
        <3>1. ASSUME NEW side
              PROVE  Missing(res(side).db, x)
            <4>1. CASE i = 0
                BY <4>1 DEF blpopbrpop_command, Result
            <4>2. CASE i # 0
                <5>1. i \in 1..Len(r.keys) /\ ~Missing(d, r.keys[i])
                    BY <2>1, <4>2, FirstPresentIs
                <5>2. r.keys[i] \in Key /\ r.keys[1] \in Key
                    BY <2>1, <5>1
                <5> HIDE DEF i
                <5>3. Missing(EndIfEmpty(d, r.keys[i], list_rest(d[r.keys[i]].items, side), r.keys[1]), x)
                    BY <5>1, <5>2, EndIfEmptyCreates
                <5>4. QED BY <4>2, <5>3 DEF i, blpopbrpop_command, Result
            <4>3. QED BY <4>1, <4>2
        <3>2. QED BY <1>2, <2>2, <3>1 DEF Command
    <2>3. CASE r.op = "brpoplpush"
        <3> DEFINE src == r.keys[1]
                   dst == r.keys[2]
                   rest == list_rest(d[src].items, "right")
                   popped == EndIfEmpty(d, src, rest, src)
        <3>1. src \in Key /\ dst \in Key
            <4>1. Len(r.keys) = 2
                BY <1>2, <2>3 DEF ArgsOK
            <4>2. QED BY <2>1, <4>1
        <3>2. CASE Missing(d, src)
            BY <1>2, <2>3, <3>2 DEF Command, brpoplpush_command, Result
        <3>3. CASE ~Missing(d, src)
            <4>1. Missing(popped, x)
                BY <3>1, <3>3, EndIfEmptyCreates
            <4>2. Missing(dict_rm(d, src), x)
                BY <3>1 DEF dict_rm, Missing, NoObj, KeyspaceOK
            <4> HIDE DEF popped
            <4>3. ASSUME NEW obj, x # dst
                  PROVE  Missing(dict_add(popped, dst, obj), x)
                BY <3>1, <4>1, <4>3 DEF dict_add, Missing
            <4>4. CASE x = dst
                BY <1>2, <2>3, <4>4 DEF Created
            <4>5. CASE x # dst
                BY <1>2, <2>3, <3>3, <4>1, <4>2, <4>3, <4>5
                   DEF Command, brpoplpush_command, PopPush, Result, popped
            <4>6. QED BY <4>4, <4>5
        <3>4. QED BY <3>2, <3>3
    <2>4. QED BY <2>2, <2>3 DEF Blocking
<1>3. QED BY <1>1, <1>2

\* Only blocking commands whose arguments have been checked hang.
JobsBlock ==
    \A i \in DOMAIN pending :
        LET r == asked[pending[i].id] IN r.op \in Blocking /\ ArgsOK(r)

WalkInv == AnswerInv /\ JobsBlock /\ WalkedPast

\* Steps that change neither jobs nor keys, and at most move the loop from its
\* events to its jobs, keep WalkInv.
LEMMA IdleKeepsWalk ==
    ASSUME WalkInv, UNCHANGED <<asked, pending>>,
           \/ UNCHANGED <<db, fed, pc, walk>>
           \/ pc' \in {"events", "down"}
    PROVE  JobsBlock' /\ WalkedPast'
    BY DEF WalkInv, JobsBlock, WalkedPast, Quiet

\* The keys a request waits for are keys.
LEMMA WaitsForKeys ==
    ASSUME NEW r \in Request, r.op \in Blocking, ArgsOK(r)
    PROVE  WaitsFor(r) \subseteq Key
<1>1. r.keys \in Seq(Key) /\ Len(r.keys) \in Nat
    BY ConstantsAssumption
<1>2. r.op = "brpoplpush" => Len(r.keys) = 2
    BY DEF ArgsOK
<1>3. ToSet(r.keys) \subseteq Key
    BY <1>1 DEF ToSet
<1>4. QED BY <1>1, <1>2, <1>3 DEF WaitsFor

\* A request that is sent is not behind any job.
LEMMA SendKeepsWalk ==
    ASSUME WalkInv, NEW c \in Client, NEW r \in Request, send_request(c, r)
    PROVE  JobsBlock' /\ WalkedPast'
<1> DEFINE id == <<c, sent[c] + 1>>
<1>1. UNCHANGED <<pending, db, fed, pc, walk>> /\ asked' = [asked EXCEPT ![id] = r]
    BY DEF send_request, dataVars, loopVars
<1>2. sent[c] \in Int
    BY DEF WalkInv, AnswerInv, TypeOK
<1>3. ASSUME NEW i \in DOMAIN pending
      PROVE  asked'[pending[i].id] = asked[pending[i].id]
    <2>1. pending[i].id \in ReqId
        BY JobIs DEF WalkInv, AnswerInv, TypeOK
    <2>2. pending[i].id[2] <= sent[pending[i].id[1]]
        BY DEF WalkInv, AnswerInv, IdsSent
    <2>3. pending[i].id # id
        BY <1>2, <2>2
    <2>4. QED BY <1>1, <2>1, <2>3 DEF WalkInv, AnswerInv, TypeOK
<1>4. QED BY <1>1, <1>3 DEF WalkInv, JobsBlock, WalkedPast, Quiet

\* A request that is read and blocks is a blocking command; the walk is not
\* under way then.
LEMMA ReadKeepsWalk ==
    ASSUME WalkInv, NEW f \in Fd, read_request(f)
    PROVE  JobsBlock' /\ WalkedPast'
<1> DEFINE c == conn[f]
           id == Head(inq[c])
           job == [id |-> id, fd |-> f]
<1>1. TypeOK
    BY DEF WalkInv, AnswerInv
<1>2. c \in Client /\ inq[c] \in Seq(ReqId) /\ inq[c] # <<>>
    BY <1>1 DEF TypeOK, read_request
<1>3. id \in ReqId
    BY <1>2
<1>4. PICK out \in process_request(id, db, arr) :
          /\ db' = out.db
          /\ \/ out.ret = "blocked" /\ pending' = addto_pending(id, f)
             \/ UNCHANGED pending
    BY DEF read_request
<1>5. UNCHANGED asked
    BY DEF read_request, clientVars
<1>6. pc' \notin {"poll", "jobs"}
    BY DEF read_request, Handling
<1>7. JobsBlock'
    <2>1. CASE UNCHANGED pending
        BY <1>5, <2>1 DEF WalkInv, JobsBlock
    <2>2. CASE out.ret = "blocked" /\ pending' = addto_pending(id, f)
        <3> DEFINE J == [id : ReqId, fd : Fd]
        <3>1. asked[id].op \in Blocking /\ ArgsOK(asked[id])
            <4>1. /\ KeyspaceOK(db)
                  /\ arr \in Seq(CellType)
                  /\ asked[id] \in Request \cup {NoReq}
                BY <1>1, <1>3 DEF TypeOK
            <4> HIDE DEF id
            <4>2. Command(db, id, asked[id]).ret = "blocked"
                BY <1>3, <1>4, <2>2, <4>1, AttemptIs
            <4>3. QED BY <1>3, <4>1, <4>2, BlockedIs
        <3>2. pending \in Seq(J) /\ Len(pending) \in Nat /\ job \in J
            BY <1>1, <1>3 DEF TypeOK
        <3>3. job.id = id /\ DOMAIN pending = 1..Len(pending)
            BY <3>2
        <3> HIDE DEF J, job, id
        <3>4. \A i \in DOMAIN pending' :
                 \/ pending'[i] = job
                 \/ i - 1 \in DOMAIN pending /\ pending'[i] = pending[i - 1]
            <4>1. pending' = <<job>> \o pending
                BY <2>2 DEF addto_pending, job
            <4>2. <<job>> \in Seq(J) /\ Len(<<job>>) = 1 /\ <<job>>[1] = job
                BY <3>2
            <4>3. QED BY <3>2, <3>3, <4>1, <4>2, ConcatProperties
        <3>5. QED BY <1>5, <3>1, <3>3, <3>4 DEF WalkInv, JobsBlock
    <2>3. QED BY <1>4, <2>1, <2>2
<1>8. QED BY <1>6, <1>7 DEF WalkedPast

\* A job that is done leaves the jobs before the walk in place, and makes no key
\* appear that is not in fed.
LEMMA FinishKeepsWalk ==
    ASSUME WalkInv, pc = "jobs", walk <= Len(pending), UNCHANGED asked,
           NEW d, NEW a, NEW current, FinishJob(d, a, current),
           \A x \in Key : Missing(db, x) \/ x \in fed => Missing(d, x) \/ x \in fed'
    PROVE  JobsBlock' /\ WalkedPast'
<1> DEFINE Old(i) == IF i < walk THEN i ELSE i + 1
<1>1. TypeOK
    BY DEF WalkInv, AnswerInv
<1>2. pending' = Unlink(pending, walk) /\ db' = d /\ walk' = walk /\ pc' \in {"jobs", "down"}
    BY DEF FinishJob
<1>3. \A i \in DOMAIN pending' :
          Old(i) \in DOMAIN pending /\ pending'[i] = pending[Old(i)]
    BY <1>1, <1>2, UnlinkIs
<1>4. JobsBlock'
    BY <1>3 DEF WalkInv, JobsBlock
<1>5. ASSUME NEW i \in DOMAIN pending', i < walk
      PROVE  Quiet(i)'
    <2>1. i \in DOMAIN pending /\ pending'[i] = pending[i] /\ Quiet(i)
        BY <1>3, <1>5 DEF WalkInv, WalkedPast
    <2> DEFINE r == asked[pending[i].id]
    <2>2. r \in Request /\ r.op \in Blocking /\ ArgsOK(r)
        <3>1. pending[i].id \in ReqId
            BY <1>1, <2>1, JobIs DEF TypeOK
        <3>2. r.op \in Blocking /\ ArgsOK(r)
            BY <2>1 DEF WalkInv, JobsBlock
        <3>3. QED BY <1>1, <3>1, <3>2 DEF TypeOK, NoReq, Blocking
    <2>3. WaitsFor(r) \subseteq Key
        BY <2>2, WaitsForKeys
    <2>4. \A x \in WaitsFor(r) : Missing(d, x) \/ x \in fed'
        BY <2>1, <2>3 DEF Quiet
    <2>5. QED BY <1>2, <2>1, <2>4 DEF Quiet
<1>6. QED BY <1>2, <1>4, <1>5 DEF WalkedPast

\* One attempt at the job at the walk.
LEMMA AttemptKeepsWalk ==
    ASSUME WalkInv, job_attempt
    PROVE  JobsBlock' /\ WalkedPast'
<1> DEFINE id == pending[walk].id
           r == asked[id]
<1>1. TypeOK
    BY DEF WalkInv, AnswerInv
<1>2. /\ pc = "jobs"
      /\ walk <= Len(pending)
      /\ UNCHANGED asked
    BY DEF job_attempt, clientVars
<1>3. walk \in 1..Len(pending) /\ Len(pending) \in Nat /\ DOMAIN pending = 1..Len(pending)
    BY <1>1, <1>2 DEF TypeOK
<1>4. id \in ReqId /\ r \in Request \cup {NoReq} /\ r.op \in Blocking
    BY <1>1, <1>3, JobIs DEF TypeOK, WalkInv, JobsBlock
<1>5. PICK out \in process_request(id, db, arr) :
         \/ /\ out.ret = "reply"
            /\ FinishJob(out.db, out.arr, out.reply)
            /\ fed' = fed \cup Created(r)
         \/ /\ out.ret = "blocked"
            /\ db' = out.db
            /\ walk' = walk + 1
            /\ UNCHANGED <<pending, pc, fed>>
         \/ /\ out.ret = "down"
            /\ pc' = "down"
            /\ UNCHANGED pending
    BY DEF job_attempt
<1>6. /\ out.db = Command(db, id, r).db
      /\ out.ret = "blocked" => Command(db, id, r).ret = "blocked"
    BY <1>1, <1>4, <1>5, AttemptIs DEF TypeOK
<1>7. CASE /\ out.ret = "reply"
           /\ FinishJob(out.db, out.arr, out.reply)
           /\ fed' = fed \cup Created(r)
    <2>1. ASSUME NEW x \in Key, Missing(db, x) \/ x \in fed
          PROVE  Missing(out.db, x) \/ x \in fed'
        BY <1>1, <1>4, <1>6, <1>7, <2>1, BlockingCreates DEF TypeOK
    <2>2. QED BY <1>2, <1>7, <2>1, FinishKeepsWalk
<1>8. CASE /\ out.ret = "blocked"
           /\ db' = out.db
           /\ walk' = walk + 1
           /\ UNCHANGED <<pending, pc, fed>>
    <2>1. db' = db /\ \A k \in WaitsFor(r) : Missing(db, k)
        BY <1>4, <1>6, <1>8, BlockedIs
    <2>2. JobsBlock'
        BY <1>2, <1>8 DEF WalkInv, JobsBlock
    <2>3. ASSUME NEW i \in DOMAIN pending', i < walk'
          PROVE  Quiet(i)'
        <3>1. i \in DOMAIN pending /\ pending' = pending /\ (i = walk \/ i < walk)
            BY <1>3, <1>8, <2>3
        <3>2. Quiet(i)
            BY <1>2, <2>1, <3>1 DEF WalkInv, WalkedPast, Quiet
        <3>3. QED BY <1>2, <1>8, <2>1, <3>1, <3>2 DEF Quiet
    <2>4. QED BY <1>2, <1>8, <2>2, <2>3 DEF WalkedPast
<1>9. CASE out.ret = "down" /\ pc' = "down" /\ UNCHANGED pending
    BY <1>2, <1>9, IdleKeepsWalk
<1>10. QED BY <1>5, <1>7, <1>8, <1>9

\* The invariant behind NoMissedWakeup is inductive.
LEMMA WalkKept == WalkInv /\ [Next]_vars => WalkInv'
<1> SUFFICES ASSUME WalkInv, [Next]_vars
             PROVE  JobsBlock' /\ WalkedPast'
    BY AnswersKept DEF WalkInv
<1>1. CASE UNCHANGED vars
    BY <1>1, IdleKeepsWalk DEF vars
<1>2. CASE Clients
    <2>1. ASSUME NEW c \in Client, NEW r \in Request, send_request(c, r)
          PROVE  JobsBlock' /\ WalkedPast'
        BY <2>1, SendKeepsWalk
    <2>2. QED BY <1>2, <2>1, IdleKeepsWalk
              DEF Clients, connect_server, read_reply, client_exit, dataVars, loopVars
<1>3. CASE Server
    <2>1. CASE epoll_wait
        BY <2>1, IdleKeepsWalk DEF epoll_wait, clientVars, dataVars
    <2>2. CASE accept_connection
        BY <2>2, IdleKeepsWalk DEF accept_connection, dataVars
    <2>3. ASSUME NEW f \in Fd, process_in_data(f)
          PROVE  JobsBlock' /\ WalkedPast'
        BY <2>3, IdleKeepsWalk, ReadKeepsWalk
           DEF process_in_data, read_fails, disconnected, clientVars, dataVars
    <2>4. CASE events_done
        <3>1. UNCHANGED <<asked, pending>> /\ pc' = "jobs" /\ walk' = 1
            BY <2>4 DEF events_done, clientVars, dataVars
        <3>2. DOMAIN pending = 1..Len(pending) /\ Len(pending) \in Nat
            BY DEF WalkInv, AnswerInv, TypeOK
        <3>3. JobsBlock'
            BY <3>1 DEF WalkInv, JobsBlock
        <3>4. QED BY <3>1, <3>2, <3>3 DEF WalkedPast
    <2>5. CASE job_timeout
        <3>1. /\ pc = "jobs"
              /\ walk <= Len(pending)
              /\ UNCHANGED <<asked, fed>>
              /\ FinishJob(db, Refill(arr, <<NilCell>>), Reply("none", <<>>))
            BY <2>5 DEF job_timeout, clientVars
        <3>2. QED BY <3>1, FinishKeepsWalk
    <2>6. CASE job_attempt
        BY <2>6, AttemptKeepsWalk
    <2>7. CASE jobs_done
        <3>1. UNCHANGED <<asked, pending, db, fed>> /\ pc = "jobs" /\ pc' = "poll" /\ walk > Len(pending)
            BY <2>7 DEF jobs_done, clientVars, dataVars
        <3>2. DOMAIN pending = 1..Len(pending) /\ Len(pending) \in Nat /\ walk \in Nat
            BY DEF WalkInv, AnswerInv, TypeOK
        <3>3. \A i \in DOMAIN pending : i < walk
            BY <3>1, <3>2
        <3>4. JobsBlock'
            BY <3>1 DEF WalkInv, JobsBlock
        <3>5. QED BY <3>1, <3>3, <3>4 DEF WalkInv, WalkedPast, Quiet
    <2>8. QED BY <1>3, <2>1, <2>2, <2>3, <2>4, <2>5, <2>6, <2>7 DEF Server
<1>4. QED BY <1>1, <1>2, <1>3 DEF Next

\* A job that hangs when the loop goes back to sleep waits for nothing that is
\* there, but for what a brpoplpush job of the same pass has pushed: one pass
\* over the jobs after the events is enough to see every other key.
THEOREM NoWakeupMissed == Spec => []NoMissedWakeup
<1>1. Init => WalkInv
    <2> SUFFICES ASSUME Init
                 PROVE  JobsBlock /\ WalkedPast
        BY InitAnswers DEF WalkInv
    <2>1. pending = <<>>
        BY DEF Init
    <2>2. QED BY <2>1 DEF JobsBlock, WalkedPast
<1>2. WalkInv => NoMissedWakeup
    BY DEF WalkInv, WalkedPast, Quiet, NoMissedWakeup
<1>3. QED BY <1>1, <1>2, WalkKept, PTL DEF Spec

-----------------------------------------------------------------------------
(* Answers go where they belong, if no client exits while it waits *)

\* Every answer has arrived at the client that asked.
AllArrived == \A id \in ReqId : \A i \in DOMAIN replies[id] : replies[id][i].to = id[1]

LockInv == AnswerInv /\ LockStep /\ AllArrived

\* A client connects, or asks for something, once it has nothing under way.
LEMMA AskKeepsLock ==
    ASSUME LockInv, NEW c \in Client,
           connect_server(c) \/ \E r \in Request : send_request(c, r)
    PROVE  LockStep' /\ AllArrived'
<1>1. TypeOK /\ LockStep /\ AllArrived
    BY DEF LockInv, AnswerInv
<1>2. CASE connect_server(c)
    <2>1. /\ cstate[c] = "off"
          /\ cstate' = [cstate EXCEPT ![c] = "connecting"]
          /\ UNCHANGED <<outq, peer, inq, pending, conn, replies>>
        BY <1>2 DEF connect_server, queueVars, dataVars
    <2>2. /\ backlog' = Append(backlog, c)
          /\ backlog \in Seq(Client)
        BY <1>1, <1>2 DEF connect_server, TypeOK
    <2>3. DOMAIN backlog = 1..Len(backlog) /\ Len(backlog) \in Nat
        BY <2>2
    <2>4. /\ DOMAIN backlog' = 1..(Len(backlog) + 1)
          /\ \A i \in DOMAIN backlog' :
                backlog'[i] = IF i = Len(backlog) + 1 THEN c ELSE backlog[i]
        BY <2>2, <2>3
    <2>5. \A i \in DOMAIN backlog : backlog[i] # c
        BY <1>1, <2>1 DEF LockStep
    <2>6. /\ \A i \in DOMAIN backlog' : cstate'[backlog'[i]] = "connecting"
          /\ \A i, j \in DOMAIN backlog' : backlog'[i] = backlog'[j] => i = j
        <3>1. \A i \in DOMAIN backlog : backlog[i] \in Client
            BY <2>2
        <3>2. \A i \in DOMAIN backlog' :
                 \/ i = Len(backlog) + 1 /\ backlog'[i] = c
                 \/ i \in DOMAIN backlog /\ backlog'[i] = backlog[i]
            BY <2>3, <2>4
        <3>3. \A i \in DOMAIN backlog : cstate[backlog[i]] = "connecting"
            BY <1>1 DEF LockStep
        <3>4. \A x \in Client : x = c \/ cstate[x] = "connecting" => cstate'[x] = "connecting"
            BY <1>1, <2>1 DEF TypeOK
        <3>5. \A i \in DOMAIN backlog' : cstate'[backlog'[i]] = "connecting"
            BY <3>1, <3>2, <3>3, <3>4
        <3>6. \A i, j \in DOMAIN backlog' : backlog'[i] = backlog'[j] => i = j
            BY <1>1, <2>5, <3>2 DEF LockStep
        <3>7. QED BY <3>5, <3>6
    <2>7. \A x \in Client : cstate'[x] = IF x = c THEN "connecting" ELSE cstate[x]
        BY <1>1, <2>1 DEF TypeOK
    <2>8. \A i \in DOMAIN pending : pending[i].id[1] \in Client \ {c}
        <3>1. \A i \in DOMAIN pending : pending[i].id[1] \in Client
            BY <1>1, JobsAre
        <3>2. QED BY <1>1, <2>1, <3>1 DEF LockStep
    <2>9. LockStep'
        BY <1>1, <2>1, <2>6, <2>7, <2>8 DEF LockStep
    <2>10. QED BY <1>1, <2>1, <2>9 DEF AllArrived
<1>3. ASSUME NEW r \in Request, send_request(c, r)
      PROVE  LockStep' /\ AllArrived'
    <2> DEFINE id == <<c, sent[c] + 1>>
    <2>1. /\ cstate[c] = "idle"
          /\ cstate' = [cstate EXCEPT ![c] = "waiting"]
          /\ inq' = [inq EXCEPT ![c] = Append(@, id)]
          /\ UNCHANGED <<outq, peer, pending, conn, replies, backlog>>
        BY <1>3 DEF send_request, queueVars, dataVars
    <2> HIDE DEF id
    <2>2. /\ \A x \in Client : cstate'[x] = IF x = c THEN "waiting" ELSE cstate[x]
          /\ \A x \in Client \ {c} : inq'[x] = inq[x]
        BY <1>1, <2>1 DEF TypeOK
    <2>3. \A i \in DOMAIN pending : pending[i].id[1] \in Client \ {c}
        <3>1. \A i \in DOMAIN pending : pending[i].id[1] \in Client
            BY <1>1, JobsAre
        <3>2. QED BY <1>1, <2>1, <3>1 DEF LockStep
    <2>4. \A i \in DOMAIN backlog : backlog[i] \in Client \ {c}
        <3>1. backlog \in Seq(Client)
            BY <1>1 DEF TypeOK
        <3>2. QED BY <1>1, <2>1, <3>1 DEF LockStep
    <2>5. LockStep'
        BY <1>1, <2>1, <2>2, <2>3, <2>4 DEF LockStep
    <2>6. QED BY <1>1, <2>1, <2>5 DEF AllArrived
<1>4. QED BY <1>2, <1>3

\* A client that reads a reply, or exits without one to wait for, has nothing
\* left under way.
LEMMA LeaveKeepsLock ==
    ASSUME LockInv, "waiting" \notin ExitWhen, NEW c \in Client,
           read_reply(c) \/ client_exit(c)
    PROVE  LockStep' /\ AllArrived'
<1>1. TypeOK /\ LockStep /\ AllArrived
    BY DEF LockInv, AnswerInv
<1>2. /\ cstate' \in {[cstate EXCEPT ![c] = "idle"], [cstate EXCEPT ![c] = "gone"]}
      /\ cstate'[c] = "gone" \/ peer' = peer
      /\ \A x \in Client \ {c} : peer'[x] = peer[x]
      /\ outq' = [outq EXCEPT ![c] = <<>>]
      /\ cstate[c] \in {"idle", "waiting"}
      /\ cstate[c] = "waiting" => outq[c] # <<>>
      /\ UNCHANGED <<inq, pending, conn, replies, backlog>>
    BY <1>1 DEF read_reply, client_exit, dataVars, TypeOK
<1>3. \A x \in Client : x # c => cstate'[x] = cstate[x] /\ outq'[x] = outq[x]
    BY <1>1, <1>2 DEF TypeOK
<1>4. outq'[c] = <<>> /\ inq[c] = <<>>
    BY <1>1, <1>2 DEF LockStep, TypeOK
<1>5. \A i \in DOMAIN pending : pending[i].id[1] \in Client \ {c}
    <2>1. \A i \in DOMAIN pending : pending[i].id[1] \in Client
        BY <1>1, JobsAre
    <2>2. QED BY <1>1, <1>2, <2>1 DEF LockStep
<1>6. \A i \in DOMAIN backlog : backlog[i] \in Client \ {c}
    <2>1. backlog \in Seq(Client)
        BY <1>1 DEF TypeOK
    <2>2. QED BY <1>1, <1>2, <2>1 DEF LockStep
<1>7. cstate'[c] \in {"idle", "gone"}
    BY <1>1, <1>2 DEF TypeOK
<1>8. cstate'[c] # "gone" => peer'[c] = "open"
    BY <1>1, <1>2 DEF LockStep
<1>9. LockStep'
    BY <1>1, <1>2, <1>3, <1>4, <1>5, <1>6, <1>7, <1>8 DEF LockStep
<1>10. QED BY <1>1, <1>2, <1>9 DEF AllArrived

\* A connection that is accepted is that of a client with nothing under way.
LEMMA AcceptKeepsLock ==
    ASSUME LockInv, accept_connection
    PROVE  LockStep' /\ AllArrived'
<1>1. TypeOK /\ LockStep /\ AllArrived
    BY DEF LockInv, AnswerInv
<1>2. UNCHANGED <<outq, peer, inq, pending, replies>>
    BY DEF accept_connection, queueVars, dataVars
<1>3. CASE UNCHANGED <<conn, cstate, backlog>>
    BY <1>1, <1>2, <1>3 DEF LockStep, AllArrived
<1>4. CASE /\ backlog # <<>>
           /\ FreeFd # {}
           /\ conn' = [conn EXCEPT ![LowestFree] = Head(backlog)]
           /\ cstate' = [cstate EXCEPT ![Head(backlog)] = "idle"]
           /\ backlog' = Tail(backlog)
    <2> DEFINE c == Head(backlog)
    <2>1. backlog \in Seq(Client) /\ Len(backlog) \in Nat
        BY <1>1 DEF TypeOK
    <2>2. /\ 1 \in DOMAIN backlog
          /\ c = backlog[1]
          /\ c \in Client
          /\ \A i \in DOMAIN backlog' :
                i + 1 \in DOMAIN backlog /\ i + 1 # 1 /\ backlog'[i] = backlog[i + 1]
          /\ DOMAIN backlog' \subseteq Nat
        BY <1>4, <2>1
    <2> HIDE DEF c
    <2>3. cstate[c] = "connecting"
        BY <1>1, <2>2 DEF LockStep
    <2>4. \A x \in Client : cstate'[x] = IF x = c THEN "idle" ELSE cstate[x]
        BY <1>1, <1>4, <2>2 DEF TypeOK, c
    <2>5. \A i \in DOMAIN backlog' : backlog'[i] \in Client \ {c}
        BY <1>1, <2>1, <2>2 DEF LockStep
    <2>6. \A i, j \in DOMAIN backlog' : backlog'[i] = backlog'[j] => i = j
        <3>1. \A i, j \in DOMAIN backlog' : backlog'[i] = backlog'[j] => i + 1 = j + 1
            BY <1>1, <2>2 DEF LockStep
        <3>2. QED BY <2>2, <3>1
    <2>7. \A i \in DOMAIN backlog' : cstate'[backlog'[i]] = "connecting"
        BY <1>1, <2>2, <2>4, <2>5 DEF LockStep
    <2>8. ASSUME NEW i \in DOMAIN pending
          PROVE  LET x == pending[i].id[1]
                 IN  x \in Client /\ x # c /\ conn'[pending[i].fd] = x
        <3>1. pending[i].id \in ReqId /\ pending[i].fd \in Fd
            BY <1>1, JobsAre
        <3>2. pending[i].id[1] \in Client \ {c}
            BY <1>1, <2>3, <3>1 DEF LockStep, ReqId
        <3>3. conn[pending[i].fd] = pending[i].id[1] /\ pending[i].id[1] # NoConn
            BY <1>1, <3>2, ConstantsAssumption DEF LockStep
        <3>4. pending[i].fd # LowestFree
            BY <1>4, <3>3, LowestFreeIs DEF FreeFd
        <3>5. QED BY <1>1, <1>4, <3>1, <3>2, <3>3, <3>4 DEF TypeOK
    <2>9. LockStep'
        BY <1>1, <1>2, <2>2, <2>3, <2>4, <2>6, <2>7, <2>8 DEF LockStep
    <2>10. QED BY <1>1, <1>2, <2>9 DEF AllArrived
<1>5. QED BY <1>3, <1>4 DEF accept_connection

\* A descriptor that is closed, or has nothing to read, is no job's.
LEMMA NoDataKeepsLock ==
    ASSUME LockInv, NEW f \in Fd, read_fails(f) \/ disconnected(f)
    PROVE  LockStep' /\ AllArrived'
<1> DEFINE c == conn[f]
<1>1. TypeOK /\ LockStep /\ AllArrived
    BY DEF LockInv, AnswerInv
<1>2. UNCHANGED <<cstate, outq, inq, pending, replies, backlog>> /\ c \in Client
    BY <1>1 DEF read_fails, disconnected, clientVars, queueVars, dataVars, TypeOK
<1>3. \A x \in Client : peer'[x] = peer[x] \/ cstate[x] = "gone"
    BY <1>1 DEF read_fails, disconnected, queueVars, LockStep, TypeOK
<1>4. ASSUME NEW i \in DOMAIN pending
      PROVE  conn'[pending[i].fd] = conn[pending[i].fd]
    <2>1. CASE read_fails(f)
        BY <2>1 DEF read_fails
    <2>2. CASE disconnected(f)
        <3>1. peer[c] # "open" /\ conn' = [conn EXCEPT ![f] = NoConn]
            BY <2>2 DEF disconnected
        <3>2. pending[i].id \in ReqId /\ pending[i].fd \in Fd
            BY <1>1, JobsAre
        <3>3. pending[i].fd # f
            BY <1>1, <1>2, <3>1, <3>2 DEF LockStep
        <3>4. QED BY <1>1, <3>1, <3>2, <3>3 DEF TypeOK
    <2>3. QED BY <2>1, <2>2
<1>5. LockStep'
    BY <1>1, <1>2, <1>3, <1>4 DEF LockStep
<1>6. QED BY <1>1, <1>2, <1>5 DEF AllArrived

\* A reply written to the descriptor of the client that asked arrives.
LEMMA SendArrives ==
    ASSUME TypeOK, AllArrived, NEW f \in Fd, NEW id \in ReqId, NEW reply,
           conn[f] = id[1], peer[id[1]] = "open", send_reply(f, id, reply)
    PROVE  /\ AllArrived'
           /\ UNCHANGED peer
           /\ \A x \in Client : x # id[1] => outq'[x] = outq[x]
<1> DEFINE written == [to |-> id[1], hung |-> pc = "jobs",
                       type |-> reply.type, val |-> reply.val]
<1>1. id[1] \in Client /\ id[1] # NoConn
    BY ConstantsAssumption DEF ReqId
<1>2. /\ replies' = [replies EXCEPT ![id] = Append(@, written)]
      /\ outq' = [outq EXCEPT ![id[1]] = Append(@, id)]
      /\ peer' = peer
    BY <1>1 DEF send_reply
<1>3. written.to = id[1]
    OBVIOUS
<1> HIDE DEF written
<1>4. replies[id] \in Seq(ReplyType)
    BY DEF TypeOK
<1>5. \A i \in DOMAIN Append(replies[id], written) :
          \/ Append(replies[id], written)[i] = written
          \/ i \in DOMAIN replies[id] /\ Append(replies[id], written)[i] = replies[id][i]
    BY <1>4
<1>6. AllArrived'
    BY <1>2, <1>3, <1>5 DEF AllArrived, TypeOK
<1>7. QED BY <1>1, <1>2, <1>6 DEF TypeOK

\* A request is read from the descriptor of the client that asked.
LEMMA ReadKeepsLock ==
    ASSUME LockInv, NEW f \in Fd, read_request(f)
    PROVE  LockStep' /\ AllArrived'
<1> DEFINE c == conn[f]
           id == Head(inq[c])
           job == [id |-> id, fd |-> f]
<1>1. TypeOK /\ LockStep /\ AllArrived
    BY DEF LockInv, AnswerInv
<1>2. c \in Client /\ inq[c] \in Seq(ReqId) /\ inq[c] # <<>>
    BY <1>1 DEF TypeOK, read_request
<1>3. id \in ReqId /\ id[1] = c
    <2>1. 1 \in DOMAIN inq[c] /\ id = inq[c][1]
        BY <1>2
    <2>2. QED BY <1>2, <2>1 DEF LockInv, AnswerInv, IdsSent
<1>4. cstate[c] = "waiting" /\ outq[c] = <<>> /\ peer[c] = "open"
    BY <1>1, <1>2 DEF LockStep
<1>5. \A i \in DOMAIN pending : pending[i].id[1] \in Client \ {c}
    <2>1. \A i \in DOMAIN pending : pending[i].id[1] \in Client
        BY <1>1, JobsAre
    <2>2. QED BY <1>1, <1>2, <2>1 DEF LockStep
<1>6. /\ UNCHANGED <<cstate, conn, backlog>>
      /\ inq' = [inq EXCEPT ![c] = <<>>]
    BY DEF read_request, clientVars
<1>7. inq'[c] = <<>> /\ \A x \in Client \ {c} : inq'[x] = inq[x]
    BY <1>1, <1>2, <1>6 DEF TypeOK
<1> HIDE DEF id
<1>8. CASE (\E reply : send_reply(f, id, reply)) /\ UNCHANGED pending
    <2>1. AllArrived' /\ UNCHANGED peer /\ \A x \in Client : x # c => outq'[x] = outq[x]
        BY <1>1, <1>3, <1>4, <1>8, SendArrives
    <2>2. LockStep'
        BY <1>1, <1>2, <1>4, <1>5, <1>6, <1>7, <1>8, <2>1 DEF LockStep
    <2>3. QED BY <2>1, <2>2
<1>9. CASE UNCHANGED <<outq, peer, replies, pending>>
    BY <1>1, <1>2, <1>4, <1>5, <1>6, <1>7, <1>9 DEF LockStep, AllArrived
<1>10. CASE UNCHANGED <<outq, peer, replies>> /\ pending' = addto_pending(id, f)
    <2> DEFINE J == [id : ReqId, fd : Fd]
    <2>1. pending \in Seq(J) /\ Len(pending) \in Nat /\ job \in J
        BY <1>1, <1>3 DEF TypeOK
    <2>2. job.id = id /\ job.fd = f /\ DOMAIN pending = 1..Len(pending)
        BY <2>1
    <2> HIDE DEF J, job
    <2>3. \A i \in DOMAIN pending' :
             \/ i = 1 /\ pending'[i] = job
             \/ i # 1 /\ i - 1 \in DOMAIN pending /\ pending'[i] = pending[i - 1]
        <3>1. pending' = <<job>> \o pending
            BY <1>10 DEF addto_pending, job
        <3>2. <<job>> \in Seq(J) /\ Len(<<job>>) = 1 /\ <<job>>[1] = job
            BY <2>1
        <3>3. QED BY <2>1, <2>2, <3>1, <3>2, ConcatProperties
    <2>4. ASSUME NEW i \in DOMAIN pending', NEW j \in DOMAIN pending',
                 pending'[i].id[1] = pending'[j].id[1]
          PROVE  i = j
        <3>1. CASE i = 1 \/ j = 1
            BY <1>3, <1>5, <2>2, <2>3, <2>4, <3>1
        <3>2. CASE i # 1 /\ j # 1
            <4>1. i - 1 = j - 1 /\ DOMAIN pending' = 1..Len(pending')
                BY <1>1, <2>3, <2>4, <3>2 DEF LockStep
            <4>2. i \in Int /\ j \in Int
                BY <2>4, <4>1
            <4>3. QED BY <4>1, <4>2
        <3>3. QED BY <3>1, <3>2
    <2>5. ASSUME NEW i \in DOMAIN pending'
          PROVE  LET x == pending'[i].id[1]
                 IN  /\ cstate'[x] = "waiting"
                     /\ outq'[x] = <<>>
                     /\ inq'[x] = <<>>
                     /\ conn'[pending'[i].fd] = x
        <3>1. CASE pending'[i] = job
            BY <1>3, <1>4, <1>6, <1>7, <1>10, <2>2, <3>1
        <3>2. CASE i - 1 \in DOMAIN pending /\ pending'[i] = pending[i - 1]
            BY <1>1, <1>5, <1>6, <1>7, <1>10, <3>2 DEF LockStep
        <3>3. QED BY <2>3, <3>1, <3>2
    <2>6. LockStep'
        BY <1>1, <1>2, <1>6, <1>7, <1>10, <2>4, <2>5 DEF LockStep
    <2>7. QED BY <1>1, <1>10, <2>6 DEF AllArrived
<1>11. QED BY <1>8, <1>9, <1>10 DEF read_request, queueVars, id

\* A job that is done is answered at the descriptor of the client that asked.
LEMMA FinishKeepsLock ==
    ASSUME LockInv, walk <= Len(pending), UNCHANGED <<cstate, inq, conn, backlog>>,
           NEW d, NEW a, NEW current, FinishJob(d, a, current)
    PROVE  LockStep' /\ AllArrived'
<1> DEFINE id == pending[walk].id
           c == id[1]
           Old(i) == IF i < walk THEN i ELSE i + 1
<1>1. TypeOK /\ LockStep /\ AllArrived
    BY DEF LockInv, AnswerInv
<1>2. /\ walk \in DOMAIN pending
      /\ DOMAIN pending' = 1..(Len(pending) - 1)
      /\ \A i \in DOMAIN pending' :
            Old(i) \in DOMAIN pending /\ Old(i) # walk /\ pending'[i] = pending[Old(i)]
    BY <1>1, UnlinkIs DEF FinishJob
<1>3. id \in ReqId /\ pending[walk].fd \in Fd /\ c \in Client
    <2>1. walk \in 1..Len(pending)
        BY <1>1 DEF TypeOK
    <2>2. QED BY <1>1, <2>1, JobIs DEF ReqId
<1>4. cstate[c] = "waiting" /\ conn[pending[walk].fd] = c /\ peer[c] = "open"
    BY <1>1, <1>2, <1>3 DEF LockStep
<1>5. \A i, j \in DOMAIN pending' : Old(i) = Old(j) => i = j
    <2>1. walk \in Nat /\ Len(pending) \in Nat
        BY <1>1 DEF TypeOK
    <2>2. QED BY <1>2, <2>1
<1> HIDE DEF Old
<1>6. ASSUME NEW i \in DOMAIN pending'
      PROVE  pending'[i].id[1] \in Client /\ pending'[i].id[1] # c
    <2>1. Old(i) \in DOMAIN pending /\ Old(i) # walk /\ pending'[i] = pending[Old(i)]
        BY <1>2
    <2>2. pending[Old(i)].id \in ReqId
        BY <1>1, <2>1, JobsAre
    <2>3. QED BY <1>1, <1>2, <2>1, <2>2 DEF LockStep, ReqId
<1> HIDE DEF id
<1>7. /\ AllArrived'
      /\ UNCHANGED peer
      /\ \A x \in Client : x # c => outq'[x] = outq[x]
    <2>1. CASE UNCHANGED <<outq, peer, replies>>
        BY <1>1, <2>1 DEF AllArrived
    <2>2. CASE \E reply : send_reply(pending[walk].fd, id, reply)
        BY <1>1, <1>3, <1>4, <2>2, SendArrives
    <2>3. QED BY <2>1, <2>2 DEF FinishJob, queueVars, id
<1>8. inq[c] = <<>>
    BY <1>1, <1>2 DEF LockStep, id
<1> HIDE DEF c
<1>9. ASSUME NEW i \in DOMAIN pending'
      PROVE  LET x == pending'[i].id[1]
             IN  /\ cstate'[x] = "waiting"
                 /\ outq'[x] = <<>>
                 /\ inq'[x] = <<>>
                 /\ conn'[pending'[i].fd] = x
    BY <1>1, <1>2, <1>6, <1>7 DEF LockStep
<1>10. \A i, j \in DOMAIN pending' : pending'[i].id[1] = pending'[j].id[1] => i = j
    BY <1>1, <1>2, <1>5 DEF LockStep
<1>11. LockStep'
    BY <1>1, <1>3, <1>4, <1>7, <1>8, <1>9, <1>10 DEF LockStep
<1>12. QED BY <1>7, <1>11

\* The invariant behind OwnReply is inductive if no client exits while it waits.
LEMMA LockKept ==
    ASSUME "waiting" \notin ExitWhen
    PROVE  LockInv /\ [Next]_vars => LockInv'
<1> SUFFICES ASSUME LockInv, [Next]_vars
             PROVE  LockStep' /\ AllArrived'
    BY AnswersKept DEF LockInv
<1>1. ASSUME UNCHANGED <<cstate, outq, inq, peer, conn, backlog, pending, replies>>
      PROVE  LockStep' /\ AllArrived'
    BY <1>1 DEF LockInv, LockStep, AllArrived
<1>2. CASE UNCHANGED vars
    BY <1>1, <1>2 DEF vars
<1>3. CASE Clients
    BY <1>3, AskKeepsLock, LeaveKeepsLock DEF Clients
<1>4. CASE Server
    <2>1. CASE epoll_wait \/ events_done \/ jobs_done
        BY <1>1, <2>1 DEF epoll_wait, events_done, jobs_done, clientVars, queueVars, dataVars
    <2>2. CASE accept_connection
        BY <2>2, AcceptKeepsLock
    <2>3. ASSUME NEW f \in Fd, process_in_data(f)
          PROVE  LockStep' /\ AllArrived'
        BY <2>3, ReadKeepsLock, NoDataKeepsLock DEF process_in_data
    <2>4. CASE job_timeout
        <3>1. /\ walk <= Len(pending)
              /\ UNCHANGED <<cstate, inq, conn, backlog>>
              /\ FinishJob(db, Refill(arr, <<NilCell>>), Reply("none", <<>>))
            BY <2>4 DEF job_timeout, clientVars
        <3>2. QED BY <3>1, FinishKeepsLock
    <2>5. CASE job_attempt
        <3>1. walk <= Len(pending) /\ UNCHANGED <<cstate, inq, conn, backlog>>
            BY <2>5 DEF job_attempt, clientVars
        <3>2. CASE \E out : FinishJob(out.db, out.arr, out.reply)
            BY <3>1, <3>2, FinishKeepsLock
        <3>3. CASE UNCHANGED <<outq, peer, replies, pending>>
            BY <1>1, <3>1, <3>3
        <3>4. QED BY <2>5, <3>2, <3>3 DEF job_attempt, queueVars
    <2>6. QED BY <1>4, <2>1, <2>2, <2>3, <2>4, <2>5 DEF Server
<1>5. QED BY <1>2, <1>3, <1>4 DEF Next

\* It holds before main_loop.
LEMMA InitLock == Init => LockInv
<1> SUFFICES ASSUME Init
             PROVE  LockStep /\ AllArrived
    BY InitAnswers DEF LockInv
<1>1. /\ pending = <<>>
      /\ backlog = <<>>
      /\ \A c \in Client : inq[c] = <<>> /\ outq[c] = <<>> /\ peer[c] = "open"
      /\ \A id \in ReqId : replies[id] = <<>>
    BY DEF Init
<1>2. QED BY <1>1 DEF LockStep, AllArrived

\* As long as no client exits while it waits, every answer is written to the
\* connection its request came from, although a job remembers no more of it than
\* the number of a descriptor, which the server closes and accept gives out again.
THEOREM RepliesAreOwn ==
    ASSUME "waiting" \notin ExitWhen
    PROVE  Spec => []OwnReply
<1>1. LockInv => OwnReply
    BY DEF LockInv, AllArrived, OwnReply
<1>2. LockInv /\ [Next]_vars => LockInv'
    BY LockKept
<1>3. QED BY <1>1, <1>2, InitLock, PTL DEF Spec
=============================================================================
