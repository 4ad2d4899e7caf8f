------------------------------ MODULE HashStore ------------------------------
(***************************************************************************)
(* The hash commands of server/commands.c as operators on the keyspace of  *)
(* DataStore.  They run the commands on keys and scalars on the table of   *)
(* one hash.                                                               *)
(***************************************************************************)
EXTENDS DataStore

\* A missing key gets a new hash before the command runs on it.
PutField(db, k, f, v) == Put(db, k, HashObj([db[k].dict EXCEPT ![f] = v]))

\* A variant with a fault: the field is looked up after it has been set.
hset_command_late(db, k, f, v) ==
    IF WrongType(db, k, "hash") THEN Fail(db)
    ELSE IntReply(PutField(db, k, f, v), IF Missing(db, k) THEN 1 ELSE 0)

hset_command(db, k, f, v) ==
    IF WrongType(db, k, "hash") THEN Fail(db)
    ELSE IntReply(PutField(db, k, f, v), IF db[k].dict[f] = None THEN 1 ELSE 0)

\* In a hash that is there the reply for a new field is the one of set.
hsetnx_command(db, k, f, v) ==
    IF WrongType(db, k, "hash") THEN Fail(db)
    ELSE IF Missing(db, k) THEN IntReply(PutField(db, k, f, v), 1)
    ELSE IF db[k].dict[f] = None THEN Result("ok", PutField(db, k, f, v), None)
    ELSE IntReply(db, 0)

\* pairs is a sequence of a field and its value; a later one wins.
hmset_command(db, k, pairs) ==
    IF WrongType(db, k, "hash") THEN Fail(db)
    ELSE Result("ok",
                Put(db, k, HashObj(FoldLeft(LAMBDA d, p : [d EXCEPT ![p[1]] = p[2]],
                                            db[k].dict, pairs))),
                None)

\* A variant with a fault: an empty collection stays.
hdelsrem_command_stays(db, k, fields, type) ==
    LET rest == [f \in Field |-> IF f \in ToSet(fields) THEN None ELSE db[k].dict[f]]
        gone == Fields(db[k]) \cap ToSet(fields)
    IN  IF WrongType(db, k, type) THEN Fail(db)
        ELSE IF Missing(db, k) THEN IntReply(db, 0)
        ELSE IntReply(Put(db, k, Obj(type, None, rest)), Cardinality(gone))

\* hdel and srem.  A collection that is empty ends its life, also if it was
\* empty before.
hdelsrem_command(db, k, fields, type) ==
    LET rest == [f \in Field |-> IF f \in ToSet(fields) THEN None ELSE db[k].dict[f]]
        gone == Fields(db[k]) \cap ToSet(fields)
    IN  IF WrongType(db, k, type) THEN Fail(db)
        ELSE IF Missing(db, k) THEN IntReply(db, 0)
        ELSE IntReply(Put(db, k, IF rest = NoFields THEN NoObj ELSE Obj(type, None, rest)),
                 Cardinality(gone))

hdel_command(db, k, fields) == hdelsrem_command(db, k, fields, "hash")

\* The new hash is in the keyspace before the amount is looked at, and stays there
\* if it is refused.
HashStep(db, k, f, c) ==
    IF WrongType(db, k, "hash") THEN Fail(db)
    ELSE Result(c.ret, PutField(db, k, f, c.cell), c.val)

hincrby_command(db, k, f, arg) == HashStep(db, k, f, decrbyincrby(db[k].dict[f], arg, 1))
hincrbyfloat_command(db, k, f, arg, sum) ==
    HashStep(db, k, f, incrbyfloat(db[k].dict[f], arg, sum))

-----------------------------------------------------------------------------

\* hlen and scard; a missing key has no fields.
entry_num_command(db, k, type) ==
    IF WrongType(db, k, type) THEN Fail(db) ELSE IntReply(db, Cardinality(Fields(db[k])))
hlen_command(db, k) == entry_num_command(db, k, "hash")

\* hexists and sismember.
has_command(db, k, f, type) ==
    IF WrongType(db, k, type) THEN Fail(db)
    ELSE IntReply(db, IF f \in Fields(db[k]) THEN 1 ELSE 0)
hexists_command(db, k, f) == has_command(db, k, f, "hash")

hget_command(db, k, f) ==
    IF WrongType(db, k, "hash") THEN Fail(db)
    ELSE IF db[k].dict[f] = None THEN Result("nil", db, None)
    ELSE Result("str", db, db[k].dict[f])

hmget_command(db, k, fields) ==
    IF WrongType(db, k, "hash") THEN Fail(db)
    ELSE ArrReply(db, [i \in DOMAIN fields |-> db[k].dict[fields[i]]])

\* The fields of k in the order of the table.
InOrder(db, k, order) == Walked(order, Fields(db[k]))

\* hkeys and smembers.
hkeyssmembers_command(db, k, order, type) ==
    IF WrongType(db, k, type) THEN Fail(db) ELSE ArrReply(db, InOrder(db, k, order))
hkeys_command(db, k, order) == hkeyssmembers_command(db, k, order, "hash")

hvals_command(db, k, order) ==
    LET fields == InOrder(db, k, order)
    IN  IF WrongType(db, k, "hash") THEN Fail(db)
        ELSE ArrReply(db, [i \in DOMAIN fields |-> db[k].dict[fields[i]]])

\* A variant with a fault: the value comes before its key.
Pairs_swapped(d, fields) ==
    [i \in 1..(2 * Len(fields)) |-> LET f == fields[(i + 1) \div 2]
                                   IN  IF i % 2 = 0 THEN f ELSE d[f]]

Pairs(d, fields) ==
    [i \in 1..(2 * Len(fields)) |-> LET f == fields[(i + 1) \div 2]
                                   IN  IF i % 2 = 1 THEN f ELSE d[f]]

\* The callback add_key_val_to_arr returns no value once it has added both.
\* goes_on is whether what the caller finds in its place is 0.
hgetall_command(db, k, order, goes_on) ==
    IF WrongType(db, k, "hash") \/ (~goes_on /\ Fields(db[k]) # {}) THEN Fail(db)
    ELSE ArrReply(db, Pairs(db[k].dict, InOrder(db, k, order)))
=============================================================================
