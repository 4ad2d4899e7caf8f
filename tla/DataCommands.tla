---------------------------- MODULE DataCommands ----------------------------
(***************************************************************************)
(* Any sequence of the commands on keys, scalars, hashes and sets, one     *)
(* after the other as the event loop runs them.                            *)
(***************************************************************************)
EXTENDS SetStore

CONSTANTS KeyArgs,    \* the sequences of keys that are passed
          FieldArgs,  \* the sequences of fields and members that are passed
          Arg         \* the values that are passed

ASSUME ArgAssumption ==
    /\ KeyArgs \subseteq Seq(Key) \ {<<>>}
    /\ FieldArgs \subseteq Seq(Field) \ {<<>>}
    /\ Arg \subseteq Value

VARIABLES db,   \* key_dict
          last  \* the latest command and how it ended

vars == <<db, last>>

KeyOrders == SetToAllKPermutations(Key) \cap [1..Cardinality(Key) -> Key]
Orders == SetToAllKPermutations(Field) \cap [1..Cardinality(Field) -> Field]
AnyOrder == CHOOSE order \in Orders : TRUE

Step(op, r) == db' = r.db /\ last' = [op |-> op, ret |-> r.ret]

-----------------------------------------------------------------------------

ScalarCommand(k) ==
    \/ \E v \in Arg : \/ Step("set", set_command(db, k, v))
                      \/ Step("setnx", setnx_command(db, k, v))
                      \/ Step("incr", incrby_command(db, k, v))
                      \/ Step("incr", decrby_command(db, k, v))
    \/ Step("incr", incr_command(db, k))
    \/ Step("incr", decr_command(db, k))
    \/ Step("get", get_command(db, k))

FloatCommand(k) ==
    \E v \in Arg : \E sum \in FloatSum(FloatOf(db[k].val), v) :
        Step("incr", incrbyfloat_command(db, k, v, sum))

KeyCommand(keys) ==
    \/ \E v \in Arg : Step("msetnx", msetnx_command(db, keys, v))
    \/ Step("del", del_command(db, keys))
    \/ Len(keys) = 2 /\ Step("rename", rename_command(db, keys[1], keys[2]))

HashCommand(k) ==
    \E f \in Field, v \in Arg : \/ Step("hset", hset_command(db, k, f, v))
                                \/ Step("hset", hsetnx_command(db, k, f, v))
                                \/ Step("hincr", hincrby_command(db, k, f, v))

HashFloatCommand(k) ==
    \E f \in Field, v \in Arg : \E sum \in FloatSum(FloatOf(db[k].dict[f]), v) :
        Step("hincr", hincrbyfloat_command(db, k, f, v, sum))

FieldsCommand(k, fields) ==
    \/ \E v \in Arg : Step("hset", hmset_command(db, k, [i \in DOMAIN fields |-> <<fields[i], v>>]))
    \/ Step("hdel", hdel_command(db, k, fields))
    \/ Step("sadd", sadd_command(db, k, fields))
    \/ Step("srem", srem_command(db, k, fields))

SetCommand(k) ==
    \/ \E f \in Field, dst \in Key : Step("smove", smove_command(db, k, dst, f))
    \/ \E f \in Drawn(db, k) : Step("spop", spop_command(db, k, f))
    \/ Step("srandmember", srandmember_command(db, k))
    \/ Step("spop", spop_cnt_command(db))

\* They read, unless they free what they share.
AlgebraCommand(keys) ==
    \/ Step("sdiff", sdiff_command(db, keys, AnyOrder))
    \/ Step("sinter", sinter_command(db, keys, AnyOrder))
    \/ Step("sunion", sunion_command(db, keys, AnyOrder))

Init == db = [k \in Key |-> NoObj] /\ last = [op |-> "none", ret |-> "ok"]

Next ==
    /\ last.ret \notin {"wild", "loops"}
    /\ \/ \E k \in Key : \/ ScalarCommand(k)
                         \/ FloatCommand(k)
                         \/ HashCommand(k)
                         \/ HashFloatCommand(k)
                         \/ \E fields \in FieldArgs : FieldsCommand(k, fields)
                         \/ SetCommand(k)
       \/ \E keys \in KeyArgs : KeyCommand(keys) \/ AlgebraCommand(keys)

Spec == Init /\ [][Next]_vars

-----------------------------------------------------------------------------
(* Properties *)

\* Type invariant.  Every number that is stored is in the range of bss_int_t.
TypeOK ==
    /\ \A k \in Key : ObjOK(db[k])
    /\ last.ret \in {"ok", "int", "nil", "str", "arr", "fail", "stale", "wild", "loops"}

Cells ==
    {None} \cup {db[k].val : k \in {n \in Key : db[n].type = "string"}}
           \cup UNION {{db[k].dict[f] : f \in Field} : k \in {n \in Key : db[n].type = "hash"}}

\* incrby and decrby reply the sum and store it, for every value that is stored and
\* every amount, and refuse exactly the sums that do not fit.  Two cases are left
\* out in which the code does not do so: decrby by the smallest integer, which has
\* no negation, and decrby of a key that is missing by a number that "%d" does not
\* print.
CountersExact ==
    \A cell \in Cells, arg \in Value, sign \in {1, -1} :
        LET r == decrbyincrby(cell, arg, sign)
            origin == IF cell = None THEN 0 ELSE Number(cell)
            sum == origin + sign * Number(arg)
            known == \/ sign = 1
                     \/ cell # None /\ Number(arg) # IntMin
                     \/ cell = None /\ -Number(arg) \in (-PrintMax - 1)..PrintMax
        IN  IF IsInteger(arg) /\ (cell = None \/ IsInteger(cell))
            THEN known => IF sum \in IntMin..IntMax
                          THEN r.ret = "int" /\ r.val = sum /\ Number(r.cell) = sum
                          ELSE r.ret = "fail" /\ r.cell = cell
            ELSE r.ret = "fail" /\ r.cell = cell

\* No set has a member whose string has been freed: the tables that sdiff, sinter
\* and sunion work on share the strings of the sets and are thrown away.
NoFreedMember == \A k \in Key, f \in Field : db[k].dict[f] # Freed

\* A command that replies an error has changed nothing, with one exception: an
\* hincrby or hincrbyfloat that refuses the amount leaves the empty hash it made.
FailureChangesNothing ==
    [][last'.ret = "fail" =>
           \/ db' = db
           \/ /\ last'.op = "hincr"
              /\ \E k \in Key : Missing(db, k) /\ db' = Put(db, k, HashObj(NoFields))]_vars

EmptyOnes(d) == {k \in Key : d[k].type \in {"hash", "set"} /\ Fields(d[k]) = {}}

\* An empty set or hash, which spop cannot draw from and exists says is there, comes
\* about only when smove or spop takes the last member or when hincrby or
\* hincrbyfloat refuses an amount; srem and hdel never leave one.
EmptiedOnlyBy ==
    [][Cardinality(EmptyOnes(db')) > Cardinality(EmptyOnes(db)) =>
           last'.op \in {"smove", "spop"} \/ last' = [op |-> "hincr", ret |-> "fail"]]_vars

-----------------------------------------------------------------------------

\* r is an array of the n elements of s, unless n reaches the capacity of the
\* array; then n % ArrCap cells of it are left.
Lists(r, n, s) == r.ret = "arr" /\ Len(r.val) = n % ArrCap /\ (n < ArrCap => ToSet(r.val) = s)
ListsSet(r, s) == Lists(r, Cardinality(s), s)

\* The same of an array whose order and repetitions are given: r is the sequence s.
Tells(r, s) == r.ret = "arr" /\ Len(r.val) = Len(s) % ArrCap /\ (Len(s) < ArrCap => r.val = s)

SetAgrees(keys, order) ==
    LET s == [i \in DOMAIN keys |-> Fields(db[keys[i]])]
    IN  ~AnyWrongType(db, keys) =>
            /\ ListsSet(sunion_command(db, keys, order), UNION Range(s))
            /\ ListsSet(sdiff_command(db, keys, order), s[1] \ UNION Range(Tail(s)))
            /\ ListsSet(sinter_command(db, keys, order),
                        {f \in s[1] : \A i \in DOMAIN keys : f \in s[i]})

HashAgrees(k, order) ==
    LET d == db[k].dict
        fields == Fields(db[k])
        all == hgetall_command(db, k, order, TRUE)
    IN  ~WrongType(db, k, "hash") =>
            /\ ListsSet(hkeys_command(db, k, order), fields)
            /\ Lists(hvals_command(db, k, order), Cardinality(fields), {d[f] : f \in fields})
            /\ Lists(all, 2 * Cardinality(fields), fields \cup {d[f] : f \in fields})
            /\ 2 * Cardinality(fields) < ArrCap =>
                  \A i \in DOMAIN all.val : i % 2 = 1 =>
                     \E f \in fields : all.val[i] = f /\ all.val[i + 1] = d[f]
            /\ Tells(hmget_command(db, k, order), [i \in DOMAIN order |-> d[order[i]]])
            /\ \A f \in Field : hexists_command(db, k, f).val = IF f \in fields THEN 1 ELSE 0

\* The replies of the set algebra, of smembers, keys, mget and hmget, and of hkeys,
\* hvals and hgetall list what is asked for, in whichever order the table has it and
\* whichever set sinter begins with, as long as the array does not overflow; the
\* pairs of hgetall are a field and its value.
ArraysAgree ==
    /\ \A order \in Orders :
          /\ \A keys \in KeyArgs : SetAgrees(keys, order)
          /\ \A k \in Key :
                /\ HashAgrees(k, order)
                /\ ~WrongType(db, k, "set") =>
                       ListsSet(smembers_command(db, k, order), Fields(db[k]))
    /\ \A order \in KeyOrders, s \in SUBSET Key :
          ListsSet(keys_command(db, order, s), {k \in s : ~Missing(db, k)})
    /\ \A keys \in KeyArgs : Tells(mget_command(db, keys), [i \in DOMAIN keys |-> db[keys[i]].val])

\* The numbers that commands reply tell what they have changed: those of sadd, srem,
\* hdel and del how much larger or smaller the collection or the keyspace is, also
\* if an argument is repeated, that of hset whether the field is new, that of smove
\* whether both sets are as they should be, that of msetnx whether all keys have
\* their value or none has, and those of scard and hlen what is left.
RepliesTellChange ==
    /\ \A k \in Key, fields \in FieldArgs :
          LET add == sadd_command(db, k, fields)
              hdel == hdel_command(db, k, fields)
              srem == srem_command(db, k, fields)
              size == Cardinality(Fields(db[k]))
          IN  /\ add.ret = "int" => /\ add.val = scard_command(add.db, k).val - size
                                    /\ ToSet(fields) \subseteq Fields(add.db[k])
              /\ \A r \in {hdel, srem} :
                    r.ret = "int" => /\ r.val = size - Cardinality(Fields(r.db[k]))
                                     /\ ToSet(fields) \cap Fields(r.db[k]) = {}
    /\ \A keys \in KeyArgs :
          LET there(d) == {k \in Key : exists_command(d, k).val = 1}
              r == del_command(db, keys)
          IN  r.val = Cardinality(there(db)) - Cardinality(there(r.db))
    /\ \A keys \in KeyArgs, v \in Arg :
          LET r == msetnx_command(db, keys, v)
          IN  IF r.val = 0 THEN r.db = db
              ELSE \A k \in ToSet(keys) :
                      type_command(db, k).val = "none" /\ get_command(r.db, k).val = v
    /\ \A k \in Key, f \in Field, v \in Arg :
          LET r == hset_command(db, k, f, v)
          IN  r.ret = "int" => /\ r.val = hlen_command(r.db, k).val - Cardinality(Fields(db[k]))
                               /\ hget_command(r.db, k, f).val = v
    /\ \A src, dst \in Key, f \in Field :
          LET r == smove_command(db, src, dst, f)
          IN  /\ r.ret = "int" /\ r.val = 1 =>
                     /\ sismember_command(db, src, f).val = 1
                     /\ sismember_command(r.db, dst, f).val = 1
                     /\ src # dst => sismember_command(r.db, src, f).val = 0
              /\ r.ret = "int" /\ r.val = 0 => r.db = db
=============================================================================
