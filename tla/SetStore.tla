------------------------------ MODULE SetStore ------------------------------
(***************************************************************************)
(* The set commands of server/commands.c as operators on the keyspace of   *)
(* DataStore.                                                              *)
(*                                                                         *)
(* sdiff, sinter and sunion work on a temporary table, which is shallow:   *)
(* its keys are the strings of the members of the sets it was filled from. *)
(* Here it is a function from fields to the key of the set whose string    *)
(* the entry has, and with it goes the set of the strings that have been   *)
(* freed, as pairs of the key of a set and a member.                       *)
(***************************************************************************)
EXTENDS HashStore

sadd_command(db, k, members) ==
    LET old == db[k].dict
        new == [f \in Field |-> IF f \in ToSet(members) /\ old[f] = None THEN SetVal ELSE old[f]]
    IN  IF WrongType(db, k, "set") THEN Fail(db)
        ELSE IntReply(Put(db, k, SetObj(new)), Cardinality(ToSet(members) \ Fields(db[k])))

srem_command(db, k, members) == hdelsrem_command(db, k, members, "set")

\* A variant with a fault: the type of the destination is looked at too late.
smove_command_late(db, src, dst, f) ==
    LET moved == Put(db, src, SetObj([db[src].dict EXCEPT ![f] = None]))
    IN  IF WrongType(db, src, "set") THEN Fail(db)
        ELSE IF Missing(db, src) \/ f \notin Fields(db[src]) THEN IntReply(db, 0)
        ELSE IF WrongType(db, dst, "set") THEN Fail(moved)
        ELSE IF Missing(db, dst) THEN Result("wild", moved, None)
        ELSE IntReply(Put(moved, dst, SetObj([moved[dst].dict EXCEPT ![f] = SetVal])), 1)

\* A destination that is missing is used all the same, and a source that is empty
\* stays.
smove_command(db, src, dst, f) ==
    LET moved == Put(db, src, SetObj([db[src].dict EXCEPT ![f] = None]))
    IN  IF WrongType(db, src, "set") \/ WrongType(db, dst, "set") THEN Fail(db)
        ELSE IF Missing(db, src) \/ f \notin Fields(db[src]) THEN IntReply(db, 0)
        ELSE IF Missing(db, dst) THEN Result("wild", moved, None)
        ELSE IntReply(Put(moved, dst, SetObj([moved[dst].dict EXCEPT ![f] = SetVal])), 1)

scard_command(db, k) == entry_num_command(db, k, "set")

\* f is the member that dict_random_elem draws; in an empty set it draws for ever.
\* The set stays when it has lost its last member.
spop_command(db, k, f) ==
    IF WrongType(db, k, "set") THEN Fail(db)
    ELSE IF Missing(db, k) THEN Result("nil", db, None)
    ELSE IF Fields(db[k]) = {} THEN Result("loops", db, None)
    ELSE Result("str", Put(db, k, SetObj([db[k].dict EXCEPT ![f] = None])), f)

\* The members spop can draw; any field where it draws none.
Drawn(db, k) == IF Fields(db[k]) = {} THEN Field ELSE Fields(db[k])

\* spop and srandmember with a count are empty functions.
spop_cnt_command(db) == Result("stale", db, None)

\* The set that a member is drawn from is never looked up.
srandmember_command(db, k) ==
    IF WrongType(db, k, "set") THEN Fail(db)
    ELSE IF Missing(db, k) THEN Result("nil", db, None)
    ELSE Result("wild", db, None)

sismember_command(db, k, f) == has_command(db, k, f, "set")
smembers_command(db, k, order) == hkeyssmembers_command(db, k, order, "set")

-----------------------------------------------------------------------------
(* The temporary table *)

NoTemp == [owner |-> [f \in Field |-> None], freed |-> {}]

\* dict_add of every member of k: a key that is there is freed and replaced.
AddAll(db, tmp, k) ==
    LET both == {f \in Fields(db[k]) : tmp.owner[f] # None}
    IN  [owner |-> [f \in Field |-> IF f \in Fields(db[k]) THEN k ELSE tmp.owner[f]],
         freed |-> tmp.freed \cup {<<tmp.owner[f], f>> : f \in both}]

\* dict_add_shallow of every member of k.
AddAllShallow(db, tmp, k) ==
    [tmp EXCEPT !.owner =
        [f \in Field |-> IF f \in Fields(db[k]) /\ @[f] = None THEN k ELSE @[f]]]

\* dict_rm_nf of the fields in gone.
RmAll(tmp, gone) == [tmp EXCEPT !.owner = [f \in Field |-> IF f \in gone THEN None ELSE @[f]]]

\* dict_destroy_shallow frees no key.
WithoutFreed(db, tmp) ==
    [k \in Key |-> IF db[k].type # "set" THEN db[k]
                   ELSE [db[k] EXCEPT !.dict =
                            [f \in Field |-> IF <<k, f>> \in tmp.freed THEN Freed ELSE @[f]]]]

TempReply(db, tmp, order) ==
    ArrReply(WithoutFreed(db, tmp), Walked(order, {f \in Field : tmp.owner[f] # None}))

AnyWrongType(db, keys) == \E i \in DOMAIN keys : WrongType(db, keys[i], "set")

sdiff_command(db, keys, order) ==
    LET Diff(tmp, k) == RmAll(tmp, Fields(db[k]))
        tmp == FoldLeft(Diff, AddAll(db, NoTemp, Head(keys)), Tail(keys))
    IN  IF AnyWrongType(db, keys) THEN Fail(db)
        ELSE TempReply(db, tmp, order)

\* The first of the sets with the fewest members.
Smallest(db, keys) ==
    FoldLeft(LAMBDA s, k : IF Cardinality(Fields(db[k])) < Cardinality(Fields(db[s]))
                           THEN k ELSE s,
             Head(keys), Tail(keys))

\* The copy loses what is not in each of the sets, its own among them.
sinter_command(db, keys, order) ==
    LET Inter(tmp, k) == RmAll(tmp, Field \ Fields(db[k]))
        tmp == FoldLeft(Inter, AddAll(db, NoTemp, Smallest(db, keys)), keys)
    IN  IF AnyWrongType(db, keys) THEN Fail(db)
        ELSE IF \E i \in DOMAIN keys : Missing(db, keys[i]) THEN ArrReply(db, <<>>)
        ELSE TempReply(db, tmp, order)

\* A variant with a fault: dict_add in the place of dict_add_shallow.
sunion_command_add(db, keys, order) ==
    IF AnyWrongType(db, keys) THEN Fail(db)
    ELSE TempReply(db, FoldLeft(LAMBDA tmp, k : AddAll(db, tmp, k), NoTemp, keys), order)

sunion_command(db, keys, order) ==
    IF AnyWrongType(db, keys) THEN Fail(db)
    ELSE TempReply(db, FoldLeft(LAMBDA tmp, k : AddAllShallow(db, tmp, k), NoTemp, keys), order)
=============================================================================
