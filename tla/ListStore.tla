------------------------------ MODULE ListStore ------------------------------
(***************************************************************************)
(* The keyspace of pseudo-redis as the list commands of server/commands.c  *)
(* see it, and those commands as operators on it.                          *)
(*                                                                         *)
(* The keyspace is a function from keys to objects.  An object has one of  *)
(* the type tags of server/obj.h; a list object carries its elements from  *)
(* head to tail.  What a string object holds is never read by a list       *)
(* command, so strings have no contents here.                              *)
(*                                                                         *)
(* Each command operator takes the keyspace and the parsed arguments and   *)
(* returns a result: the keyspace the command leaves behind, how the       *)
(* command ended (ret) and what it hands to the reply (val).  ret is       *)
(*   "ok" "int" "nil" "str" "arr"   the reply of that type                 *)
(*   "fail"        an error reply, WRONG_TYPE or another                   *)
(*   "blocked"     E_BLOCKED, only from the blocking commands              *)
(*   "crash"       a NULL entry is dereferenced: the process dies          *)
(*   "doublefree"  an argument is freed a second time on an error path     *)
(* Running out of memory is not modelled.                                  *)
(***************************************************************************)
EXTENDS Integers, Sequences, FiniteSets, SequencesExt

CONSTANTS Key,    \* the keys
          Elem,   \* the strings that can be list elements
          ArrCap  \* the values of _rply_arr_len, 2^8

Obj == [type : {"none", "string", "list"}, items : Seq(Elem)]

\* A keyspace; only list objects have elements.
KeyspaceOK(db) ==
    /\ db \in [Key -> Obj]
    /\ \A k \in Key : db[k].type # "list" => db[k].items = <<>>

NoObj == [type |-> "none", items |-> <<>>]
StrObj == [type |-> "string", items |-> <<>>]
ListObj(s) == [type |-> "list", items |-> s]

Result(ret, db, val) == [ret |-> ret, db |-> db, val |-> val]
Missing(db, k) == db[k].type = "none"
WrongType(db, k) == db[k].type = "string"

-----------------------------------------------------------------------------
(* What the commands need of dict.c and list.c *)

dict_rm(db, k) == [db EXCEPT ![k] = NoObj]
dict_add(db, k, obj) == [db EXCEPT ![k] = obj]

\* list_pop_front and list_pop_back of a list that is not empty.
list_pop(s, side) == IF side = "left" THEN Head(s) ELSE Last(s)
list_rest(s, side) == IF side = "left" THEN Tail(s) ELSE Front(s)

list_insert(s, side, e) == IF side = "left" THEN <<e>> \o s ELSE Append(s, e)

\* A variant with a fault: the loop over the values stops one short.
list_insert_all_short(s, side, vals) ==
    IF side = "left" THEN Reverse(Front(vals)) \o s ELSE s \o Front(vals)

\* list_insert of the values one after the other.
list_insert_all(s, side, vals) ==
    IF side = "left" THEN Reverse(vals) \o s ELSE s \o vals

\* A variant with a fault: an empty list stays.
EndIfEmpty_never(db, k, rest, rmkey) == dict_add(db, k, ListObj(rest))

\* A variant with a fault: the list ends its life one element early.
EndIfEmpty_early(db, k, rest, rmkey) ==
    IF Len(rest) <= 1 THEN dict_rm(db, rmkey) ELSE dict_add(db, k, ListObj(rest))

\* "if the list is empty, end it's life": the keyspace with rest stored at k,
\* where rmkey, the key the command passes to dict_rm, goes if rest is empty.
EndIfEmpty(db, k, rest, rmkey) ==
    LET stored == dict_add(db, k, ListObj(rest))
    IN  IF rest = <<>> THEN dict_rm(stored, rmkey) ELSE stored

-----------------------------------------------------------------------------
(* Blocking pops *)

\* A variant with a fault: only the first key is looked at.
FirstPresent_one(db, keys) == IF Missing(db, keys[1]) THEN 0 ELSE 1

\* The first of the keys that exists, 0 if none does.
FirstPresent(db, keys) == SelectInSeq(keys, LAMBDA k : ~Missing(db, k))

\* The key whose list ends its life is always args[0], also when the element
\* came from the list of a later key.
blpopbrpop_command(db, side, keys) ==
    LET i == FirstPresent(db, keys)
        s == db[keys[i]].items
    IN  IF i = 0 THEN Result("blocked", db, <<>>)
        ELSE IF WrongType(db, keys[i]) THEN Result("fail", db, <<>>)
        ELSE IF s = <<>> THEN Result("crash", db, <<>>)
        ELSE Result("arr",
                    EndIfEmpty(db, keys[i], list_rest(s, side), keys[1]),
                    <<list_pop(s, side)>>)

\* Both halves of rpoplpush and brpoplpush once the source is known to be a
\* list: the pop happens before the type of the destination is looked at.
PopPush(db, src, dst, ret) ==
    LET s == db[src].items
        popped == EndIfEmpty(db, src, list_rest(s, "right"), src)
        e == list_pop(s, "right")
    IN  IF s = <<>>
        THEN Result(IF WrongType(db, dst) THEN "doublefree" ELSE "crash",
                    dict_rm(db, src), <<>>)
        ELSE IF WrongType(popped, dst) THEN Result("doublefree", popped, <<>>)
        ELSE Result(ret,
                    dict_add(popped, dst,
                             ListObj(list_insert(popped[dst].items, "left", e))),
                    <<e>>)

brpoplpush_command(db, src, dst) ==
    IF Missing(db, src) THEN Result("blocked", db, <<>>)
    ELSE IF WrongType(db, src) THEN Result("fail", db, <<>>)
    ELSE PopPush(db, src, dst, "arr")

rpoplpush_command(db, src, dst) ==
    IF Missing(db, src) THEN Result("nil", db, <<>>)
    ELSE IF WrongType(db, src) THEN Result("fail", db, <<>>)
    ELSE PopPush(db, src, dst, "str")

-----------------------------------------------------------------------------
(* Pops and pushes *)

lpoprpop_command(db, side, k) ==
    LET s == db[k].items
    IN  IF Missing(db, k) THEN Result("nil", db, <<>>)
        ELSE IF WrongType(db, k) THEN Result("fail", db, <<>>)
        ELSE IF s = <<>> THEN Result("crash", db, <<>>)
        ELSE Result("str", EndIfEmpty(db, k, list_rest(s, side), k),
                    <<list_pop(s, side)>>)

lpushrpush_command(db, side, k, vals) ==
    LET s == list_insert_all(db[k].items, side, vals)
    IN  IF WrongType(db, k) THEN Result("fail", db, <<>>)
        ELSE Result("int", dict_add(db, k, ListObj(s)), Len(s))

\* lpushx and rpushx forward to lpush and rpush.
lpushxrpushx_command(db, side, k, e) == lpushrpush_command(db, side, k, <<e>>)

llen_command(db, k) ==
    IF WrongType(db, k) THEN Result("fail", db, <<>>)
    ELSE Result("int", db, Len(db[k].items))

-----------------------------------------------------------------------------
(* Commands that address elements by offset *)

\* An offset counts from the tail when negative.
FromTail(s, i) == IF i < 0 THEN i + Len(s) ELSE i

\* The first offset of lrange and ltrim is cut off at the head.
FirstOffset(s, i) == IF FromTail(s, i) < 0 THEN 0 ELSE FromTail(s, i)

\* A variant with a fault: a range of one element counts as empty.
OutOfRange_strict(s, i, j) ==
    \/ FromTail(s, j) <= FirstOffset(s, i)
    \/ FirstOffset(s, i) >= Len(s)

\* The offsets are crossed, or the first one is beyond the tail.
OutOfRange(s, i, j) ==
    \/ FromTail(s, j) < FirstOffset(s, i)
    \/ FirstOffset(s, i) >= Len(s)

\* The elements the loops of lrange and ltrim walk over.
Slice(s, i, j) ==
    IF FromTail(s, j) < Len(s)
    THEN SubSeq(s, FirstOffset(s, i) + 1, FromTail(s, j) + 1)
    ELSE SubSeq(s, FirstOffset(s, i) + 1, Len(s))

\* What reset_reply_arr, then addto_reply_arr of each of the cells, leave in the
\* array.  The length counts modulo ArrCap, so that it never is MAX_ARGS: each
\* time it is 0 again, the cells are overwritten from the first one on.
Filled(cells) ==
    LET n == Len(cells)
    IN  SubSeq(cells, n - (n % ArrCap) + 1, n)

lrange_command(db, k, i, j) ==
    LET s == db[k].items
    IN  IF WrongType(db, k) THEN Result("fail", db, <<>>)
        ELSE Result("arr", db, IF OutOfRange(s, i, j) THEN <<>> ELSE Filled(Slice(s, i, j)))

ltrim_command(db, k, i, j) ==
    LET s == db[k].items
    IN  IF Missing(db, k) THEN Result("ok", db, <<>>)
        ELSE IF WrongType(db, k) THEN Result("fail", db, <<>>)
        ELSE IF OutOfRange(s, i, j) THEN Result("ok", dict_rm(db, k), <<>>)
        ELSE Result("ok", dict_add(db, k, ListObj(Slice(s, i, j))), <<>>)

InList(s, i) == FromTail(s, i) >= 0 /\ FromTail(s, i) < Len(s)

lindex_command(db, k, i) ==
    LET s == db[k].items
    IN  IF WrongType(db, k) THEN Result("fail", db, <<>>)
        ELSE IF Missing(db, k) \/ ~InList(s, i) THEN Result("nil", db, <<>>)
        ELSE Result("str", db, <<s[FromTail(s, i) + 1]>>)

lset_command(db, k, i, e) ==
    LET s == db[k].items
    IN  IF WrongType(db, k) THEN Result("fail", db, <<>>)
        ELSE IF Missing(db, k) \/ ~InList(s, i) THEN Result("nil", db, <<>>)
        ELSE Result("str",
                    dict_add(db, k, ListObj([s EXCEPT ![FromTail(s, i) + 1] = e])),
                    <<e>>)

-----------------------------------------------------------------------------
(* Commands that address elements by value *)

\* One pass of _lrem over s in the given order: up to max entries equal to e
\* are unlinked, the others stay in place.
RemovePass(s, e, max) ==
    FoldLeft(LAMBDA acc, x : IF x = e /\ acc.count < max
                             THEN [acc EXCEPT !.count = @ + 1]
                             ELSE [acc EXCEPT !.left = Append(@, x)],
             [left |-> <<>>, count |-> 0], s)

\* A variant with a fault: a negative count also starts at the head.
lrem_head(s, target, e) ==
    RemovePass(s, e, IF target = 0 THEN Len(s) ELSE IF target < 0 THEN -target ELSE target)

\* The negation of a count is exact here; the smallest integer has none.
lrem(s, target, e) ==
    IF target > 0 THEN RemovePass(s, e, target)
    ELSE IF target = 0 THEN RemovePass(s, e, Len(s))
    ELSE LET r == RemovePass(Reverse(s), e, -target)
         IN  [r EXCEPT !.left = Reverse(@)]

lrem_command(db, k, target, e) ==
    LET r == lrem(db[k].items, target, e)
    IN  IF Missing(db, k) THEN Result("int", db, 0)
        ELSE IF WrongType(db, k) THEN Result("fail", db, <<>>)
        ELSE Result("int", EndIfEmpty(db, k, r.left, k), r.count)

\* A variant with a fault: the two directions are swapped.
InsertPos_swapped(direction, i) == IF direction = "before" THEN i + 1 ELSE i

InsertPos(direction, i) == IF direction = "after" THEN i + 1 ELSE i

\* direction is "before" or "after"; any other word is a syntax error.
linsert_command(db, k, direction, pivot, e) ==
    LET s == db[k].items
        i == SelectInSeq(s, LAMBDA x : x = pivot)
        t == InsertAt(s, InsertPos(direction, i), e)
    IN  IF direction \notin {"before", "after"} THEN Result("fail", db, <<>>)
        ELSE IF Missing(db, k) THEN Result("int", db, 0)
        ELSE IF WrongType(db, k) THEN Result("fail", db, <<>>)
        ELSE IF i = 0 THEN Result("int", db, -1)
        ELSE Result("int", dict_add(db, k, ListObj(t)), Len(t))

-----------------------------------------------------------------------------
(* The two commands on whole objects that the list commands meet *)

\* A variant with a fault: the type changes and the elements stay.
set_command_keeps(db, k) == Result("ok", [db EXCEPT ![k].type = "string"], <<>>)

set_command(db, k) == Result("ok", dict_add(db, k, StrObj), <<>>)

del_command(db, keys) ==
    Result("int", [k \in Key |-> IF k \in ToSet(keys) THEN NoObj ELSE db[k]],
           Cardinality({k \in ToSet(keys) : ~Missing(db, k)}))
=============================================================================
