------------------------------ MODULE DataStore ------------------------------
(***************************************************************************)
(* The keyspace of pseudo-redis as the commands on keys, scalars and       *)
(* hashes in server/commands.c see it, those commands as operators on it,  *)
(* and the array in which server/server.c collects an array reply.         *)
(*                                                                         *)
(* A value is an integer in the range of bss_int_t, standing for its       *)
(* canonical text, or one of three texts that are none: Empty, which       *)
(* counts as 0, Frac, a number that is no such integer, and Word, not a    *)
(* number.  A hash or a set is a function from fields to cells, None for a *)
(* field that is not there; the cell of a set member is SetVal, and Freed  *)
(* if the string of the member has been freed.                             *)
(*                                                                         *)
(* Each command operator returns a result: how it ended (ret), the         *)
(* keyspace it leaves behind and what it hands to the reply.  ret is       *)
(*   "ok" "int" "nil" "str" "arr"   the reply of that type                 *)
(*   "fail"    an error reply                                              *)
(*   "stale"   the function ends without a reply or a result               *)
(*   "wild"    a pointer that was never set is used                        *)
(*   "loops"   the command never returns                                   *)
(* Running out of memory and wrong numbers of arguments are not modelled.  *)
(***************************************************************************)
EXTENDS Integers, Sequences, FiniteSets, SequencesExt

CONSTANTS Key, Field,
          IntMax,    \* BSS_INT_MAX, 2^63 - 1
          PrintMax,  \* the largest number that "%d" prints, 2^31 - 1
          ArrCap,    \* the values of _rply_arr_len, 2^8
          MaxArgs,   \* MAX_ARGS, 1024
          Empty, Frac, Word,
          None, SetVal, Freed

IntMin == -IntMax - 1

ASSUME DataAssumption ==
    /\ IntMax \in Nat /\ PrintMax \in 0..IntMax
    /\ ArrCap \in Nat \ {0}
    /\ MaxArgs \in Nat \ 0..(ArrCap - 1)
    /\ Cardinality({Empty, Frac, Word, None, SetVal, Freed}) = 6
    /\ {Empty, Frac, Word, None, SetVal, Freed} \cap (IntMin..IntMax) = {}
    /\ None \notin Key

Value == (IntMin..IntMax) \cup {Empty, Frac, Word}

NoFields == [f \in Field |-> None]
Obj(type, val, dict) == [type |-> type, val |-> val, dict |-> dict]
NoObj == Obj("none", None, NoFields)
StrObj(v) == Obj("string", v, NoFields)
HashObj(d) == Obj("hash", None, d)
SetObj(d) == Obj("set", None, d)

ObjOK(o) ==
    \/ o = NoObj
    \/ \E v \in Value : o = StrObj(v)
    \/ o = HashObj(o.dict) /\ o.dict \in [Field -> Value \cup {None}]
    \/ o = SetObj(o.dict) /\ o.dict \in [Field -> {None, SetVal, Freed}]

Missing(db, k) == db[k].type = "none"
Fields(o) == {f \in Field : o.dict[f] # None}

Result(ret, db, val) == [ret |-> ret, db |-> db, val |-> val]
Fail(db) == Result("fail", db, None)
IntReply(db, n) == Result("int", db, n)
Put(db, k, o) == [db EXCEPT ![k] = o]

\* The missing object looks like an empty collection; CHECK_TYPE refuses all others.
WrongType(db, k, type) == db[k].type \notin {"none", type}

-----------------------------------------------------------------------------
(* The reply array *)

NoArr == [len |-> 0, cell |-> [i \in 0..(ArrCap - 1) |-> None]]

\* The length is compared with a number that it does not reach, and overflows.
addto_reply_arr(arr, x) ==
    IF arr.len = MaxArgs THEN arr
    ELSE [cell |-> [arr.cell EXCEPT ![arr.len] = x], len |-> (arr.len + 1) % ArrCap]

ArrReply(db, s) ==
    LET arr == FoldLeft(addto_reply_arr, NoArr, s)
    IN  Result("arr", db, [i \in 1..arr.len |-> arr.cell[i - 1]])

-----------------------------------------------------------------------------
(* Numbers: bss2int, bss_add_sub and what incrby, decrby and incrbyfloat do *)
(* with one cell, a string key or a field of a hash.                        *)

\* A variant with a fault: the number does not wrap.
Wrap_wide(n, max) == n

\* A number in two's complement, of which max is the largest.
Wrap(n, max) == ((n + max + 1) % (2 * (max + 1))) - (max + 1)

IsInteger(v) == v \in (IntMin..IntMax) \cup {Empty}
Number(v) == IF v = Empty THEN 0 ELSE v

Cell(ret, cell, val) == [ret |-> ret, cell |-> cell, val |-> val]

\* A variant with a fault: the upper limit is not a sum.
Overflows_strict(n, origin) ==
    IF n <= 0 THEN IntMin - n > origin ELSE IntMax - n <= origin

Overflows(n, origin) ==
    IF n <= 0 THEN IntMin - n > origin ELSE IntMax - n < origin

\* sign is 1 for incrby, -1 for decrby.  decrby prints the number it stores in a
\* cell that is missing with "%d"; otherwise the argument is stored as it is.
decrbyincrby(cell, arg, sign) ==
    LET by == Wrap(sign * Number(arg), IntMax)
        count == Number(cell)
    IN  IF ~IsInteger(arg) THEN Cell("fail", cell, None)
        ELSE IF cell = None
        THEN Cell("int", IF sign = -1 THEN Wrap(by, PrintMax) ELSE arg, by)
        ELSE IF ~IsInteger(cell) \/ Overflows(by, count) THEN Cell("fail", cell, None)
        ELSE Cell("int", by + count, Wrap(count + sign * Number(arg), IntMax))

\* What can become of the sum of two floats; Word if it is not finite or no sum.
FloatSum(a, b) ==
    IF ~{a, b} \subseteq Value \ {Word} THEN {Word}
    ELSE IF IsInteger(a) /\ IsInteger(b)
    THEN IF Number(a) + Number(b) \in IntMin..IntMax THEN {Number(a) + Number(b)} ELSE {Frac}
    ELSE IF IsInteger(a) \/ IsInteger(b) THEN {Frac}
    ELSE (IntMin..IntMax) \cup {Frac, Word}

IsFloat(v) == v # Word

\* sum is one of FloatSum(cell, arg), 0 in place of a cell that is missing.
FloatOf(cell) == IF cell = None THEN Empty ELSE cell
incrbyfloat(cell, arg, sum) ==
    IF ~IsFloat(arg) \/ ~IsFloat(FloatOf(cell)) \/ sum = Word THEN Cell("fail", cell, None)
    ELSE Cell("str", sum, sum)

-----------------------------------------------------------------------------
(* Commands on keys and scalars *)

set_command(db, k, v) == Result("ok", Put(db, k, StrObj(v)), None)

setnx_command(db, k, v) == IF Missing(db, k) THEN set_command(db, k, v) ELSE IntReply(db, 0)

get_command(db, k) ==
    IF WrongType(db, k, "string") THEN Fail(db)
    ELSE IF Missing(db, k) THEN Result("nil", db, None)
    ELSE Result("str", db, db[k].val)

mget_command(db, keys) == ArrReply(db, [i \in DOMAIN keys |-> db[keys[i]].val])

\* Every key gets a value of its own; one for all is enough here.
msetnx_command(db, keys, v) ==
    IF \E k \in ToSet(keys) : ~Missing(db, k) THEN IntReply(db, 0)
    ELSE IntReply([k \in Key |-> IF k \in ToSet(keys) THEN StrObj(v) ELSE db[k]], 1)

del_command(db, keys) ==
    IntReply([k \in Key |-> IF k \in ToSet(keys) THEN NoObj ELSE db[k]],
        Cardinality({k \in ToSet(keys) : ~Missing(db, k)}))

exists_command(db, k) == IntReply(db, IF Missing(db, k) THEN 0 ELSE 1)

\* What a walk through a table finds: those in s, in the order of the table.
Walked(order, s) ==
    FoldLeft(LAMBDA found, x : IF x \in s THEN Append(found, x) ELSE found, <<>>, order)

\* The keys in the order of the table; matching are those that fit the pattern.
keys_command(db, order, matching) ==
    ArrReply(db, Walked(order, {k \in matching : ~Missing(db, k)}))

rename_command(db, k, n) ==
    IF Missing(db, k) THEN Fail(db)
    ELSE Result("ok", Put(Put(db, k, NoObj), n, db[k]), None)

type_command(db, k) == Result("type", db, db[k].type)

\* The argument is looked at before the key.
ScalarStep(db, k, c) ==
    IF c.ret = "fail" \/ WrongType(db, k, "string") THEN Fail(db)
    ELSE Result(c.ret, Put(db, k, StrObj(c.cell)), c.val)

incrby_command(db, k, arg) == ScalarStep(db, k, decrbyincrby(db[k].val, arg, 1))
decrby_command(db, k, arg) == ScalarStep(db, k, decrbyincrby(db[k].val, arg, -1))
incr_command(db, k) == incrby_command(db, k, 1)
decr_command(db, k) == decrby_command(db, k, 1)
incrbyfloat_command(db, k, arg, sum) == ScalarStep(db, k, incrbyfloat(db[k].val, arg, sum))
=============================================================================
