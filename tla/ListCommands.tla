---------------------------- MODULE ListCommands ----------------------------
(***************************************************************************)
(* The list commands of server/commands.c run one after the other on the   *)
(* keyspace, each with any arguments: the keyspace, and the reply of the   *)
(* latest command.  A command that kills the process is the last one.      *)
(***************************************************************************)
EXTENDS Integers, Sequences, FiniteSets, SequencesExt, ListStore

CONSTANTS MaxLen,       \* bound: no push makes a list longer
          Offset,       \* the offsets and counts that are tried
          MaxBlockKeys  \* keys one blpop or brpop names at most

ASSUME BoundsAssumption ==
    /\ MaxLen \in Nat
    /\ Offset \subseteq Int
    /\ MaxBlockKeys \in Nat
    /\ ArrCap \in Nat \ {0}

VARIABLES db,    \* key_dict
          reply  \* the latest command, and what it answered

vars == <<db, reply>>

Side == {"left", "right"}
Up == reply.ret \notin {"crash", "doublefree"}

\* given is the number of elements the command brought along.
Do(op, k, given, res) ==
    /\ Up
    /\ db' = res.db
    /\ reply' = [op |-> op, key |-> k, given |-> given, ret |-> res.ret,
                 num |-> IF res.ret = "int" THEN res.val ELSE Len(res.val)]

Values == UNION {[1..n -> Elem] : n \in 1..2}
Room(k, n) == Len(db[k].items) + n <= MaxLen

push(k) == \E side \in Side, vals \in Values :
    /\ Room(k, Len(vals))
    /\ Do("push", k, Len(vals), lpushrpush_command(db, side, k, vals))

pushx(k) == \E side \in Side, e \in Elem :
    /\ Room(k, 1)
    /\ Do("pushx", k, 1, lpushxrpushx_command(db, side, k, e))

pop(k) == \E side \in Side : Do("pop", k, 0, lpoprpop_command(db, side, k))

blockpop == \E side \in Side, n \in 1..MaxBlockKeys : \E keys \in [1..n -> Key] :
    Do("blockpop", keys[1], 0, blpopbrpop_command(db, side, keys))

poppush(k) == \E dst \in Key :
    /\ Room(dst, 1) \/ dst = k
    /\ \/ Do("poppush", k, 0, rpoplpush_command(db, k, dst))
       \/ Do("poppush", k, 0, brpoplpush_command(db, k, dst))

look(k) ==
    \/ Do("look", k, 0, llen_command(db, k))
    \/ \E i, j \in Offset : Do("look", k, 0, lrange_command(db, k, i, j))
    \/ \E i \in Offset : Do("look", k, 0, lindex_command(db, k, i))

trim(k) == \E i, j \in Offset : Do("trim", k, 0, ltrim_command(db, k, i, j))

lset(k) == \E i \in Offset, e \in Elem : Do("lset", k, 1, lset_command(db, k, i, e))

rem(k) == \E n \in Offset, e \in Elem : Do("rem", k, 0, lrem_command(db, k, n, e))

insert(k) == \E where \in {"before", "after", "beside"}, pivot, e \in Elem :
    /\ Room(k, 1)
    /\ Do("insert", k, 1, linsert_command(db, k, where, pivot, e))

set(k) == Do("set", k, 0, set_command(db, k))
del(k) == \E other \in Key : Do("del", k, 0, del_command(db, <<k, other>>))

Init ==
    /\ db = [k \in Key |-> NoObj]
    /\ \E k \in Key :
          reply = [op |-> "none", key |-> k, given |-> 0, ret |-> "ok", num |-> 0]

Next ==
    \/ \E k \in Key : \/ push(k) \/ pushx(k) \/ pop(k) \/ poppush(k) \/ look(k)
                      \/ trim(k) \/ lset(k) \/ rem(k) \/ insert(k)
                      \/ set(k) \/ del(k)
    \/ blockpop

Spec == Init /\ [][Next]_vars

-----------------------------------------------------------------------------
(* Properties *)

\* Type invariant.
TypeOK ==
    /\ KeyspaceOK(db)
    /\ reply.key \in Key
    /\ reply.ret \in {"ok", "int", "nil", "str", "arr", "fail", "blocked", "crash",
                      "doublefree"}
    /\ reply.num \in Int

\* A list that has become empty has been removed, whatever command took the
\* last element, and for whatever key.  Only then is the pop of an existing
\* list safe: the pops do not look at the length.
NoEmptyList == \A k \in Key : db[k].type = "list" => db[k].items # <<>>

Total(d) == SumFunctionOnSet([k \in Key |-> Len(d[k].items)], Key)

\* The reply tells the change of the lists: a pop that answers an element took
\* one, a move took and gave one, lrem took as many as it says, a push or an
\* insertion that answers a length gave what it brought, all others nothing.
ReplyTellsChange ==
    [][LET change == Total(db') - Total(db)
           did == reply'.ret \in {"int", "str", "arr"}
       IN  reply'.op \notin {"trim", "set", "del"} /\ reply'.ret # "doublefree" =>
              change = CASE reply'.op \in {"pop", "blockpop"} /\ did -> -1
                         [] reply'.op = "rem" /\ did -> -reply'.num
                         [] reply'.op \in {"push", "pushx"} /\ did -> reply'.given
                         [] reply'.op = "insert" /\ did /\ reply'.num > 0 -> 1
                         [] OTHER -> 0]_vars

-----------------------------------------------------------------------------
(* The algorithms against reference definitions *)

\* The elements of s at the positions ps, in their order.
At(s, ps) ==
    LET Rank(p) == Cardinality({q \in ps : q <= p})
    IN  [r \in 1..Cardinality(ps) |-> s[CHOOSE p \in ps : Rank(p) = r]]

\* The element with p others in front of it is not before, not after offset i.
NotBefore(s, i, p) == IF i >= 0 THEN p >= i ELSE p - Len(s) >= i
NotAfter(s, j, p) == IF j >= 0 THEN p <= j ELSE p - Len(s) <= j

\* The elements of s from offset i to offset j.
Elements(s, i, j) ==
    At(s, {p \in DOMAIN s : NotBefore(s, i, p - 1) /\ NotAfter(s, j, p - 1)})

\* t is what s ends with.
EndsWith(s, t) ==
    /\ Len(t) <= Len(s)
    /\ \A p \in DOMAIN t : t[p] = s[Len(s) - Len(t) + p]

\* lrange answers the elements that are neither before the first offset nor
\* after the last, ltrim leaves exactly these, and lindex answers the one that
\* is neither before nor after its offset.  Of ArrCap elements or more, lrange
\* answers only the last ones, as many as the length of the reply array has
\* counted since it was 0 again: none of 256, one of 257.
RangesAgree ==
    \A k \in Key, i, j \in Offset :
        db[k].type = "list" =>
            LET range == Elements(db[k].items, i, j)
                answer == lrange_command(db, k, i, j).val
            IN  /\ EndsWith(range, answer)
                /\ Len(answer) = Len(range) % ArrCap
                /\ ltrim_command(db, k, i, j).db[k] =
                       (IF range = <<>> THEN NoObj ELSE ListObj(range))
                /\ i = j => lindex_command(db, k, i).val = range

\* lrem takes the occurrences of e whose rank, from the head for a positive
\* and from the tail for a negative count, is within the count, all for 0.
RemAgrees ==
    \A k \in Key, n \in Offset, e \in Elem :
        db[k].type = "list" =>
            LET s == db[k].items
                Hit(p) == s[p] = e
                Rank(p) == Cardinality({q \in DOMAIN s :
                                Hit(q) /\ (IF n > 0 THEN q <= p ELSE q >= p)})
                Taken(p) == Hit(p) /\ (n = 0 \/ Rank(p) <= (IF n > 0 THEN n ELSE -n))
                kept == At(s, {p \in DOMAIN s : ~Taken(p)})
            IN  /\ lrem(s, n, e).left = kept
                /\ lrem(s, n, e).count = Len(s) - Len(kept)

\* linsert adds the element directly before or after the first occurrence of
\* the pivot and moves nothing else.
InsertAgrees ==
    \A k \in Key, where \in {"before", "after"}, pivot, e \in Elem :
        pivot \in ToSet(db[k].items) =>
            LET s == db[k].items
                t == linsert_command(db, k, where, pivot, e).db[k].items
            IN  \E p \in DOMAIN s :
                   /\ s[p] = pivot
                   /\ pivot \notin ToSet(SubSeq(s, 1, p - 1))
                   /\ t = IF where = "before"
                          THEN SubSeq(s, 1, p - 1) \o <<e, pivot>> \o SubSeq(s, p + 1, Len(s))
                          ELSE SubSeq(s, 1, p) \o <<e>> \o SubSeq(s, p + 1, Len(s))
=============================================================================
