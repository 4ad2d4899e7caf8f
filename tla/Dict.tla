-------------------------------- MODULE Dict --------------------------------
(***************************************************************************)
(* The hash table of server/dict.c in two of its uses: the keyspace, whose *)
(* keys are renamed and drawn at random, and a set, which one client walks *)
(* with sscan while the commands of others change it between its calls.    *)
(*                                                                         *)
(* A chain of the table is the sequence of its entries.  The table never   *)
(* grows: the build does not define DICT_RESIZE.  A set that sadd creates  *)
(* anew has as many slots as the one before it.                            *)
(***************************************************************************)
EXTENDS Integers, Sequences, FiniteSets, SequencesExt

CONSTANTS Key, Val,
          None,      \* no value, no key
          SetVal,    \* SET_VAL_PTR, the value of every entry of a set
          NBuckets,  \* slots of the table
          Hash,      \* the slot of each key: dict_get_hash(key) & bit_mask
          Uses,      \* what a table is used for, of "keyspace" and "set"
          Count,     \* the COUNT options of sscan that are tried
          ArrCap,    \* the values of _rply_arr_len, 2^8
          MaxDrift   \* bound: how many renamed entries may be left uncounted

Bucket == 0..(NBuckets - 1)

ASSUME DictAssumption ==
    /\ NBuckets \in Nat \ {0}
    /\ Hash \in [Key -> Bucket]
    /\ Uses \subseteq {"keyspace", "set"}
    /\ Count \subseteq Int
    /\ ArrCap \in Nat \ {0}
    /\ MaxDrift \in Nat
    /\ None \notin Key \cup Val \cup Bucket
    /\ SetVal \in Val

VARIABLES
    use,     \* what this table is used for
    tbl,     \* hash_tbl
    num,     \* entry_num; a negative number is a size_t that has wrapped
    found,   \* did the latest operation find its key
    random,  \* the latest operation, if randomkey: a key, None for nil, "loops"
             \* for no answer; "unasked" if another
    cursor,  \* the cursor of the next sscan call, None if the client has none
    seen,    \* what the calls of the present scan have returned
    held,    \* history: keys that have been there since the scan began
    wrapped, \* history: did the reply array of a call of the scan overflow
    uncounted  \* history: entries that dict_rename linked and did not count

scanVars == <<cursor, seen, held, wrapped>>
vars == <<use, tbl, num, found, random, cursor, seen, held, wrapped, uncounted>>

-----------------------------------------------------------------------------
(* Chains *)

Entry(k, v) == [key |-> k, val |-> v]

\* Does the walk along the chain of k come to an entry of k, and at which place?
Has(t, k) == \E i \in DOMAIN t[Hash[k]] : t[Hash[k]][i].key = k
dict_look_up_hash(t, k) == CHOOSE i \in DOMAIN t[Hash[k]] : t[Hash[k]][i].key = k

ValueOf(t, k) == t[Hash[k]][dict_look_up_hash(t, k)].val

Unlinked(t, k) == [t EXCEPT ![Hash[k]] = RemoveAt(@, dict_look_up_hash(t, k))]
Replaced(t, k, v) == [t EXCEPT ![Hash[k]][dict_look_up_hash(t, k)] = Entry(k, v)]

\* A variant with a fault: the chain begins anew with the entry.
Linked_head(t, k, v) == [t EXCEPT ![Hash[k]] = <<Entry(k, v)>>]

Linked(t, k, v) == [t EXCEPT ![Hash[k]] = Append(@, Entry(k, v))]

Present == {k \in Key : Has(tbl, k)}

-----------------------------------------------------------------------------
(* Operations *)

\* set_add passes SetVal.
dict_add(k, v) ==
    /\ use = "set" <=> v = SetVal
    /\ found' = Has(tbl, k)
    /\ \/ /\ Has(tbl, k)
          /\ tbl' = Replaced(tbl, k, v)
          /\ num' = num
       \/ /\ ~Has(tbl, k)
          /\ tbl' = Linked(tbl, k, v)
          /\ num' = num + 1
    /\ random' = "unasked"
    /\ UNCHANGED <<use, scanVars, uncounted>>

\* A variant with a fault: the number of entries is not kept.
dict_rm_uncounted(k) ==
    /\ found' = Has(tbl, k)
    /\ tbl' = IF Has(tbl, k) THEN Unlinked(tbl, k) ELSE tbl
    /\ num' = num
    /\ held' = held \ {k}
    /\ random' = "unasked"
    /\ UNCHANGED <<use, cursor, seen, wrapped, uncounted>>

dict_rm(k) ==
    /\ found' = Has(tbl, k)
    /\ \/ /\ Has(tbl, k)
          /\ tbl' = Unlinked(tbl, k)
          /\ num' = num - 1
       \/ /\ ~Has(tbl, k)
          /\ UNCHANGED <<tbl, num>>
    /\ held' = held \ {k}
    /\ random' = "unasked"
    /\ UNCHANGED <<use, cursor, seen, wrapped, uncounted>>

\* A variant with a fault: the new key is not looked up.
dict_rename_blind(k, n) ==
    /\ use = "keyspace"
    /\ uncounted < MaxDrift
    /\ Has(tbl, k)
    /\ found' = TRUE
    /\ tbl' = Linked(Unlinked(tbl, k), n, ValueOf(tbl, k))
    /\ num' = num - 1
    /\ uncounted' = uncounted + 1
    /\ held' = held \ {k}
    /\ random' = "unasked"
    /\ UNCHANGED <<use, cursor, seen, wrapped>>

\* The entry is unlinked by dict_rm_nf, which counts it out.  It is not counted
\* in again when it is linked under its new key.  If the new key is there, its
\* entry takes the value and one entry less is right.
dict_rename(k, n) ==
    /\ use = "keyspace"
    /\ uncounted < MaxDrift
    /\ found' = Has(tbl, k)
    /\ \/ /\ Has(tbl, k)
          /\ LET t == Unlinked(tbl, k)
                 v == ValueOf(tbl, k)
             IN  \/ /\ Has(t, n)
                    /\ tbl' = Replaced(t, n, v)
                    /\ uncounted' = uncounted
                 \/ /\ ~Has(t, n)
                    /\ tbl' = Linked(t, n, v)
                    /\ uncounted' = uncounted + 1
          /\ num' = num - 1
          /\ held' = held \ {k}
       \/ /\ ~Has(tbl, k)
          /\ UNCHANGED <<tbl, num, held, uncounted>>
    /\ random' = "unasked"
    /\ UNCHANGED <<use, cursor, seen, wrapped>>

dict_look_up(k) ==
    /\ found' = Has(tbl, k)
    /\ random' = "unasked"
    /\ UNCHANGED <<use, tbl, num, scanVars, uncounted>>

\* dict_random_elem draws slots until it has found one that is in use.
RandomElem == IF Present = {} THEN {"loops"} ELSE Present

\* randomkey answers nil if it is told that there are no entries.
randomkey ==
    /\ use = "keyspace"
    /\ random' \in IF num = 0 THEN {None} ELSE RandomElem
    /\ UNCHANGED <<use, tbl, num, found, scanVars, uncounted>>

-----------------------------------------------------------------------------
(* sscan *)

\* Entries in the slots from a to b.
EntriesFrom(a, b) == SumFunctionOnSet([s \in a..b |-> Len(tbl[s])], a..b)

\* What a call has added to the reply array after slots a to b: num_bss, in which
\* the cursor will be, and the keys.
Added(a, b) == 1 + EntriesFrom(a, b)

\* _rply_arr_len then.
ArrLen(a, b) == Added(a, b) % ArrCap

\* The loop of sscan_command ends after slot b.  Its other bound, iter_num >= 0,
\* is always true of a size_t.
Stops(a, b, count) == b = NBuckets - 1 \/ ArrLen(a, b) - 1 >= count

LastSlot(a, count) ==
    CHOOSE b \in a..(NBuckets - 1) :
        /\ Stops(a, b, count)
        /\ \A s \in a..(b - 1) : ~Stops(a, s, count)

\* The array holds the latest ArrLen additions.  The client reads the first of
\* them as the cursor and the others as members.
Received(a, b, n) == n > Added(a, b) - ArrLen(a, b) + 1

\* The keys in the slots from a to b that get through to the client; the i-th
\* of a slot has been added i places after all that was added before the slot.
KeysSent(a, b) ==
    {k \in Key : \E s \in a..b : \E i \in DOMAIN tbl[s] :
        tbl[s][i].key = k /\ Received(a, b, Added(a, s - 1) + i)}

\* A variant with a fault: the cursor that is returned is one too far.
NextCursor_over(b) == (b + 2) % NBuckets

\* A variant with a fault: the cursor is not masked.
NextCursor_bare(b) == b + 1

\* dict_scan returns the next slot, 0 after the last.
NextCursor(b) == (b + 1) % NBuckets

\* The next call is the first of a scan.
First == cursor \in {0, None}
From == IF First THEN 0 ELSE cursor

\* What the client takes for the cursor: if a key has been written over num_bss,
\* whatever number it may read as, if any, and none if the array is empty.
CursorRead(b) ==
    IF Added(From, b) < ArrCap THEN {NextCursor(b)}
    ELSE IF ArrLen(From, b) = 0 THEN {None}
    ELSE Bucket \cup {None}

\* One call on a set that is there.
sscan(count) ==
    LET b == LastSlot(From, count)
        got == KeysSent(From, b)
    IN  /\ use = "set"
        /\ seen' = IF First THEN got ELSE seen \cup got
        /\ held' = IF First THEN Present ELSE held
        /\ wrapped' = (Added(From, b) >= ArrCap \/ (wrapped /\ ~First))
        /\ cursor' \in CursorRead(b)
        /\ random' = "unasked"
        /\ UNCHANGED <<use, tbl, num, found, uncounted>>

\* A set that is not there has no keys, and cursor 0 is answered at once.
sscan_absent ==
    /\ use = "set"
    /\ Present = {}
    /\ seen' = IF First THEN {} ELSE seen
    /\ held' = IF First THEN {} ELSE held
    /\ wrapped' = (wrapped /\ ~First)
    /\ cursor' = 0
    /\ random' = "unasked"
    /\ UNCHANGED <<use, tbl, num, found, uncounted>>

-----------------------------------------------------------------------------

Init ==
    /\ use \in Uses
    /\ tbl = [b \in Bucket |-> <<>>]
    /\ num = 0
    /\ found = FALSE
    /\ random = "unasked"
    /\ cursor = 0
    /\ seen = {}
    /\ held = {}
    /\ wrapped = FALSE
    /\ uncounted = 0

\* randomkey that finds no entry never returns.
Next ==
    /\ random # "loops"
    /\ \/ \E k \in Key : \/ \E v \in Val : dict_add(k, v)
                         \/ dict_rm(k)
                         \/ \E n \in Key : dict_rename(k, n)
                         \/ dict_look_up(k)
       \/ randomkey
       \/ \E count \in Count : sscan(count)
       \/ sscan_absent

Spec == Init /\ [][Next]_vars

-----------------------------------------------------------------------------
(* Properties *)

\* Type invariant.
TypeOK ==
    /\ use \in Uses
    /\ tbl \in [Bucket -> Seq([key : Key, val : Val])]
    /\ num \in Int
    /\ found \in BOOLEAN
    /\ random \in Key \cup {None, "loops", "unasked"}
    /\ cursor \in Bucket \cup {None}
    /\ seen \subseteq Key
    /\ held \subseteq Key
    /\ wrapped \in BOOLEAN
    /\ uncounted \in 0..MaxDrift

\* Every entry is in the chain of its key, and no key has two.
ChainsSound ==
    /\ \A b \in Bucket : \A i \in DOMAIN tbl[b] : Hash[tbl[b][i].key] = b
    /\ \A b \in Bucket : \A i, j \in DOMAIN tbl[b] : tbl[b][i].key = tbl[b][j].key => i = j

map == [k \in Key |-> IF Has(tbl, k) THEN ValueOf(tbl, k) ELSE None]
Abs == INSTANCE KeyMap WITH map <- map, found <- found

\* The table is a map: an operation on one key changes no other key, wherever
\* their entries are in the chains, and finds its key exactly if it is there.
IsMap == Abs!Spec

\* entry_num, which scard, hlen and randomkey report from, counts the entries
\* but for those that dict_rename moved to a key that was free: it is behind by
\* exactly one for each of these, whatever happens to them afterwards.
NumCounts == num + uncounted = Cardinality(Present)

\* In a keyspace where no entry has been left uncounted, randomkey answers a key
\* that is there, answers nil only if there is none, and always answers.
RandomAnswers ==
    random # "unasked" /\ uncounted = 0 =>
        random \in Present \/ (random = None /\ Present = {})

\* A scan that has come back to cursor 0, and no call of which has met as many
\* members as overflow the reply array, has returned every key that has been
\* there from its first call to its last, whatever was added and removed
\* between the calls.
ScanComplete == cursor = 0 /\ ~wrapped => held \subseteq seen

\* While such a scan is under way, each of these keys is in seen or ahead of the
\* cursor.
ScanSoFar ==
    /\ held \subseteq Present
    /\ cursor = None => wrapped
    /\ ~wrapped => \A k \in held : k \in seen \/ (cursor # 0 /\ Hash[k] >= cursor)
=============================================================================
