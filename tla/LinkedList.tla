----------------------------- MODULE LinkedList -----------------------------
(***************************************************************************)
(* The circular lists of server/list.c, pointer by pointer.  A list is a   *)
(* ring of entries through the head inside its list_t.  Commands splice    *)
(* entries in and out at both ends and in the middle, and carry them from  *)
(* one list to another.                                                    *)
(***************************************************************************)
EXTENDS Integers, Sequences, FiniteSets, SequencesExt

CONSTANTS List,   \* lists, each standing for the head in it as well
          Entry   \* list_entry_t's

Node == List \cup Entry

ASSUME NodesAssumption == List \cap Entry = {}

VARIABLES
    next, prev,  \* the pointers of each node; those of an entry that has been
                 \* taken out stay as they were
    num,         \* the number of entries each list keeps
    seq          \* history: what each list should hold, in order

vars == <<next, prev, num, seq>>

InSome(e) == \E l \in List : e \in ToSet(seq[l])
Loose(e) == e \in Entry /\ ~InSome(e)

-----------------------------------------------------------------------------
(* Operations on the pointers, nx and pv being the values of next and prev *)

\* Take e out of its ring.
Unlinked(nx, pv, e) ==
    [next |-> [nx EXCEPT ![pv[e]] = nx[e]],
     prev |-> [pv EXCEPT ![nx[e]] = pv[e]]]

\* A variant with a fault: the new entry's own pointer is set too late.
Linked_late(nx, pv, n, e) ==
    [next |-> [nx EXCEPT ![n] = e, ![e] = e],
     prev |-> [pv EXCEPT ![nx[n]] = e, ![e] = n]]

\* Put e after node n.
Linked(nx, pv, n, e) ==
    [next |-> [nx EXCEPT ![e] = nx[n], ![n] = e],
     prev |-> [pv EXCEPT ![nx[n]] = e, ![e] = n]]

\* Put e before node n, the same with the pointers exchanged.
LinkedBefore(nx, pv, n, e) ==
    LET r == Linked(pv, nx, n, e) IN [next |-> r.prev, prev |-> r.next]

Becomes(r) == next' = r.next /\ prev' = r.prev

-----------------------------------------------------------------------------

list_insert_front(l, e) ==
    /\ Loose(e)
    /\ Becomes(Linked(next, prev, l, e))
    /\ num' = [num EXCEPT ![l] = @ + 1]
    /\ seq' = [seq EXCEPT ![l] = <<e>> \o @]

list_insert_back(l, e) ==
    /\ Loose(e)
    /\ Becomes(LinkedBefore(next, prev, l, e))
    /\ num' = [num EXCEPT ![l] = @ + 1]
    /\ seq' = [seq EXCEPT ![l] = Append(@, e)]

\* i is where the entry the walk of linsert has stopped at should be.
list_insert_after(l, i, e) ==
    /\ Loose(e)
    /\ Becomes(Linked(next, prev, seq[l][i], e))
    /\ num' = [num EXCEPT ![l] = @ + 1]
    /\ seq' = [seq EXCEPT ![l] = InsertAt(@, i + 1, e)]

list_insert_before(l, i, e) ==
    /\ Loose(e)
    /\ Becomes(LinkedBefore(next, prev, seq[l][i], e))
    /\ num' = [num EXCEPT ![l] = @ + 1]
    /\ seq' = [seq EXCEPT ![l] = InsertAt(@, i, e)]

\* list_rm, and list_rm_nf: whether the entry is freed makes no difference.
list_rm(l, i) ==
    /\ Becomes(Unlinked(next, prev, seq[l][i]))
    /\ num' = [num EXCEPT ![l] = @ - 1]
    /\ seq' = [seq EXCEPT ![l] = RemoveAt(@, i)]

\* The pops trust the pointers of the head.  A list that is empty is left alone.
list_pop_front(l) ==
    /\ next[l] # l
    /\ Becomes(Unlinked(next, prev, next[l]))
    /\ num' = [num EXCEPT ![l] = @ - 1]
    /\ seq' = [seq EXCEPT ![l] = Tail(@)]

\* A variant with a fault: the entry is not counted out.
list_pop_back_uncounted(l) ==
    /\ next[l] # l
    /\ Becomes(Unlinked(next, prev, prev[l]))
    /\ num' = num
    /\ seq' = [seq EXCEPT ![l] = Front(@)]

list_pop_back(l) ==
    /\ next[l] # l
    /\ Becomes(Unlinked(next, prev, prev[l]))
    /\ num' = [num EXCEPT ![l] = @ - 1]
    /\ seq' = [seq EXCEPT ![l] = Front(@)]

\* The entry leaves src and goes to the back, or to the front, of dst.
list_move_back(src, i, dst) ==
    LET e == seq[src][i]
        u == Unlinked(next, prev, e)
    IN  /\ Becomes(LinkedBefore(u.next, u.prev, dst, e))
        /\ num' = [[num EXCEPT ![src] = @ - 1] EXCEPT ![dst] = @ + 1]
        /\ seq' = [[seq EXCEPT ![src] = RemoveAt(@, i)] EXCEPT ![dst] = Append(@, e)]

\* A variant with a fault: the entry is not counted in.
list_move_front_uncounted(src, i, dst) ==
    LET e == seq[src][i]
        u == Unlinked(next, prev, e)
    IN  /\ Becomes(Linked(u.next, u.prev, dst, e))
        /\ num' = [num EXCEPT ![src] = @ - 1]
        /\ seq' = [[seq EXCEPT ![src] = RemoveAt(@, i)] EXCEPT ![dst] = <<e>> \o @]

list_move_front(src, i, dst) ==
    LET e == seq[src][i]
        u == Unlinked(next, prev, e)
    IN  /\ Becomes(Linked(u.next, u.prev, dst, e))
        /\ num' = [[num EXCEPT ![src] = @ - 1] EXCEPT ![dst] = @ + 1]
        /\ seq' = [[seq EXCEPT ![src] = RemoveAt(@, i)] EXCEPT ![dst] = <<e>> \o @]

-----------------------------------------------------------------------------

\* list_create has linked each head to itself.  The pointers of an entry that
\* was never in a list are not set: any values would do.
Init ==
    /\ next = [n \in Node |-> n]
    /\ prev = [n \in Node |-> n]
    /\ num = [l \in List |-> 0]
    /\ seq = [l \in List |-> <<>>]

Next ==
    \E l \in List :
        \/ \E e \in Entry : \/ list_insert_front(l, e)
                            \/ list_insert_back(l, e)
                            \/ \E i \in DOMAIN seq[l] : \/ list_insert_after(l, i, e)
                                                        \/ list_insert_before(l, i, e)
        \/ \E i \in DOMAIN seq[l] : \/ list_rm(l, i)
                                    \/ \E dst \in List : \/ list_move_back(l, i, dst)
                                                         \/ list_move_front(l, i, dst)
        \/ list_pop_front(l)
        \/ list_pop_back(l)

Spec == Init /\ [][Next]_vars

-----------------------------------------------------------------------------
(* Properties *)

\* Type invariant.
TypeOK ==
    /\ next \in [Node -> Node]
    /\ prev \in [Node -> Node]
    /\ num \in [List -> Nat]
    /\ seq \in [List -> Seq(Entry)]

\* The ring of l, its head first.
Ring(l) == <<l>> \o seq[l]

\* Following next from the head visits the entries of the list in order and
\* comes back to the head; following prev visits them in reverse.  The walks of
\* lrange, lindex, lset, ltrim, linsert and lrem rely on both.
RingsClosed ==
    \A l \in List : \A i \in 1..Len(Ring(l)) :
        LET j == IF i = Len(Ring(l)) THEN 1 ELSE i + 1
        IN  next[Ring(l)[i]] = Ring(l)[j] /\ prev[Ring(l)[j]] = Ring(l)[i]

\* num, from which llen answers and negative offsets are computed, is the
\* number of entries that a walk visits.
NumCounts == \A l \in List : num[l] = Len(seq[l])

\* The invariant behind them: an entry is in one place of one list only.
NoEntryShared ==
    \A l, m \in List : \A i \in DOMAIN seq[l] : \A j \in DOMAIN seq[m] :
        seq[l][i] = seq[m][j] => l = m /\ i = j
=============================================================================
