------------------------------- MODULE KeyMap -------------------------------
(***************************************************************************)
(* What dict.c promises the commands: a map from keys to values, and for   *)
(* each operation whether it found its key.                                *)
(***************************************************************************)
CONSTANTS Key, Val,
          None  \* the value of a key that is not there

VARIABLES map,   \* the value of each key
          found  \* did the latest operation find its key

vars == <<map, found>>

Init ==
    /\ map = [k \in Key |-> None]
    /\ found = FALSE

Has(k) == map[k] # None

\* The value of a key that is there is replaced.
Add(k, v) ==
    /\ map' = [map EXCEPT ![k] = v]
    /\ found' = Has(k)

Rm(k) ==
    /\ map' = [map EXCEPT ![k] = None]
    /\ found' = Has(k)

\* The value moves to the new key and replaces what is there; a key that is
\* renamed to itself keeps its value.
Rename(k, n) ==
    /\ map' = IF Has(k) THEN [[map EXCEPT ![k] = None] EXCEPT ![n] = map[k]] ELSE map
    /\ found' = Has(k)

LookUp(k) ==
    /\ found' = Has(k)
    /\ UNCHANGED map

Next ==
    \E k \in Key : \/ \E v \in Val : Add(k, v)
                   \/ Rm(k)
                   \/ \E n \in Key : Rename(k, n)
                   \/ LookUp(k)

Spec == Init /\ [][Next]_vars
=============================================================================
