--------------------------- MODULE MCDataCommands ---------------------------
(* A small instance of DataCommands for TLC. *)
EXTENDS DataCommands, TLC

CONSTANTS k1, k2, f1, f2

\* One key or two, also twice the same.
KeySeqs == [1..1 -> Key] \cup [1..2 -> Key]
FieldSeqs == [1..1 -> Field] \cup [1..2 -> Field]

\* The smallest and the largest integer, and the texts; others come by addition.
Args == {IntMin, IntMax, Empty, Frac, Word}

Symmetric == Permutations(Key) \cup Permutations(Field)
=============================================================================
