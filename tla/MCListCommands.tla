--------------------------- MODULE MCListCommands ---------------------------
(* Small instances of ListCommands for TLC. *)
EXTENDS ListCommands, TLC

CONSTANTS k1, k2, x, y

\* Beyond both ends of a list of MaxLen elements.
Offsets == -4..3

Symm == Permutations(Elem)
=============================================================================
