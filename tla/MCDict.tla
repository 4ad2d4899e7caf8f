------------------------------- MODULE MCDict -------------------------------
(* Small instances of Dict for TLC. *)
EXTENDS Dict, TLC

CONSTANTS ka, kb, kc, kd, v1, v2

\* Four slots: two stay empty, one holds a chain of up to three.
Hashes == ka :> 1 @@ kb :> 2 @@ kc :> 2 @@ kd :> 2

\* sscan takes any COUNT but 0.
Counts == {-1, 1, 2}
=============================================================================
