---------------------------- MODULE MCLinkedList ----------------------------
(* A small instance of LinkedList for TLC. *)
EXTENDS LinkedList, TLC

Symmetry == Permutations(List) \cup Permutations(Entry)
=============================================================================
