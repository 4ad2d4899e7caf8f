------------------------------ MODULE Requests ------------------------------
(***************************************************************************)
(* The life of a request as its client may see it: it is sent once the one *)
(* before it has been answered, it may be left hanging, and it is answered *)
(* once.  It is lost only when the server goes down.  A step changes one   *)
(* request.                                                                *)
(***************************************************************************)
EXTENDS Naturals

CONSTANTS Client, MaxReq

VARIABLES phase,    \* of each request: "unsent" "unread" "hanging" "answered" "lost"
          answers,  \* how many answers to it have been written
          up        \* is the server running

vars == <<phase, answers, up>>

Id == Client \X (1..MaxReq)

Init ==
    /\ phase = [id \in Id |-> "unsent"]
    /\ answers = [id \in Id |-> 0]
    /\ up = TRUE

Send(id) ==
    /\ phase[id] = "unsent"
    /\ \A n \in 1..(id[2] - 1) : phase[<<id[1], n>>] = "answered"
    /\ phase' = [phase EXCEPT ![id] = "unread"]
    /\ UNCHANGED <<answers, up>>

Hang(id) ==
    /\ phase[id] = "unread"
    /\ phase' = [phase EXCEPT ![id] = "hanging"]
    /\ UNCHANGED <<answers, up>>

\* The server may die of the answer.
Answer(id) ==
    /\ phase[id] \in {"unread", "hanging"}
    /\ phase' = [phase EXCEPT ![id] = "answered"]
    /\ answers' = [answers EXCEPT ![id] = 1]
    /\ up' \in BOOLEAN

\* The server dies of the request.
Lose(id) ==
    /\ phase[id] \in {"unread", "hanging"}
    /\ phase' = [phase EXCEPT ![id] = "lost"]
    /\ up' = FALSE
    /\ UNCHANGED answers

Die ==
    /\ up' = FALSE
    /\ UNCHANGED <<phase, answers>>

Next ==
    /\ up
    /\ \/ \E id \in Id : Send(id) \/ Hang(id) \/ Answer(id) \/ Lose(id)
       \/ Die

Spec == Init /\ [][Next]_vars
=============================================================================
