----------------------------- MODULE RoundRobin -----------------------------
(***************************************************************************)
(* What the sender threads rely on when they share a payload: the queries  *)
(* are handed out one at a time, in the order of the file, over and over.  *)
(***************************************************************************)
EXTENDS Naturals

CONSTANT Threads

VARIABLES
    size,   \* number of queries, 0 while there is no payload
    pos,    \* the query to hand out next, 1 .. size
    got     \* got[t]: the query handed out to t last, 0 = none

vars == <<size, pos, got>>

Init == size = 0 /\ pos = 1 /\ got = [t \in Threads |-> 0]

\* The payload becomes available, and is never empty.
Open == /\ size = 0 /\ size' \in Nat \ {0}
        /\ UNCHANGED <<pos, got>>

Take(t) == /\ size > 0
           /\ got' = [got EXCEPT ![t] = pos]
           /\ pos' = IF pos = size THEN 1 ELSE pos + 1
           /\ UNCHANGED size

Next == Open \/ \E t \in Threads : Take(t)

Spec == Init /\ [][Next]_vars
=============================================================================
