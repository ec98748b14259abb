---------------------------- MODULE IdAllocator -----------------------------
(***************************************************************************)
(* What a caller of an id manager relies on: an id that is granted is held *)
(* by nobody else until it is given back.  Which id is granted, and how    *)
(* the free ones are remembered, is left open.                             *)
(***************************************************************************)
EXTENDS Naturals

CONSTANT Ids            \* the ids that can be granted

VARIABLES held,         \* ids granted and not given back
          grants        \* how many grants are outstanding

vars == <<held, grants>>

Init == held = {} /\ grants = 0

Grant == \E id \in Ids \ held :
    /\ held' = held \cup {id}
    /\ grants' = grants + 1

Return == \E id \in held :
    /\ held' = held \ {id}
    /\ grants' = grants - 1

Reset == held' = {} /\ grants' = 0

Next == Grant \/ Return \/ Reset

Spec == Init /\ [][Next]_vars
=============================================================================
