------------------------------ MODULE MultiMap ------------------------------
(***************************************************************************)
(* What a client of a QM_MULTIVALUE map is promised: a bag of values under *)
(* every key.  put always adds one, del takes one of the key's values      *)
(* away, del_all all of them, drop everything.  Nothing else changes what  *)
(* the key's entries are.                                                  *)
(***************************************************************************)
EXTENDS Naturals

CONSTANTS Keys, Vals

VARIABLE bag            \* key -> value -> how many entries

Init == bag = [k \in Keys |-> [v \in Vals |-> 0]]

Put == \E k \in Keys, v \in Vals : bag' = [bag EXCEPT ![k][v] = @ + 1]

Del == \E k \in Keys, v \in Vals :
    /\ bag[k][v] > 0
    /\ bag' = [bag EXCEPT ![k][v] = @ - 1]

DelAll == \E k \in Keys : bag' = [bag EXCEPT ![k] = [v \in Vals |-> 0]]

Drop == bag' = [k \in Keys |-> [v \in Vals |-> 0]]

Next == Put \/ Del \/ DelAll \/ Drop

Spec == Init /\ [][Next]_bag
=============================================================================
