---------------------------- MODULE KeyValueMap -----------------------------
(***************************************************************************)
(* What a client of a map without QM_MULTIVALUE is promised: a dictionary. *)
(* put stores or replaces the value of one key, del removes one key, drop  *)
(* removes them all, and a put without a key stores under a key that had   *)
(* no entry.  Nothing else ever changes what qmap_get returns.             *)
(***************************************************************************)
CONSTANTS Keys, Vals, NULL

VARIABLE dict           \* key -> value, NULL when the key has no entry

Init == dict = [k \in Keys |-> NULL]

Put == \E k \in Keys, v \in Vals : dict' = [dict EXCEPT ![k] = v]

PutAuto == \E k \in Keys, v \in Vals :
    /\ dict[k] = NULL
    /\ dict' = [dict EXCEPT ![k] = v]

Del == \E k \in Keys : dict' = [dict EXCEPT ![k] = NULL]

Drop == dict' = [k \in Keys |-> NULL]

Next == Put \/ PutAuto \/ Del \/ Drop

Spec == Init /\ [][Next]_dict
=============================================================================
