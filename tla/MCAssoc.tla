------------------------------- MODULE MCAssoc ------------------------------
(* Keys, callbacks and uses for the runs of Assoc. *)
EXTENDS Assoc

Keys3 == 0 .. 2

(* two of the values have the same secondary key *)
PartOf == [v \in Vals |-> IF v = 3 THEN 2 ELSE v]

Plain(hash) == [hash |-> hash, multi |-> FALSE, nogrow |-> FALSE, shared |-> FALSE]

(* Every key has a slot of its own; or the secondary is smaller and its    *)
(* keys all share one; or it is QM_MULTIVALUE.  The primary's keys never   *)
(* share a slot: a client deletes from it.                                 *)
LinkUses == {
    [prim |-> Plain([k \in Keys |-> k]), primM |-> 4,
     sec |-> Plain([k \in Keys |-> k]), secM |-> 4, apart |-> TRUE],
    [prim |-> Plain([k \in Keys |-> k]), primM |-> 4,
     sec |-> Plain([k \in Keys |-> 0]), secM |-> 2, apart |-> FALSE],
    [prim |-> Plain([k \in Keys |-> k]), primM |-> 4,
     sec |-> [Plain([k \in Keys |-> k]) EXCEPT !.multi = TRUE],
     secM |-> 2, apart |-> FALSE]}
=============================================================================
