------------------------------- MODULE MCQmap -------------------------------
(* Keys, hash functions and uses for the runs of Qmap. *)
EXTENDS Qmap

Keys3 == 0 .. 2
Keys4 == 0 .. 3

(* qmap_nohash, the hash of QM_HNDL, under which no two keys share a slot  *)
(* of a table that has room for all of them                                *)
Identity == [k \in Keys |-> k]

(* a hash that is not the key, under which no two of the keys share a slot *)
Spread == [k \in Keys |-> 7 - k]

(* a hash under which several keys share a slot at every capacity *)
Clash == [k \in Keys |-> 3 * (k \div 2)]

Plain(hash, nogrow) ==
    [hash |-> hash, multi |-> FALSE, nogrow |-> nogrow, shared |-> FALSE]

(* Everything, on a map that grows from the least capacity and on one that *)
(* may not grow and whose keys are more than its slots.                    *)
TableUses == {
    [kind |-> Plain(Clash, FALSE), m |-> 2, calls |-> {"put", "del", "drop"}],
    [kind |-> Plain(Clash, TRUE), m |-> 2, calls |-> {"put", "del", "drop"}]}

(* What a client that never breaks a probe sequence may do: delete when no *)
(* two keys share a slot, or let keys share slots and never delete; each   *)
(* with keys of its own, or with keys that the map generates.              *)
DictionaryUses == {
    [kind |-> Plain(Identity, FALSE), m |-> 4,
     calls |-> {"put", "del", "drop"}],
    [kind |-> Plain(Clash, FALSE), m |-> 2, calls |-> {"put", "drop"}],
    [kind |-> Plain(Identity, FALSE), m |-> 2,
     calls |-> {"update", "auto", "del", "drop"}],
    [kind |-> Plain(Spread, FALSE), m |-> 4,
     calls |-> {"update", "auto", "del", "drop"}],
    [kind |-> Plain(Clash, FALSE), m |-> 2,
     calls |-> {"update", "auto", "drop"}]}

(* Deleting where keys share slots, on a map too large to grow here. *)
DeletingUses ==
    {[kind |-> Plain(Clash, FALSE), m |-> 4, calls |-> {"put", "del"}]}
=============================================================================
