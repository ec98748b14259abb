-------------------------------- MODULE Assoc -------------------------------
(***************************************************************************)
(* A primary map and one secondary map that qmap_assoc links to it         *)
(* (src/libqmap.c).  Every put and delete of the primary is carried to the *)
(* secondary in the same call, and a delete by a secondary key starts at   *)
(* the primary.  The secondary has the primary's positions; a secondary    *)
(* that is QM_MULTIVALUE takes positions of its own, which are the same as *)
(* long as no entry is updated.  The primary is not QM_MULTIVALUE and is   *)
(* the only one that is put into; values have a fixed size, so the         *)
(* secondary's key, a pointer into the primary's value, stays valid.  A    *)
(* mirror is the case in which the key is the value.                       *)
(***************************************************************************)
EXTENDS SortedOps

CONSTANTS PrimKeys,     \* the keys the primary is given; Keys has the secondary's too
          SecKey,       \* the callback: value -> secondary key
          Uses,         \* the ways the maps are opened and linked, records of
                        \*   prim, sec    their kinds
                        \*   primM, secM  their initial capacities
                        \*   apart        no two secondary keys share a slot
          MaxM,         \* bound: calls that would grow a map further are left out
          MaxFree,      \* bound: deletes that would list more positions are too
          MaxSlots      \* bound: and calls after which more slots of the
                        \*   secondary are in use

SecKeys == Range(SecKey)

ASSUME AssocAssumption ==
    /\ PrimKeys \subseteq Keys
    /\ SecKey \in [Vals -> Keys]
    /\ \A use \in Uses :
        /\ use.prim \in Kind /\ ~use.prim.multi /\ ~use.prim.shared
        /\ use.sec \in Kind /\ ~use.sec.nogrow /\ ~use.sec.shared
        /\ use.primM \in Nat \ {0, 1} /\ use.secM \in Nat \ {0, 1}
        /\ use.apart => KeysApart(use.sec.hash, SecKeys, use.secM)

VARIABLES use,          \* how the maps were opened
          prim, sec,    \* the two tables; sec.vals is never used
          linked        \* the secondary is in the primary's list

vars == <<use, prim, sec, linked>>

Init ==
    /\ use \in Uses
    /\ prim = EmptyTable(use.primM, use.prim)
    /\ sec = EmptyTable(use.secM, use.sec)
    /\ linked = FALSE

(* what the callback makes of the entry at position p *)
KeyAt(t, p) == SecKey[t.vals[p]]

(* Faulty: the secondary takes a position of its own *)
CarriedFresh(s, t, p) == PutKey(s, KeyAt(t, p), NULL, MISS).tab

(* the loop over linked in qmap_put, once the primary's entry is stored *)
Carried(s, t, p) ==
    PutKey(s, KeyAt(t, p), NULL, IF s.kind.multi THEN MISS ELSE p).tab

(* The secondary's index is rebuilt before it is read, for every change of *)
(* the primary marks it; only a QM_MULTIVALUE map has one.                 *)
Indexes(s) == IF s.kind.multi THEN IndexOrders(s) ELSE {<<>>}

(* Faulty: the secondary counts the delete twice *)
LinkedDeleteTwice(s, read, p) ==
    IF s.omap[p] = NULL THEN s ELSE [DeleteAt(s, p) EXCEPT !.n = @ - 1]

(* qmap_ndel_topdown on the secondary *)
LinkedDelete(s, read, p) ==
    CASE p >= s.m -> s
      [] p < s.m /\ s.omap[p] = NULL -> [s EXCEPT !.idm = IdmDel(@, p), !.n = @ - 1]
      [] p < s.m /\ s.omap[p] # NULL /\ s.kind.multi -> DeleteListed(s, read, p)
      [] OTHER -> DeleteAt(s, p)

(* the position that a map's slots give for a key, or MISS *)
PosOf(t, id) == IF id = MISS THEN MISS ELSE t.map[id]

(* the positions that a cursor on a key of the secondary returns *)
LinkedAt(s, read, skey) ==
    LET p == PosOf(s, Lookup(s, skey))
    IN  IF s.kind.multi THEN Matches(s, read, skey)
        ELSE IF p = MISS THEN <<>> ELSE <<p>>

(* The bounds, and one that is not for the sake of the run: a              *)
(* QM_MULTIVALUE map leaves the slots of deleted entries behind, until it  *)
(* has no empty one and refuses every put.  Calls that take the last empty *)
(* slot are left out.                                                      *)
WithinBounds ==
    /\ prim'.m <= MaxM /\ sec'.m <= MaxM
    /\ Len(sec'.idm.free) <= MaxFree
    /\ Cardinality({i \in Slots(sec') : sec'.map[i] # MISS}) <= MaxSlots
    /\ sec'.kind.multi => \E i \in Slots(sec') : sec'.map[i] = MISS

(* The loop of qmap_assoc over the primary's entries: the secondary issues *)
(* the positions anew.                                                     *)
Joined ==
    LET made[n \in 0 .. prim.idm.last] ==
            IF n = 0 THEN [sec EXCEPT !.kind.shared = TRUE]
            ELSE PutKey(made[n - 1], KeyAt(prim, n - 1), NULL, MISS).tab
    IN  made[prim.idm.last]

(* qmap_assoc, before the primary has a gap in its positions *)
Link ==
    /\ ~linked
    /\ Live(prim) = 0 .. prim.idm.last - 1
    /\ linked' = TRUE
    /\ sec' = Joined
    /\ UNCHANGED <<use, prim>>
    /\ WithinBounds

(* qmap_put on the primary.  Two entries never get the same key of a       *)
(* secondary that can hold one of them only; and no entry is put again     *)
(* whose secondary would keep the former one beside it.                    *)
Put == \E key \in PrimKeys, val \in Vals :
    LET put == PutKey(prim, key, val, MISS)
    IN  /\ \A p \in Live(prim) :
              IF use.sec.multi THEN linked => prim.omap[p] # key
              ELSE prim.omap[p] # key => KeyAt(prim, p) # SecKey[val]
        /\ prim' = put.tab
        /\ sec' = IF linked /\ put.id # MISS
                    THEN Carried(sec, put.tab, put.tab.map[put.id])
                    ELSE sec
        /\ UNCHANGED <<use, linked>>
        /\ WithinBounds

(* qmap_ndel: the entries at one position of both maps *)
DeleteBoth(maps, read, p) ==
    [prim |-> DeleteAt(maps.prim, p),
     sec  |-> IF linked THEN LinkedDelete(maps.sec, read, p) ELSE maps.sec]

(* The maps that deleting at several positions, one by one, may leave,     *)
(* whatever order qsort gives equal keys; reads has the indexes that the   *)
(* first delete may find.                                                  *)
Deletes(ps, reads) ==
    LET made[n \in 0 .. Len(ps)] ==
            IF n = 0 THEN {[prim |-> prim, sec |-> sec]}
            ELSE UNION {{DeleteBoth(maps, read, ps[n]) :
                            read \in IF n = 1 THEN reads ELSE Indexes(maps.sec)} :
                        maps \in made[n - 1]}
    IN  made[Len(ps)]

Delete(ps, reads) == \E maps \in Deletes(ps, reads) :
    /\ prim' = maps.prim
    /\ sec' = maps.sec
    /\ UNCHANGED <<use, linked>>
    /\ WithinBounds

(* qmap_del on the primary *)
Del == \E key \in PrimKeys :
    LET p == PosOf(prim, Lookup(prim, key))
    IN  p # MISS /\ Delete(<<p>>, Indexes(sec))

(* qmap_del, and on a QM_MULTIVALUE map qmap_del_all, on the secondary:    *)
(* qmap_ndel looks for the primary first, and the index that was read is   *)
(* the one the first delete finds.                                         *)
DelLinked == \E skey \in SecKeys : \E read \in Indexes(sec) :
    LET all == LinkedAt(sec, read, skey)
    IN  linked /\ all # <<>> /\ \E ps \in {all, <<all[1]>>} : Delete(ps, {read})

(* qmap_drop on the primary: one by one, from the lowest position to the   *)
(* highest, when a map is linked                                           *)
Drop ==
    IF linked
      THEN \E ps \in SetToSeqs(Live(prim)) :
              /\ \A i \in 1 .. Len(ps) - 1 : ps[i] < ps[i + 1]
              /\ Delete(ps, Indexes(sec))
      ELSE prim' = Cleared(prim) /\ UNCHANGED <<use, sec, linked>>

Next == Link \/ Put \/ Del \/ DelLinked \/ Drop

Spec == Init /\ [][Next]_vars

-----------------------------------------------------------------------------

(* Both tables hold what they are declared to; the counters stay naturals. *)
TypeOK == Typed(prim) /\ Typed(sec) /\ linked \in BOOLEAN

(* The secondary has an entry at exactly the primary's positions, under    *)
(* the key the callback makes of the value there now: no update leaves an  *)
(* old key behind, no delete from either side reaches only one map, and    *)
(* the shared positions never run out of the secondary's arrays.           *)
InStep == linked =>
    /\ sec.idm.last = prim.idm.last
    /\ Live(sec) = Live(prim)
    /\ \A p \in Live(prim) : sec.omap[p] = KeyAt(prim, p)

(* The secondary's counter may run ahead of its entries but never behind:  *)
(* it decides when the secondary grows.                                    *)
NeverUndercounted == sec.n >= Cardinality(Live(sec))

(* A cursor on a key of the secondary leads to exactly the entries whose   *)
(* value has that key, and to none when there is none.                     *)
FindsLinked == linked => \A skey \in SecKeys : \A read \in Indexes(sec) :
    Range(LinkedAt(sec, read, skey)) = {q \in Live(prim) : KeyAt(prim, q) = skey}

(* The same for secondary keys that never share a slot, or have an index. *)
FindsApart == use.apart \/ use.sec.multi => FindsLinked
=============================================================================
