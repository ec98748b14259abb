------------------------------ MODULE SortedOps -----------------------------
(***************************************************************************)
(* The sorted index of a QM_SORTED map and what QM_MULTIVALUE does with it *)
(* (src/libqmap.c).  The index is a sequence of positions, sorted_idx[0]   *)
(* first; the table's dirty bit says that it must be rebuilt before it is  *)
(* read.  Keys are compared as numbers.                                    *)
(***************************************************************************)
EXTENDS TableOps

NoEntry == 0            \* no place in the index: the code's -1

(* May the entry at p stand before the one at q?  qsort promises nothing   *)
(* about equal keys.                                                       *)
Before(t, p, q) == t.omap[p] <= t.omap[q]

(* qmap_rebuild_sorted: every order of the entries that qsort may make *)
IndexOrders(t) ==
    {order \in SetToSeqs(Live(t)) :
        \A i \in 1 .. Len(order) - 1 : Before(t, order[i], order[i + 1])}

(* the index a reader gets to see *)
IndexesRead(t, order) == IF t.dirty THEN IndexOrders(t) ELSE {order}

(* what is left to search: from place low to place high of the index *)
Parts(order) == (1 .. Len(order) + 1) \X (0 .. Len(order))

(* Faulty: any place that has the key *)
BsearchAny(t, order, key, last) ==
    LET search[part \in Parts(order)] ==
            LET low  == part[1]
                high == part[2]
                mid  == low + (high - low) \div 2
                at   == t.omap[order[mid]]
            IN  IF low > high THEN NoEntry
                ELSE IF at = key THEN mid
                ELSE IF at < key THEN search[<<mid + 1, high>>]
                ELSE search[<<low, mid - 1>>]
    IN  search[<<1, Len(order)>>]

(* qmap_bsearch_ex: the first or the last place that has the key.  A match *)
(* is remembered and the search goes on to its left or its right.          *)
Bsearch(t, order, key, last) ==
    LET search[part \in Parts(order)] ==
            LET low  == part[1]
                high == part[2]
                mid  == low + (high - low) \div 2
                at   == t.omap[order[mid]]
                next == IF at < key \/ (last /\ at = key)
                          THEN search[<<mid + 1, high>>]
                          ELSE search[<<low, mid - 1>>]
            IN  IF low > high THEN NoEntry
                ELSE IF at = key /\ next = NoEntry THEN mid ELSE next
    IN  search[<<1, Len(order)>>]

FirstOf(t, order, key) == Bsearch(t, order, key, FALSE)
LastOf(t, order, key) == Bsearch(t, order, key, TRUE)

(* The positions a cursor on the key returns, in order: qmap_iter takes the *)
(* first place, qmap_lnext stops behind the last one.                      *)
Matches(t, order, key) ==
    IF FirstOf(t, order, key) = NoEntry THEN <<>>
    ELSE SubSeq(order, FirstOf(t, order, key), LastOf(t, order, key))

(* qmap_count *)
CountKey(t, order, key) ==
    IF FirstOf(t, order, key) = NoEntry THEN 0
    ELSE LastOf(t, order, key) - FirstOf(t, order, key) + 1

-----------------------------------------------------------------------------

(* The entry that the key's slot points to once position p is deleted: the *)
(* second of the key's entries if p is the first one, else the first.      *)
Successor(t, order, p) ==
    LET of == Matches(t, order, t.omap[p])
    IN  CASE of # <<>> /\ of[1] # p -> of[1]
          [] Len(of) > 1 /\ of[1] = p -> of[2]
          [] OTHER -> MISS

(* Faulty: the index is not marked for a rebuild *)
DeleteListedClean(t, order, p) ==
    LET id == Lookup(t, t.omap[p])
    IN  [DeleteAt(t, p) EXCEPT
           !.map = IF id = MISS THEN t.map
                     ELSE [t.map EXCEPT ![id] = Successor(t, order, p)],
           !.dirty = t.dirty]

(* qmap_ndel_topdown on a QM_MULTIVALUE map without linked maps *)
DeleteListed(t, order, p) ==
    LET id == Lookup(t, t.omap[p])
    IN  [DeleteAt(t, p) EXCEPT
           !.map = IF id = MISS THEN t.map
                     ELSE [t.map EXCEPT ![id] = Successor(t, order, p)]]

(* Faulty: the last of the key's entries stays *)
DeletedAllButLast(t, ps) ==
    LET gone == {ps[i] : i \in 1 .. Len(ps) - 1}
    IN  [t EXCEPT !.omap = [p \in Slots(t) |-> IF p \in gone THEN NULL ELSE @[p]],
                  !.vals = [p \in Slots(t) |-> IF p \in gone THEN NULL ELSE @[p]],
                  !.idm = IdmDelAll(@, Front(ps)),
                  !.n = @ - Cardinality(gone),
                  !.dirty = TRUE]

(* Faulty: the positions are not given back *)
DeletedAllKept(t, ps) ==
    [t EXCEPT !.omap = [p \in Slots(t) |-> IF p \in Range(ps) THEN NULL ELSE @[p]],
              !.vals = [p \in Slots(t) |-> IF p \in Range(ps) THEN NULL ELSE @[p]],
              !.n = @ - Len(ps),
              !.dirty = TRUE]

(* Faulty: the entries are not counted out *)
DeletedAllCounted(t, ps) ==
    [t EXCEPT !.omap = [p \in Slots(t) |-> IF p \in Range(ps) THEN NULL ELSE @[p]],
              !.vals = [p \in Slots(t) |-> IF p \in Range(ps) THEN NULL ELSE @[p]],
              !.idm = IdmDelAll(@, ps),
              !.dirty = TRUE]

(* qmap_del_all's loop over the positions it collected *)
DeletedAll(t, ps) ==
    [t EXCEPT !.omap = [p \in Slots(t) |-> IF p \in Range(ps) THEN NULL ELSE @[p]],
              !.vals = [p \in Slots(t) |-> IF p \in Range(ps) THEN NULL ELSE @[p]],
              !.idm = IdmDelAll(@, ps),
              !.n = @ - Len(ps),
              !.dirty = TRUE]

(* the fast path of qmap_del_all, on a map without linked maps *)
DeleteAll(t, order, key) ==
    LET ps == Matches(t, order, key)
        t2 == DeletedAll(t, ps)
    IN  IF ps = <<>> THEN t
        ELSE [t2 EXCEPT !.map = IF t2.n = 0 THEN [i \in Slots(t) |-> MISS]
                                  ELSE Rebuild(t2)]
=============================================================================
