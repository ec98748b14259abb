------------------------------ MODULE TableOps ------------------------------
(***************************************************************************)
(* The hash table behind one map handle, qmap_t with the counters of its   *)
(* qmap_head_t (src/libqmap.c), and the helpers that read and change it.   *)
(*                                                                         *)
(* A table is a record                                                     *)
(*    m      capacity, a power of two; the probe mask is m - 1             *)
(*    n      head->n, the number of entries                                *)
(*    map    slot -> position, MISS when the slot is empty                 *)
(*    omap   position -> key, NULL when no entry is there                  *)
(*    vals   position -> value                                             *)
(*    idm    the manager of the positions                                  *)
(*    dirty  QM_SDIRTY: sorted_idx must be rebuilt before it is read       *)
(*    kind   what qmap_open was given: a record of                         *)
(*             hash    the key type's hash, of every key                   *)
(*             multi   QM_MULTIVALUE                                       *)
(*             nogrow  QM_NOGROW                                           *)
(*             shared  the map is a secondary (phd # hd): its values and,  *)
(*                     where a put names one, positions are its primary's  *)
(* Keys are numbers.  key_hashes[n] is the hash of the key at n: it is     *)
(* only consulted while there is a key.  Sizes and payload blocks are left *)
(* out.                                                                    *)
(***************************************************************************)
EXTENDS IdmOps, FiniteSets, FiniteSetsExt

CONSTANTS Keys,         \* the keys in use, numbers
          Vals          \* the values in use

ASSUME TableAssumption == Keys \subseteq Nat /\ Vals \subseteq Nat

MISS == -1              \* QM_MISS
NULL == -1              \* no key, no value: never a member of Keys

EmptyTable(m, kind) ==
    [m |-> m, n |-> 0,
     map  |-> [i \in 0 .. m - 1 |-> MISS],
     omap |-> [i \in 0 .. m - 1 |-> NULL],
     vals |-> [i \in 0 .. m - 1 |-> NULL],
     idm |-> IdmInit, dirty |-> TRUE, kind |-> kind]

Kind == [hash : [Keys -> Nat], multi : BOOLEAN, nogrow : BOOLEAN,
         shared : BOOLEAN]

(* the positions that hold an entry *)
Live(t) == {p \in 0 .. t.idm.last - 1 : p < t.m /\ t.omap[p] # NULL}

-----------------------------------------------------------------------------

(* qmap_id_hash: the first slot of the probe sequence that is empty or     *)
(* whose entry has the key; MISS after m probes.                           *)
Probe(t, key, d) == (t.kind.hash[key] + d) % t.m

(* Faulty: the key at the slot is not looked at *)
StopsAtEmpty(t, key, d) == t.map[Probe(t, key, d)] = MISS

Stops(t, key, d) ==
    LET p == t.map[Probe(t, key, d)] IN p = MISS \/ t.omap[p] = key

(* Faulty: the home slot, whatever is there *)
LookupHome(t, key) == Probe(t, key, 0)

Lookup(t, key) ==
    LET stops == {d \in 0 .. t.m - 1 : Stops(t, key, d)}
    IN  IF stops = {} THEN MISS ELSE Probe(t, key, Min(stops))

(* What qmap_get returns: the value at the slot's position. *)
Get(t, key) ==
    LET id == Lookup(t, key)
    IN  IF id = MISS \/ t.map[id] = MISS THEN NULL ELSE t.vals[t.map[id]]

(* no two of the keys share a home slot of a table of capacity m *)
KeysApart(hash, keys, m) == \A k, l \in keys : hash[k] % m = hash[l] % m => k = l

(* qmap_rebuild_map: positions in ascending order, each into the first     *)
(* free slot of its probe sequence.                                        *)
FirstFreeOldMask(t, key, taken) ==      \* Faulty: the mask before growth
    Min({i \in {Probe([t EXCEPT !.m = @ \div 2], key, d) : d \in 0 .. t.m - 1} :
            i \notin taken})

FirstFree(t, key, taken) ==
    Probe(t, key, Min({d \in 0 .. t.m - 1 : Probe(t, key, d) \notin taken}))

SlotsAssigned(t) ==     \* position -> slot
    LET slot[n \in 0 .. t.idm.last] ==      \* when the positions below n have theirs
            LET given == slot[n - 1]
            IN  CASE n = 0 -> [p \in 0 .. t.idm.last - 1 |-> MISS]
                  [] n > 0 /\ n - 1 \notin Live(t) -> given
                  [] OTHER -> [given EXCEPT ![n - 1] =
                                  FirstFree(t, t.omap[n - 1], Range(given))]
    IN  slot[t.idm.last]

(* Faulty: the slots of the larger table are not filled again *)
RebuildNothing(t) == [i \in 0 .. t.m - 1 |-> MISS]

Rebuild(t) ==
    LET slot == SlotsAssigned(t)
    IN  [i \in 0 .. t.m - 1 |->
            IF \E p \in Live(t) : slot[p] = i
              THEN CHOOSE p \in Live(t) : slot[p] = i
              ELSE MISS]

(* Faulty: the array is not reallocated *)
DoubledNot(f, m) == f

(* qmap_grow *)
Doubled(f, m) == [i \in 0 .. 2 * m - 1 |-> IF i < m THEN f[i] ELSE NULL]

Grow(t) ==
    LET t2 == [t EXCEPT !.m = 2 * t.m,
                        !.omap = Doubled(t.omap, t.m),
                        !.vals = Doubled(t.vals, t.m)]
    IN  [t2 EXCEPT !.map = Rebuild(t2)]

-----------------------------------------------------------------------------
(* _qmap_put *)

(* the test on the load at the start of every put *)
MakeRoomLate(t) ==      \* Faulty: waits until the table is more than full
    IF ~t.kind.nogrow /\ t.n > t.m THEN Grow(t) ELSE t

MakeRoom(t) ==
    IF ~t.kind.nogrow /\ (t.n + 1) * 4 >= t.m * 3 THEN Grow(t) ELSE t

(* update_idm_last: the free list is left as it is *)
UpdateLast(idm, pn) == IF pn >= idm.last THEN [idm EXCEPT !.last = pn + 1] ELSE idm

(* Faulty: the slot of the former key stays *)
UnslotNot(map, p) == map

(* the first slot that points to position p, if any, is emptied *)
Unslot(map, p) ==
    LET at == {i \in DOMAIN map : map[i] = p}
    IN  IF at = {} THEN map ELSE [map EXCEPT ![Min(at)] = MISS]

(* The end of _qmap_put, once position p and slot id are known. *)
Store(t, key, val, p, pn, id) ==
    LET map == IF t.kind.shared /\ pn # MISS THEN Unslot(t.map, p) ELSE t.map
    IN  [t EXCEPT
           !.omap[p] = key,
           !.vals[p] = IF t.kind.shared THEN @ ELSE val,
           !.map = IF ~t.kind.multi \/ map[id] \in {MISS, p}
                     THEN [map EXCEPT ![id] = p] ELSE map,
           !.dirty = TRUE]

(* A new entry at position p, counted and issued in t: a position beyond   *)
(* the capacity grows the table, or is refused after it has been issued.   *)
Enter(t, key, val, p, pn, id) ==
    IF p < t.m
      THEN [tab |-> Store(t, key, val, p, pn, id), id |-> id]
    ELSE IF t.kind.nogrow
      THEN [tab |-> [t EXCEPT !.n = @ - 1], id |-> MISS]
    ELSE LET g == Grow(t)
             id2 == Lookup(g, key)
         IN  [tab |-> Store(g, key, val, p, pn, id2), id |-> id2]

(* a key is given; pn is the primary's position for the entry, or MISS *)
PutKey(t0, key, val, pn) ==
    LET t     == MakeRoom(t0)
        id    == Lookup(t, key)
        old   == t.map[id]
        fresh == old = MISS \/ (t.kind.multi /\ pn # old)
        idm   == IF pn = MISS THEN IdmNew(t.idm) ELSE UpdateLast(t.idm, pn)
        p     == IF pn = MISS THEN IdmNewId(t.idm) ELSE pn
    IN  CASE id = MISS -> [tab |-> t, id |-> MISS]
          [] id # MISS /\ fresh ->
               Enter([t EXCEPT !.idm = idm, !.n = @ + 1],
                     key, val, p, pn, id)
          [] OTHER ->
               [tab |-> Store(t, key, val, old, pn, id), id |-> id]

(* Faulty: the number of entries is the key *)
PutAutoCount(t0, val) ==
    LET t == MakeRoom(t0)
    IN  Enter([t EXCEPT !.idm = IdmNew(t.idm), !.n = @ + 1],
              t.n, val, IdmNewId(t.idm), MISS, Lookup(t, t.n))

(* key NULL: the position issued for the entry is its key *)
PutAuto(t0, val) ==
    LET t == MakeRoom(t0)
        p == IdmNewId(t.idm)
    IN  Enter([t EXCEPT !.idm = IdmNew(t.idm), !.n = @ + 1],
              p, val, p, MISS, Lookup(t, p))

-----------------------------------------------------------------------------

(* Faulty: the position is not given back *)
DeleteAtKeep(t, p) ==
    [t EXCEPT !.map = [@ EXCEPT ![Lookup(t, t.omap[p])] = MISS],
              !.omap[p] = NULL, !.vals[p] = NULL, !.n = @ - 1]

(* qmap_ndel_topdown on a map that is not QM_MULTIVALUE and has no linked  *)
(* maps: the slot is found again by key and simply emptied.                *)
DeleteAt(t, p) ==
    LET id == Lookup(t, t.omap[p])
    IN  [t EXCEPT
           !.map = IF id = MISS THEN @ ELSE [@ EXCEPT ![id] = MISS],
           !.omap[p] = NULL,
           !.vals[p] = NULL,
           !.idm = IdmDel(@, p),
           !.n = @ - 1,
           !.dirty = TRUE]

(* Faulty: the counter, or the slots, are not reset *)
ClearedButCount(t) == [EmptyTable(t.m, t.kind) EXCEPT !.n = t.n]
ClearedButSlots(t) == [EmptyTable(t.m, t.kind) EXCEPT !.map = t.map]

(* qmap_clear_fast *)
Cleared(t) == EmptyTable(t.m, t.kind)

-----------------------------------------------------------------------------
(* What makes a table correct, stated of a table so that every module that *)
(* changes tables can ask it of its own.                                   *)

Slots(t) == 0 .. t.m - 1

(* the arrays have one cell per position and hold what they are for *)
Typed(t) == t \in [
    m : Nat \ {0, 1}, n : Nat,
    map  : [Slots(t) -> Nat \cup {MISS}],
    omap : [Slots(t) -> Keys \cup {NULL}],
    vals : [Slots(t) -> Vals \cup {NULL}],
    idm : [free : Seq(Nat), last : Nat], dirty : BOOLEAN, kind : Kind]

(* no position was issued that the arrays have no cell for *)
WithinCapacity(t) == t.idm.last <= t.m

(* a slot that is not empty points to an entry, no two to the same one *)
SlotsPoint(t) ==
    /\ \A i \in Slots(t) : t.map[i] # MISS => t.map[i] \in Live(t)
    /\ \A i, j \in Slots(t) : t.map[i] = t.map[j] /\ t.map[i] # MISS => i = j

(* every entry has a slot *)
EntriesSlotted(t) == \A p \in Live(t) : \E i \in Slots(t) : t.map[i] = p

(* the load that growth maintains *)
LoadBounded(t) == t.n * 4 < t.m * 3
=============================================================================
