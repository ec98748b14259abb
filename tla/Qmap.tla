-------------------------------- MODULE Qmap --------------------------------
(***************************************************************************)
(* One map without QM_MULTIVALUE and without associations, and the calls   *)
(* of its client: qmap_put, qmap_del and qmap_drop of src/libqmap.c.  The  *)
(* library is not thread safe, so a call is one step.  qmap_get is the     *)
(* operator Get of TableOps.                                               *)
(***************************************************************************)
EXTENDS TableOps

CONSTANTS Uses,         \* the ways a map may be opened and used, records of
                        \*   kind   as in TableOps
                        \*   m      the initial capacity, qmap_open's mask + 1
                        \*   calls  what the client calls, from
                        \*          put     with any key
                        \*          update  with a key that qmap_get finds
                        \*          auto    with no key (QM_AINDEX)
                        \*          del, drop
          MaxM          \* bound: puts that would grow the map further are left out

ASSUME UsesAssumption == \A use \in Uses :
    /\ use.kind \in Kind
    /\ ~use.kind.multi /\ ~use.kind.shared
    /\ use.m \in Nat \ {0, 1}

VARIABLES calls,        \* what the client of the map calls
          tab           \* the table

vars == <<calls, tab>>

Init == \E use \in Uses :
    /\ calls = use.calls
    /\ tab = EmptyTable(use.m, use.kind)

(* qmap_put with a key; the entry is created or its value replaced *)
Put == \E key \in Keys, val \in Vals :
    /\ "put" \in calls \/ ("update" \in calls /\ Get(tab, key) # NULL)
    /\ tab' = PutKey(tab, key, val, MISS).tab
    /\ tab'.m <= MaxM
    /\ UNCHANGED calls

(* qmap_put with key NULL *)
PutNull == \E val \in Vals :
    /\ "auto" \in calls
    /\ IdmNewId(tab.idm) \in Keys
    /\ tab' = PutAuto(tab, val).tab
    /\ tab'.m <= MaxM
    /\ UNCHANGED calls

(* qmap_del: a cursor on the key finds its position, or none *)
Del == \E key \in Keys :
    /\ "del" \in calls
    /\ LET id == Lookup(tab, key)
       IN  /\ id # MISS
           /\ tab.map[id] # MISS
           /\ tab' = DeleteAt(tab, tab.map[id])
    /\ UNCHANGED calls

(* qmap_drop *)
Drop ==
    /\ "drop" \in calls
    /\ tab' = Cleared(tab)
    /\ UNCHANGED calls

Next == Put \/ PutNull \/ Del \/ Drop

Spec == Init /\ [][Next]_vars

-----------------------------------------------------------------------------

(* The table's arrays have one cell per position and hold what they are    *)
(* declared to hold.                                                       *)
TypeOK == Typed(tab)

(* Every position issued by the map's id manager holds an entry or is on   *)
(* the free list, never both: no call loses a position or reuses one.      *)
PositionsOK == Accounts(tab.idm, Live(tab))

(* No position beyond the arrays is ever issued, so neither the loops that *)
(* run to idm.last (rebuild, drop, save) nor an entry leaves the arrays.   *)
InBounds == WithinCapacity(tab)

(* head->n, which drives growth, qmap_count and the saved file's header,   *)
(* is the number of entries.                                               *)
CountOK == tab.n = Cardinality(Live(tab))

(* The slots point to entries, no two to the same one, after any mix of    *)
(* inserts, deletes and rebuilds: a lookup never reads a freed position.   *)
SlotsOK == SlotsPoint(tab)

(* Every entry keeps its slot, although deletions break probe sequences    *)
(* and a rebuild puts the entries into other slots.                        *)
Slotted == EntriesSlotted(tab)

(* A put of a key is refused only by a map that may not grow, that is full *)
(* and that has no entry for the key.                                      *)
Accepts == \A key \in Keys, val \in Vals :
    PutKey(tab, key, val, MISS).id = MISS
        => tab.kind.nogrow /\ tab.n = tab.m /\ Get(tab, key) = NULL

(* Every entry is found under its key: qmap_get reaches what was stored.   *)
Reachable == \A p \in Live(tab) : Get(tab, tab.omap[p]) = tab.vals[p]

(* A key has at most one entry: a put replaces, it never adds a second.    *)
UniqueKeys == \A p, q \in Live(tab) : tab.omap[p] = tab.omap[q] => p = q

(* no hash is taken of the keys: those of type QM_HNDL (qmap_nohash) *)
Unhashed(hash) == \A key \in Keys : hash[key] = key

(* qmap_put with key NULL returns the slot of the entry it made under the  *)
(* generated key, also when the map grew in that call.  For keys that are  *)
(* not hashed the slot is the key, which is how their client learns it;    *)
(* for others (QM_STR, QM_U32) it is a slot only.                          *)
ReturnsKey == \A val \in Vals :
    "auto" \in calls /\ IdmNewId(tab.idm) \in Keys =>
        LET key == IdmNewId(tab.idm)
            put == PutAuto(tab, val)
        IN  /\ put.id # MISS /\ put.tab.map[put.id] # MISS
            /\ put.tab.omap[put.tab.map[put.id]] = key
            /\ Unhashed(tab.kind.hash) => put.id = key

Dictionary ==
    INSTANCE KeyValueMap WITH dict <- [key \in Keys |-> Get(tab, key)]

(* The map is a dictionary: a call changes what qmap_get returns for the   *)
(* key it names and for no other.                                          *)
ImplementsDictionary == Dictionary!Spec
=============================================================================
