----------------------------- MODULE Multivalue -----------------------------
(***************************************************************************)
(* One QM_MULTIVALUE | QM_SORTED map without associations, and the calls   *)
(* of its client (src/libqmap.c).  Every reader goes through the sorted    *)
(* index, which the first read after a change builds again; the hash table *)
(* decides only whether a put starts a new slot.                           *)
(***************************************************************************)
EXTENDS SortedOps

CONSTANTS InitM,        \* the initial capacity, qmap_open's mask + 1
          Hash,         \* the key type's hash
          MaxN,         \* bound: entries the map may get
          MaxCalls      \* bound: how often the client calls

ASSUME MultivalueAssumption == InitM \in Nat \ {0, 1} /\ Hash \in [Keys -> Nat]

VARIABLES tab,          \* the table
          order,        \* sorted_idx[0 .. sorted_n - 1]; <<>> while the table is
                        \* dirty, when nothing reads it
          calls         \* how many calls were made, for the bound only

vars == <<tab, order, calls>>

MultiKind == [hash |-> Hash, multi |-> TRUE, nogrow |-> FALSE, shared |-> FALSE]

(* the index that read becomes once the table is t *)
Kept(t, read) == IF t.dirty THEN <<>> ELSE read

Init ==
    /\ tab = EmptyTable(InitM, MultiKind)
    /\ order = <<>>
    /\ calls = 0

Call == calls < MaxCalls /\ calls' = calls + 1

(* qmap_put *)
Put(key, val) ==
    /\ Call
    /\ tab' = PutKey(tab, key, val, MISS).tab
    /\ tab'.n <= MaxN
    /\ order' = Kept(tab', order)

(* qmap_get, qmap_get_multi, qmap_count: an index that is dirty is rebuilt *)
Read ==
    /\ Call
    /\ order' \in IndexesRead(tab, order)
    /\ tab' = [tab EXCEPT !.dirty = FALSE]

(* qmap_del: the first of the key's entries, if there is one *)
Del(key) == \E read \in IndexesRead(tab, order) :
    LET clean == [tab EXCEPT !.dirty = FALSE]
        at    == FirstOf(tab, read, key)
    IN  /\ Call
        /\ tab' = IF at = NoEntry THEN clean
                  ELSE DeleteListed(clean, read, read[at])
        /\ order' = Kept(tab', read)

(* qmap_del_all *)
DelAll(key) == \E read \in IndexesRead(tab, order) :
    /\ Call
    /\ tab' = DeleteAll([tab EXCEPT !.dirty = FALSE], read, key)
    /\ order' = Kept(tab', read)

(* qmap_drop *)
Drop ==
    /\ Call
    /\ tab' = Cleared(tab)
    /\ order' = <<>>

Next ==
    \/ \E key \in Keys, val \in Vals : Put(key, val)
    \/ Read
    \/ \E key \in Keys : Del(key)
    \/ \E key \in Keys : DelAll(key)
    \/ Drop

Spec == Init /\ [][Next]_vars

-----------------------------------------------------------------------------

(* The table and the index hold what they are declared to hold. *)
TypeOK == Typed(tab) /\ order \in Seq(Nat)

(* Every position issued holds an entry or is on the free list, never both *)
(* and never beyond the arrays, also after a bulk delete.                  *)
PositionsOK == Accounts(tab.idm, Live(tab)) /\ WithinCapacity(tab)

(* head->n is the number of entries, duplicates included. *)
CountOK == tab.n = Cardinality(Live(tab))

(* An index that is not marked dirty lists every entry once, keys          *)
(* ascending: no change of the map forgets to mark it.                     *)
SortedOK == ~tab.dirty =>
    /\ Range(order) = Live(tab)
    /\ Len(order) = Cardinality(Live(tab))
    /\ \A i, j \in DOMAIN order : i < j => tab.omap[order[i]] <= tab.omap[order[j]]

(* The two binary searches delimit exactly the entries of the key, however *)
(* long the run of duplicates is and wherever it lies: this is what        *)
(* qmap_count, qmap_get_multi, qmap_del and qmap_del_all act on.           *)
SearchOK == \A key \in Keys : \A read \in IndexesRead(tab, order) :
    LET entries == {p \in Live(tab) : tab.omap[p] = key}
    IN  /\ Range(Matches(tab, read, key)) = entries
        /\ CountKey(tab, read, key) = Cardinality(entries)

MultiDictionary == INSTANCE MultiMap WITH
    bag <- [key \in Keys |-> [val \in Vals |->
        Cardinality({p \in Live(tab) : tab.omap[p] = key /\ tab.vals[p] = val})]]

(* The map is a bag of values under every key: a put adds one, a delete    *)
(* takes one or all of the named key, and no read, rebuild or growth adds, *)
(* loses or moves an entry.                                                *)
ImplementsMultiMap == MultiDictionary!Spec
=============================================================================
