----------------------------- MODULE QmapProofs -----------------------------
(***************************************************************************)
(* Module Qmap keeps its invariants for every set of keys, every hash and  *)
(* every capacity.                                                         *)
(***************************************************************************)
EXTENDS Qmap, TableLemmas

(* A QM_NOGROW map whose client lets it generate keys can lose positions:  *)
(* the refused put keeps its position, and is left out.                    *)
Covered == \A use \in Uses : use.kind.nogrow => "auto" \notin use.calls

(* The inductive invariant.  For a map that may grow the load bound is     *)
(* what leaves room for the next position; for one that may not, it is     *)
(* that every entry has a slot.                                            *)
IInv ==
    /\ Healthy(tab)
    /\ ~tab.kind.multi /\ ~tab.kind.shared
    /\ tab.kind.nogrow => "auto" \notin calls

LEMMA EmptyHealthy ==
    ASSUME NEW m \in Nat, m > 1, NEW kind \in Kind
    PROVE  Healthy(EmptyTable(m, kind)) /\ EmptyTable(m, kind).kind = kind
<1> DEFINE t == EmptyTable(m, kind)
<1>1. Sound(t) /\ EntriesSlotted(t) /\ t.n = 0 /\ t.m = m /\ t.kind = kind
  BY EmptySound
<1> HIDE DEF t
<1>2. LoadBounded(t)
  BY <1>1 DEF LoadBounded
<1>3. Healthy(t) /\ t.kind = kind
  BY <1>1, <1>2 DEF Healthy
<1> QED
  BY <1>3 DEF t

LEMMA InitIInv == Covered /\ Init => IInv
<1> SUFFICES ASSUME Covered, NEW use \in Uses,
                    calls = use.calls, tab = EmptyTable(use.m, use.kind)
             PROVE  IInv
  BY DEF Init
<1>1. /\ use.kind \in Kind /\ ~use.kind.multi /\ ~use.kind.shared
      /\ use.m \in Nat /\ use.m > 1
  BY UsesAssumption
<1>2. Healthy(tab) /\ tab.kind = use.kind
  BY <1>1, EmptyHealthy
<1> QED
  BY <1>1, <1>2 DEF Covered, IInv

LEMMA PutIInv == IInv /\ Put => IInv'
<1> SUFFICES ASSUME IInv, NEW key \in Keys, NEW val \in Vals,
                    tab' = PutKey(tab, key, val, MISS).tab,
                    calls' = calls
             PROVE  IInv'
  BY DEF Put
<1>1. Healthy(tab') /\ tab'.kind = tab.kind
  BY PutKeySound DEF IInv
<1> QED
  BY <1>1 DEF IInv

LEMMA PutNullIInv == IInv /\ PutNull => IInv'
<1> SUFFICES ASSUME IInv, NEW val \in Vals,
                    "auto" \in calls,
                    IdmNewId(tab.idm) \in Keys,
                    tab' = PutAuto(tab, val).tab,
                    calls' = calls
             PROVE  IInv'
  BY DEF PutNull
<1>1. Healthy(tab') /\ tab'.kind = tab.kind
  BY PutAutoSound DEF IInv
<1> QED
  BY <1>1 DEF IInv

LEMMA DelIInv == IInv /\ Del => IInv' /\ tab'.kind = tab.kind
<1> SUFFICES ASSUME IInv, NEW key \in Keys,
                    Lookup(tab, key) # MISS,
                    tab.map[Lookup(tab, key)] # MISS,
                    tab' = DeleteAt(tab, tab.map[Lookup(tab, key)]),
                    calls' = calls
             PROVE  IInv' /\ tab'.kind = tab.kind
  BY DEF Del
<1> DEFINE id == Lookup(tab, key)
           u == DeleteAt(tab, tab.map[id])
<1>1. Sound(tab) /\ Typed(tab) /\ tab.n \in Nat /\ tab.m \in Nat
  BY Fields DEF IInv, Healthy, Sound
<1>2. id \in Slots(tab) /\ tab.omap[tab.map[id]] = key
  BY <1>1, LookupStops
<1>3. id = Lookup(tab, tab.omap[tab.map[id]]) /\ tab.map[id] # MISS
  BY <1>2
<1>4. /\ Sound(u)
      /\ u.n = tab.n - 1 /\ u.m = tab.m /\ u.kind = tab.kind
      /\ EntriesSlotted(tab) => EntriesSlotted(u)
  BY <1>1, <1>2, <1>3, DeleteSound
<1> HIDE DEF u
<1>5. LoadBounded(tab) => LoadBounded(u)
  BY <1>1, <1>4 DEF LoadBounded
<1>6. Healthy(u) /\ u.kind = tab.kind /\ tab' = u
  BY <1>4, <1>5 DEF IInv, Healthy, u
<1> QED
  BY <1>6 DEF IInv

LEMMA DropIInv == IInv /\ Drop => IInv'
<1> SUFFICES ASSUME IInv, tab' = EmptyTable(tab.m, tab.kind), calls' = calls
             PROVE  IInv'
  BY DEF Drop, Cleared
<1>1. tab.m \in Nat /\ tab.m > 1 /\ tab.kind \in Kind
  BY Fields DEF IInv, Healthy, Sound
<1>2. Healthy(tab') /\ tab'.kind = tab.kind
  BY <1>1, EmptyHealthy
<1> QED
  BY <1>2 DEF IInv

THEOREM InductiveInvariant == ASSUME Covered PROVE Spec => []IInv
<1>1. IInv /\ [Next]_vars => IInv'
  <2> SUFFICES ASSUME IInv, [Next]_vars PROVE IInv'
    OBVIOUS
  <2>1. CASE Put     BY <2>1, PutIInv
  <2>2. CASE PutNull BY <2>2, PutNullIInv
  <2>3. CASE Del     BY <2>3, DelIInv
  <2>4. CASE Drop    BY <2>4, DropIInv
  <2>5. CASE UNCHANGED vars
    BY <2>5 DEF IInv, vars
  <2> QED
    BY <2>1, <2>2, <2>3, <2>4, <2>5 DEF Next
<1> QED
  BY InitIInv, <1>1, PTL DEF Spec

(* The table's arrays keep their shape and contents. *)
THEOREM TypeCorrect == ASSUME Covered PROVE Spec => []TypeOK
<1>1. IInv => TypeOK
  BY DEF IInv, Healthy, Sound, TypeOK
<1> QED
  BY <1>1, InductiveInvariant, PTL

(* No call loses a position or gives one to two entries. *)
THEOREM PositionsAccounted == ASSUME Covered PROVE Spec => []PositionsOK
<1>1. IInv => PositionsOK
  BY DEF IInv, Healthy, Sound, PositionsOK
<1> QED
  BY <1>1, InductiveInvariant, PTL

(* No position outside the arrays is issued. *)
THEOREM StaysInBounds == ASSUME Covered PROVE Spec => []InBounds
<1>1. IInv => InBounds
  BY DEF IInv, Healthy, Sound, InBounds
<1> QED
  BY <1>1, InductiveInvariant, PTL

(* head->n is the number of entries. *)
THEOREM CountCorrect == ASSUME Covered PROVE Spec => []CountOK
<1>1. IInv => CountOK
  BY DEF IInv, Healthy, Sound, CountOK
<1> QED
  BY <1>1, InductiveInvariant, PTL

(* A slot never points to a freed position, nor do two to the same one. *)
THEOREM SlotsCorrect == ASSUME Covered PROVE Spec => []SlotsOK
<1>1. IInv => SlotsOK
  BY DEF IInv, Healthy, Sound, SlotsOK
<1> QED
  BY <1>1, InductiveInvariant, PTL

(* A map that may grow never refuses a key; one that may not refuses it    *)
(* only when it is full and has no entry for the key.                      *)
THEOREM PutsAccepted == ASSUME Covered PROVE Spec => []Accepts
<1>1. IInv => Accepts
  <2> SUFFICES ASSUME IInv, NEW key \in Keys, NEW val \in Vals,
                      PutKey(tab, key, val, MISS).id = MISS
               PROVE  tab.kind.nogrow /\ tab.n = tab.m /\ Get(tab, key) = NULL
    BY DEF Accepts
  <2> QED
    BY PutKeySound DEF IInv
<1> QED
  BY <1>1, InductiveInvariant, PTL

-----------------------------------------------------------------------------
(* An entry keeps its slot.                                                *)

(* A client that lets the map generate keys names none itself, but for     *)
(* those it was given: a generated key that it had already used would      *)
(* share the slot of its entry.                                            *)
Unmixed == \A use \in Uses : "auto" \in use.calls => "put" \notin use.calls

(* what becomes of the table under such a client *)
OwnKeys == "auto" \in calls =>
    "put" \notin calls /\ \A p \in Live(tab) : tab.omap[p] = p

SlottedInv == IInv /\ EntriesSlotted(tab) /\ OwnKeys

LEMMA EmptyHolds ==
    ASSUME NEW m \in Nat, m > 1, NEW kind \in Kind
    PROVE  /\ Sound(EmptyTable(m, kind)) /\ EntriesSlotted(EmptyTable(m, kind))
           /\ Live(EmptyTable(m, kind)) = {}
<1> DEFINE t == EmptyTable(m, kind)
<1>1. t.idm.last = 0
  BY DEF EmptyTable, IdmInit
<1> HIDE DEF t
<1>2. Live(t) = {}
  BY <1>1 DEF Live
<1>3. Sound(t) /\ EntriesSlotted(t)
  BY EmptySound DEF t
<1> QED
  BY <1>2, <1>3 DEF t

(* A key that qmap_get finds is found again after growth. *)
LEMMA UpdateFinds ==
    ASSUME NEW t, Healthy(t), KeyedOnce(t), NEW key \in Keys, Get(t, key) # NULL
    PROVE  MakeRoom(t).map[Lookup(MakeRoom(t), key)] # MISS
<1> DEFINE u == MakeRoom(t)
<1>1. Sound(t) /\ Sound(u) /\ SameEntries(t, u) /\ (u = t \/ InOrder(u))
  BY MakeRoomSound DEF Healthy
<1> HIDE DEF u
<1>2. CASE u = t
  BY <1>2 DEF Get, u
<1>3. CASE InOrder(u)
  <2>1. Findable(u)
    BY <1>1, <1>3, InOrderChained DEF Findable, KeyedOnce, SameEntries
  <2>2. PICK q \in Live(u) : u.omap[q] = key
    BY <1>1, GetMisses DEF SameEntries
  <2>3. q # MISS
    BY DEF Live, MISS
  <2> QED
    BY <2>1, <2>2, <2>3, LookupReaches DEF u
<1> QED
  BY <1>1, <1>2, <1>3

LEMMA InitSlottedInv == Covered /\ Unmixed /\ Init => SlottedInv
<1> SUFFICES ASSUME Covered, Unmixed, NEW use \in Uses,
                    calls = use.calls, tab = EmptyTable(use.m, use.kind)
             PROVE  SlottedInv
  BY DEF Init
<1>1. IInv
  BY InitIInv DEF Init
<1>2. use.kind \in Kind /\ use.m \in Nat /\ use.m > 1
  BY UsesAssumption
<1>3. EntriesSlotted(tab) /\ Live(tab) = {}
  BY <1>2, EmptyHolds
<1> QED
  BY <1>1, <1>3 DEF SlottedInv, OwnKeys, Unmixed

LEMMA PutOwnKeys == IInv /\ OwnKeys /\ Put => OwnKeys'
<1> SUFFICES ASSUME IInv, OwnKeys, NEW key \in Keys, NEW val \in Vals,
                    "put" \in calls \/ ("update" \in calls /\ Get(tab, key) # NULL),
                    tab' = PutKey(tab, key, val, MISS).tab,
                    calls' = calls, "auto" \in calls
             PROVE  \A p \in Live(tab') : tab'.omap[p] = p
  BY DEF Put, OwnKeys
<1> DEFINE t == MakeRoom(tab)
<1>1. \A p \in Live(tab) : tab.omap[p] = p
  BY DEF OwnKeys
<1>2. PutCases(t, key, val, tab')
  BY PutKeySound DEF IInv
<1>3. SameEntries(tab, t)
  BY MakeRoomSound DEF IInv, Healthy
<1>4. t.map[Lookup(t, key)] # MISS
  BY <1>1, UpdateFinds DEF IInv, OwnKeys, KeyedOnce
<1> HIDE DEF t
<1>5. tab' = t \/ Replaced(t, tab', val, Lookup(t, key))
  BY <1>2, <1>4 DEF PutCases
<1> QED
  BY <1>1, <1>3, <1>5 DEF SameEntries, Replaced

LEMMA PutSlottedInv == SlottedInv /\ Put => SlottedInv'
<1> SUFFICES ASSUME SlottedInv, Put PROVE SlottedInv'
  OBVIOUS
<1>1. IInv' /\ OwnKeys'
  BY PutIInv, PutOwnKeys DEF SlottedInv
<1>2. EntriesSlotted(tab')
  BY PutKeySound DEF Put, SlottedInv, IInv
<1> QED
  BY <1>1, <1>2 DEF SlottedInv

(* A generated key is new, so its slot is empty. *)
LEMMA GeneratedSlot ==
    ASSUME IInv, OwnKeys, "auto" \in calls, IdmNewId(tab.idm) \in Keys
    PROVE  LET t == MakeRoom(tab)
               p == IdmNewId(tab.idm)
           IN  /\ Lookup(t, p) # MISS
               /\ t.map[Lookup(t, p)] = MISS
               /\ \A q \in Live(t) : t.omap[q] = q /\ q # p
<1> DEFINE t == MakeRoom(tab)
           p == IdmNewId(tab.idm)
<1>1. /\ Sound(t) /\ SameEntries(tab, t) /\ t.idm = tab.idm
      /\ (t.n + 1) * 4 < t.m * 3
  BY MakeRoomSound DEF IInv, Healthy
<1> HIDE DEF t
<1>2. Typed(t) /\ t.n \in Nat /\ t.m \in Nat /\ t.n < t.m
  BY <1>1, Fields DEF Sound
<1>3. \A q \in Live(t) : t.omap[q] = q
  BY <1>1 DEF OwnKeys, SameEntries
<1>4. p \notin Live(t)
  BY <1>1, <1>2, Fields, NewAccounts DEF Sound
<1> HIDE DEF p
<1>5. Lookup(t, p) # MISS /\ p \in Keys
  BY <1>1, <1>2, LookupFinds DEF p
<1>6. t.map[Lookup(t, p)] = MISS
  BY <1>1, <1>2, <1>3, <1>4, <1>5, LookupStops DEF Sound, SlotsPoint
<1> QED
  BY <1>3, <1>4, <1>5, <1>6 DEF t, p

LEMMA PutNullSlottedInv == SlottedInv /\ PutNull => SlottedInv'
<1> SUFFICES ASSUME SlottedInv, PutNull, NEW val \in Vals,
                    "auto" \in calls,
                    IdmNewId(tab.idm) \in Keys,
                    tab' = PutAuto(tab, val).tab,
                    calls' = calls
             PROVE  SlottedInv'
  BY DEF PutNull
<1> DEFINE t == MakeRoom(tab)
           p == IdmNewId(tab.idm)
           e == PutAuto(tab, val)
<1>1. IInv'
  BY PutNullIInv DEF SlottedInv
<1>2. /\ t.map[Lookup(t, p)] = MISS
      /\ \A q \in Live(t) : t.omap[q] = q /\ q # p
  BY GeneratedSlot DEF SlottedInv
<1>3. /\ e.id = Lookup(t, p)
      /\ Entered(t, e.tab, p, val, p, e.id)
      /\ EntriesSlotted(t) /\ t.map[e.id] = MISS => EntriesSlotted(e.tab)
  BY PutAutoSound DEF SlottedInv, IInv
<1>4. EntriesSlotted(t) /\ Typed(t)
  BY MakeRoomSound DEF SlottedInv, IInv, Healthy, Sound
<1> HIDE DEF t, p, e
<1>5. EntriesSlotted(tab')
  BY <1>2, <1>3, <1>4 DEF e
<1>6. \A q \in Live(e.tab) : e.tab.omap[q] = q
  <2>1. /\ p \in Slots(t) /\ Live(e.tab) = Live(t) \cup {p}
        /\ e.tab.omap = [t.omap EXCEPT ![p] = p]
    BY <1>3 DEF Entered
  <2>2. \A q \in Live(t) : e.tab.omap[q] = t.omap[q]
    BY <1>2, <1>4, <2>1, LiveFinite, Fields
  <2>3. e.tab.omap[p] = p
    BY <1>4, <2>1, Fields
  <2> QED
    BY <1>2, <2>1, <2>2, <2>3
<1> QED
  BY <1>1, <1>5, <1>6 DEF SlottedInv, OwnKeys, e

LEMMA DelSlottedInv == SlottedInv /\ Del => SlottedInv'
<1> SUFFICES ASSUME SlottedInv, Del, NEW key \in Keys,
                    Lookup(tab, key) # MISS,
                    tab.map[Lookup(tab, key)] # MISS,
                    tab' = DeleteAt(tab, tab.map[Lookup(tab, key)]),
                    calls' = calls
             PROVE  SlottedInv'
  BY DEF Del
<1> DEFINE id == Lookup(tab, key)
<1>1. Sound(tab) /\ Typed(tab)
  BY DEF SlottedInv, IInv, Healthy, Sound
<1>2. id \in Slots(tab) /\ tab.omap[tab.map[id]] = key
  BY <1>1, LookupStops
<1>3. id = Lookup(tab, tab.omap[tab.map[id]]) /\ tab.map[id] # MISS
  BY <1>2
<1>4. EntriesSlotted(tab') /\ Deleted(tab, tab', id)
  BY <1>1, <1>2, <1>3, DeleteSound DEF SlottedInv
<1>5. OwnKeys'
  BY <1>4 DEF SlottedInv, OwnKeys, Deleted
<1> QED
  BY <1>4, <1>5, DelIInv DEF SlottedInv

LEMMA DropSlottedInv == SlottedInv /\ Drop => SlottedInv'
<1> SUFFICES ASSUME SlottedInv, Drop PROVE SlottedInv'
  OBVIOUS
<1>1. tab.m \in Nat /\ tab.m > 1 /\ tab.kind \in Kind
  BY Fields DEF SlottedInv, IInv, Healthy, Sound
<1>2. tab' = EmptyTable(tab.m, tab.kind) /\ calls' = calls
  BY DEF Drop, Cleared
<1>3. EntriesSlotted(tab') /\ Live(tab') = {}
  BY <1>1, <1>2, EmptyHolds
<1> QED
  BY <1>2, <1>3, DropIInv DEF SlottedInv, OwnKeys

LEMMA NextSlottedInv == SlottedInv /\ [Next]_vars => SlottedInv'
<1> SUFFICES ASSUME SlottedInv, [Next]_vars PROVE SlottedInv'
  OBVIOUS
<1>1. CASE Put     BY <1>1, PutSlottedInv
<1>2. CASE PutNull BY <1>2, PutNullSlottedInv
<1>3. CASE Del     BY <1>3, DelSlottedInv
<1>4. CASE Drop    BY <1>4, DropSlottedInv
<1>5. CASE UNCHANGED vars
  BY <1>5 DEF SlottedInv, IInv, OwnKeys, vars
<1> QED
  BY <1>1, <1>2, <1>3, <1>4, <1>5 DEF Next

(* No call takes an entry's slot from it, although deletions break probe   *)
(* sequences and growth fills the slots anew.                              *)
THEOREM EntriesKeepSlots == ASSUME Covered, Unmixed PROVE Spec => []Slotted
<1>1. SlottedInv => Slotted
  BY DEF SlottedInv, Slotted
<1> QED
  BY <1>1, InitSlottedInv, NextSlottedInv, PTL DEF Spec

-----------------------------------------------------------------------------
(* The map is a dictionary.                                                *)

(* A deletion empties a slot without a look at the probe sequences that    *)
(* pass it.  So a client that deletes has no two keys that share a home    *)
(* slot, or lets the map generate keys of which no hash is taken: they are *)
(* positions, each below the capacity.  Whoever never deletes may have any *)
(* keys and any hash.                                                      *)
Scattered(c, hash, m) ==
    KeysApart(hash, Keys, m) \/ ("auto" \in c /\ Unhashed(hash))

Careful == \A use \in Uses :
    "del" \in use.calls => Scattered(use.calls, use.kind.hash, use.m)

(* the clients whose entries stay in their home slots *)
Homing(c, hash) == "del" \in c \/ ("auto" \in c /\ Unhashed(hash))

(* what keeps every entry within reach of the calls c *)
Clean(c, t) ==
    /\ Findable(t)
    /\ Homing(c, t.kind.hash) => Scattered(c, t.kind.hash, t.m) /\ AtHome(t)

DictInv == SlottedInv /\ Clean(calls, tab)

(* Growth keeps the table clean and what it holds. *)
LEMMA MakeRoomClean ==
    ASSUME DictInv
    PROVE  /\ Clean(calls, MakeRoom(tab))
           /\ \A key \in Keys : Get(MakeRoom(tab), key) = Get(tab, key)
<1> DEFINE t == MakeRoom(tab)
<1>1. /\ Healthy(tab) /\ Sound(tab) /\ Findable(tab) /\ Typed(tab)
      /\ ~tab.kind.nogrow => LoadBounded(tab)
  BY DEF DictInv, Clean, SlottedInv, IInv, Healthy, Sound
<1>2. Findable(t) /\ \A key \in Keys : Get(t, key) = Get(tab, key)
  BY <1>1, MakeRoomFindable
<1>3. /\ Typed(t) /\ SameEntries(tab, t) /\ t.kind = tab.kind
      /\ t.m = tab.m \/ t.m = 2 * tab.m
  BY <1>1, MakeRoomSound DEF Sound
<1>4. tab.m \in Nat /\ tab.m > 0 /\ t.kind.hash \in [Keys -> Nat] /\ t.m \in Nat
  BY <1>1, <1>3, Fields
<1>5. ASSUME Homing(calls, t.kind.hash) PROVE Scattered(calls, t.kind.hash, t.m)
  <2>1. Scattered(calls, tab.kind.hash, tab.m)
    BY <1>3, <1>5 DEF DictInv, Clean
  <2> QED
    BY <1>3, <1>4, <2>1, KeysApartDoubled DEF Scattered
<1> HIDE DEF t
<1>6. ASSUME Homing(calls, t.kind.hash) PROVE HomesApart(t)
  <2> SUFFICES ASSUME NEW p \in Live(t), NEW q \in Live(t),
                      Home(t, t.omap[p]) = Home(t, t.omap[q])
               PROVE  p = q
    BY DEF HomesApart
  <2>1. /\ t.omap[p] \in Keys /\ t.omap[q] \in Keys
        /\ p \in Slots(t) /\ q \in Slots(t)
    BY <1>3, LiveKeys
  <2>2. t.kind.hash[t.omap[p]] % t.m = t.kind.hash[t.omap[q]] % t.m
    BY <1>3, <2>1, HomeMod
  <2>3. CASE "auto" \in calls /\ Unhashed(t.kind.hash)
    <3>1. /\ t.omap[p] = p /\ t.omap[q] = q
          /\ t.kind.hash[p] = p /\ t.kind.hash[q] = q
      BY <1>3, <2>1, <2>3
      DEF DictInv, SlottedInv, OwnKeys, Unhashed, SameEntries
    <3>2. p % t.m = p /\ q % t.m = q
      BY <1>4, <2>1 DEF Slots
    <3> QED
      BY <2>2, <3>1, <3>2
  <2>4. CASE KeysApart(t.kind.hash, Keys, t.m)
    <3>1. t.omap[p] = t.omap[q]
      BY <2>1, <2>2, <2>4 DEF KeysApart
    <3> QED
      BY <1>2, <3>1 DEF Findable, KeyedOnce
  <2> QED
    BY <1>5, <1>6, <2>3, <2>4 DEF Scattered
<1>7. Homing(calls, t.kind.hash) => AtHome(t)
  BY <1>1, <1>3, <1>6, MakeRoomAtHome DEF DictInv, Clean, t
<1> QED
  BY <1>2, <1>5, <1>7 DEF Clean, t

LEMMA InitDictInv ==
    ASSUME Covered, Unmixed, Init,
           Homing(calls, tab.kind.hash) => Scattered(calls, tab.kind.hash, tab.m)
    PROVE  DictInv
<1>1. SlottedInv
  BY InitSlottedInv
<1>2. PICK use \in Uses : calls = use.calls /\ tab = EmptyTable(use.m, use.kind)
  BY DEF Init
<1>3. use.kind \in Kind /\ use.m \in Nat /\ use.m > 1
  BY UsesAssumption
<1>4. Sound(tab) /\ Live(tab) = {}
  BY <1>2, <1>3, EmptyHolds
<1>5. Findable(tab) /\ AtHome(tab)
  BY <1>4 DEF Findable, Chained, KeyedOnce, AtHome
<1> QED
  BY <1>1, <1>5 DEF DictInv, Clean

(* A put that is refused changes nothing; any other stores its value under *)
(* its key alone.                                                          *)
LEMMA PutClean ==
    ASSUME DictInv, NEW key \in Keys, NEW val \in Vals,
           "put" \in calls \/ ("update" \in calls /\ Get(tab, key) # NULL),
           tab' = PutKey(tab, key, val, MISS).tab, calls' = calls
    PROVE  /\ Clean(calls', tab')
           /\ \/ \A k \in Keys : Get(tab', k) = Get(tab, k)
              \/ \A k \in Keys :
                    Get(tab', k) = IF k = key THEN val ELSE Get(tab, k)
<1> DEFINE t == MakeRoom(tab)
           id == Lookup(t, key)
<1>1. Clean(calls, t) /\ \A k \in Keys : Get(t, k) = Get(tab, k)
  BY MakeRoomClean
<1>2. PutCases(t, key, val, tab') /\ Sound(tab')
  BY PutKeySound DEF DictInv, SlottedInv, IInv, Healthy
<1>3. "auto" \in calls => t.map[id] # MISS
  <2> SUFFICES ASSUME "auto" \in calls PROVE t.map[id] # MISS
    OBVIOUS
  <2>1. Get(tab, key) # NULL
    BY DEF DictInv, SlottedInv, OwnKeys
  <2> QED
    BY <2>1, UpdateFinds DEF DictInv, SlottedInv, IInv, Clean, Findable
<1> HIDE DEF t, id
<1>4. CASE tab' = t
  BY <1>1, <1>4
<1>5. CASE /\ id # MISS /\ t.map[id] = MISS
           /\ Entered(t, tab', key, val, IdmNewId(t.idm), id)
  <2>1. /\ Findable(tab')
        /\ \A q \in Live(t) : t.omap[q] # key
        /\ Get(tab', key) = val
        /\ \A k \in Keys : k # key => Get(tab', k) = Get(t, k)
    BY <1>1, <1>2, <1>5, EnteredFindable DEF Clean, id
  <2>2. tab'.m = t.m /\ tab'.kind = t.kind /\ "auto" \notin calls
    BY <1>3, <1>5 DEF Entered
  <2>3. ASSUME Homing(calls, t.kind.hash) PROVE AtHome(tab')
    <3>1. KeysApart(t.kind.hash, Keys, t.m) /\ AtHome(t) /\ Sound(t) /\ Typed(t)
      BY <1>1, <2>2, <2>3 DEF Clean, Scattered, Findable, Sound
    <3>2. ASSUME NEW q \in Live(t) PROVE Home(t, t.omap[q]) # Home(t, key)
      <4>1. t.omap[q] \in Keys
        BY <3>1, LiveKeys
      <4> QED
        BY <2>1, <3>1, <4>1, HomeMod DEF KeysApart
    <3>3. id = Home(t, key) /\ t.map[Home(t, key)] = MISS
      BY <1>5, <3>1, <3>2, LookupHomes DEF id
    <3> QED
      BY <1>2, <1>5, <3>1, <3>3, EnteredAtHome
  <2>4. Clean(calls', tab')
    BY <1>1, <2>1, <2>2, <2>3 DEF Clean
  <2> QED
    BY <1>1, <2>1, <2>4
<1>6. CASE /\ id # MISS /\ t.map[id] # MISS /\ t.omap[t.map[id]] = key
           /\ Replaced(t, tab', val, id)
  <2>1. /\ Findable(tab')
        /\ Get(tab', key) = val
        /\ \A k \in Keys : k # key => Get(tab', k) = Get(t, k)
    BY <1>1, <1>2, <1>6, ReplacedFindable DEF Clean, id
  <2>2. tab'.m = t.m /\ tab'.kind = t.kind /\ (AtHome(t) => AtHome(tab'))
    BY <1>6, ReplacedAtHome DEF Replaced
  <2>3. Clean(calls', tab')
    BY <1>1, <2>1, <2>2 DEF Clean
  <2> QED
    BY <1>1, <2>1, <2>3
<1> QED
  BY <1>2, <1>4, <1>5, <1>6 DEF PutCases, id

(* A generated key had no entry; where entries are in their home slots it  *)
(* goes to its own, which is its number if no hash is taken of it.         *)
LEMMA GeneratedHome ==
    ASSUME DictInv, "auto" \in calls, IdmNewId(tab.idm) \in Keys,
           Homing(calls, tab.kind.hash)
    PROVE  LET t == MakeRoom(tab)
               p == IdmNewId(tab.idm)
           IN  /\ Lookup(t, p) = Home(t, p) /\ t.map[Home(t, p)] = MISS
               /\ Unhashed(tab.kind.hash) => Home(t, p) = p
<1> DEFINE t == MakeRoom(tab)
           p == IdmNewId(tab.idm)
<1>1. /\ Lookup(t, p) # MISS
      /\ \A q \in Live(t) : t.omap[q] = q /\ q # p
  BY GeneratedSlot DEF DictInv, SlottedInv
<1>2. /\ Clean(calls, t) /\ Typed(t) /\ Sound(t)
      /\ t.kind = tab.kind /\ t.idm = tab.idm /\ (t.n + 1) * 4 < t.m * 3
  BY MakeRoomClean, MakeRoomSound
  DEF Clean, Findable, Sound, DictInv, SlottedInv, IInv, Healthy
<1> HIDE DEF t
<1>3. t.n \in Nat /\ t.m \in Nat /\ t.n < t.m
  BY <1>2, Fields
<1>4. p \in Slots(t) /\ p \in Keys
  BY <1>2, <1>3, NextPositionFits DEF Sound, Counted
<1> HIDE DEF p
<1>5. ASSUME Unhashed(t.kind.hash), NEW q \in Keys, q \in Slots(t)
      PROVE  Home(t, q) = q
  <2>1. q \in 0 .. t.m - 1 /\ t.kind.hash[q] = q
    BY <1>5 DEF Unhashed, Slots
  <2>2. q % t.m = q
    BY <1>3, <2>1
  <2> QED
    BY <1>2, <2>1, <2>2, HomeMod
<1>6. ASSUME NEW q \in Live(t) PROVE Home(t, t.omap[q]) # Home(t, p)
  <2>1. q \in Slots(t) /\ t.omap[q] \in Keys /\ t.omap[q] = q /\ q # p
    BY <1>1, <1>2, LiveKeys
  <2>2. CASE Unhashed(t.kind.hash)
    BY <1>4, <1>5, <2>1, <2>2
  <2>3. CASE KeysApart(t.kind.hash, Keys, t.m)
    BY <1>2, <1>4, <2>1, <2>3, HomeMod DEF KeysApart
  <2> QED
    BY <1>2, <2>2, <2>3 DEF Clean, Scattered
<1>7. Lookup(t, p) = Home(t, p) /\ t.map[Home(t, p)] = MISS
  BY <1>1, <1>2, <1>4, <1>6, LookupHomes DEF Clean
<1> QED
  BY <1>2, <1>4, <1>5, <1>7 DEF t, p

LEMMA PutNullClean ==
    ASSUME DictInv, NEW val \in Vals, "auto" \in calls,
           IdmNewId(tab.idm) \in Keys,
           tab' = PutAuto(tab, val).tab, calls' = calls
    PROVE  /\ Clean(calls', tab')
           /\ Get(tab, IdmNewId(tab.idm)) = NULL
           /\ \A k \in Keys : Get(tab', k) =
                 IF k = IdmNewId(tab.idm) THEN val ELSE Get(tab, k)
<1> DEFINE t == MakeRoom(tab)
           key == IdmNewId(tab.idm)
           e == PutAuto(tab, val)
<1>1. Clean(calls, t) /\ \A k \in Keys : Get(t, k) = Get(tab, k)
  BY MakeRoomClean
<1>2. /\ Sound(e.tab) /\ e.id = Lookup(t, key)
      /\ Entered(t, e.tab, key, val, key, e.id)
  BY PutAutoSound DEF DictInv, SlottedInv, IInv, Healthy
<1>3. /\ Lookup(t, key) # MISS /\ t.map[Lookup(t, key)] = MISS
      /\ \A q \in Live(t) : t.omap[q] # key
  BY GeneratedSlot DEF DictInv, SlottedInv
<1>4. t.kind = tab.kind /\ key \in Keys
  BY MakeRoomSound DEF DictInv, SlottedInv, IInv, Healthy
<1> HIDE DEF t, e
<1>5. tab' = e.tab
  BY DEF e
<1>6. /\ Findable(tab') /\ Get(tab', key) = val
      /\ \A k \in Keys : k # key => Get(tab', k) = Get(t, k)
  <2> HIDE DEF key
  <2> QED
    BY <1>1, <1>2, <1>3, <1>4, <1>5, EnteredFindable DEF Clean
<1>7. ASSUME Homing(calls, t.kind.hash) PROVE AtHome(tab')
  <2>1. Lookup(t, key) = Home(t, key) /\ t.map[Home(t, key)] = MISS
    BY <1>4, <1>7, GeneratedHome DEF t
  <2> HIDE DEF key
  <2> QED
    BY <1>1, <1>2, <1>4, <1>5, <1>7, <2>1, EnteredAtHome DEF Clean, Findable
<1>8. tab'.kind = t.kind /\ tab'.m = t.m
  BY <1>2, <1>5 DEF Entered
<1>9. Clean(calls', tab')
  BY <1>1, <1>6, <1>7, <1>8 DEF Clean
<1>10. Get(tab, key) = NULL
  BY <1>1, <1>3, <1>4, GetMisses DEF Clean, Findable
<1> QED
  BY <1>1, <1>6, <1>9, <1>10 DEF key

LEMMA DelClean ==
    ASSUME DictInv, NEW key \in Keys, "del" \in calls,
           Lookup(tab, key) # MISS, tab.map[Lookup(tab, key)] # MISS,
           tab' = DeleteAt(tab, tab.map[Lookup(tab, key)]), calls' = calls
    PROVE  /\ Clean(calls', tab')
           /\ \A k \in Keys : Get(tab', k) = IF k = key THEN NULL ELSE Get(tab, k)
<1> DEFINE id == Lookup(tab, key)
<1>1. Sound(tab) /\ Typed(tab)
  BY DEF DictInv, SlottedInv, IInv, Healthy, Sound
<1>2. id \in Slots(tab) /\ tab.omap[tab.map[id]] = key
  BY <1>1, LookupStops
<1>3. id = Lookup(tab, tab.omap[tab.map[id]]) /\ tab.map[id] # MISS
  BY <1>2
<1>4. Sound(tab') /\ Deleted(tab, tab', id)
  BY <1>1, <1>2, <1>3, DeleteSound
<1> HIDE DEF id
<1>5. /\ Findable(tab') /\ AtHome(tab')
      /\ Get(tab', key) = NULL
      /\ \A k \in Keys : k # key => Get(tab', k) = Get(tab, k)
  BY <1>4, DeletedFindable DEF DictInv, Clean, Homing, id
<1>6. tab'.m = tab.m /\ tab'.kind = tab.kind
  BY <1>4 DEF Deleted
<1> QED
  BY <1>5, <1>6 DEF DictInv, Clean

LEMMA DropClean ==
    ASSUME DictInv, tab' = EmptyTable(tab.m, tab.kind), calls' = calls
    PROVE  /\ Clean(calls', tab')
           /\ \A k \in Keys : Get(tab', k) = NULL
<1>1. tab.m \in Nat /\ tab.m > 1 /\ tab.kind \in Kind
  BY Fields DEF DictInv, SlottedInv, IInv, Healthy, Sound
<1>2. Sound(tab') /\ Live(tab') = {} /\ tab'.kind = tab.kind /\ tab'.m = tab.m
  BY <1>1, EmptyHolds DEF EmptyTable
<1>3. Findable(tab') /\ AtHome(tab')
  BY <1>2 DEF Findable, Chained, KeyedOnce, AtHome
<1>4. Clean(calls', tab')
  BY <1>2, <1>3 DEF DictInv, Clean
<1>5. \A k \in Keys : Get(tab', k) = NULL
  BY <1>2, GetMisses
<1> QED
  BY <1>4, <1>5

LEMMA NextDictInv == DictInv /\ [Next]_vars => DictInv'
<1> SUFFICES ASSUME DictInv, [Next]_vars PROVE Clean(calls', tab')
  BY NextSlottedInv DEF DictInv
<1>1. CASE Put     BY <1>1, PutClean DEF Put
<1>2. CASE PutNull BY <1>2, PutNullClean DEF PutNull
<1>3. CASE Del     BY <1>3, DelClean DEF Del
<1>4. CASE Drop    BY <1>4, DropClean DEF Drop, Cleared
<1>5. CASE UNCHANGED vars
  BY <1>5 DEF DictInv, vars
<1> QED
  BY <1>1, <1>2, <1>3, <1>4, <1>5 DEF Next

THEOREM DictionaryInvariant ==
    ASSUME Covered, Unmixed, Careful PROVE Spec => []DictInv
<1>1. Init => DictInv
  <2> SUFFICES ASSUME Init, Homing(calls, tab.kind.hash)
               PROVE  Scattered(calls, tab.kind.hash, tab.m)
    BY InitDictInv
  <2> QED
    BY DEF Init, EmptyTable, Careful, Homing, Scattered
<1> QED
  BY <1>1, NextDictInv, PTL DEF Spec

(* qmap_get reaches every entry under its key. *)
THEOREM EntriesReachable ==
    ASSUME Covered, Unmixed, Careful PROVE Spec => []Reachable
<1>1. DictInv => Reachable
  BY GetFinds DEF DictInv, Clean, Reachable
<1> QED
  BY <1>1, DictionaryInvariant, PTL

(* A put never adds a second entry for a key. *)
THEOREM KeysUnique ==
    ASSUME Covered, Unmixed, Careful PROVE Spec => []UniqueKeys
<1>1. DictInv => UniqueKeys
  BY DEF DictInv, Clean, Findable, KeyedOnce, UniqueKeys
<1> QED
  BY <1>1, DictionaryInvariant, PTL

(* A put without a key returns the slot of the entry it made, which is the *)
(* generated key where no hash is taken of keys.  A client with such keys  *)
(* cannot help being careful, and of one with others nothing is asked.     *)
AutoInv == SlottedInv /\ ("auto" \in calls /\ Unhashed(tab.kind.hash) => DictInv)

LEMMA InitAutoInv == Covered /\ Unmixed /\ Init => AutoInv
  BY InitSlottedInv, InitDictInv DEF AutoInv, Scattered

LEMMA NextAutoInv == AutoInv /\ [Next]_vars => AutoInv'
<1> SUFFICES ASSUME AutoInv, [Next]_vars PROVE AutoInv'
  OBVIOUS
<1>1. SlottedInv /\ SlottedInv'
  BY NextSlottedInv DEF AutoInv
<1>2. calls' = calls /\ tab'.kind = tab.kind
  <2>1. CASE Put
    BY <1>1, <2>1, PutKeySound DEF Put, SlottedInv, IInv
  <2>2. CASE PutNull
    BY <1>1, <2>2, PutAutoSound DEF PutNull, SlottedInv, IInv
  <2>3. CASE Del
    BY <1>1, <2>3, DelIInv DEF Del, SlottedInv
  <2>4. CASE Drop
    BY <2>4 DEF Drop, Cleared, EmptyTable
  <2>5. CASE UNCHANGED vars
    BY <2>5 DEF vars
  <2> QED
    BY <2>1, <2>2, <2>3, <2>4, <2>5 DEF Next
<1> QED
  BY <1>1, <1>2, NextDictInv DEF AutoInv

THEOREM KeyReturned == ASSUME Covered, Unmixed PROVE Spec => []ReturnsKey
<1>1. AutoInv => ReturnsKey
  <2> DEFINE key == IdmNewId(tab.idm)
  <2> SUFFICES ASSUME AutoInv, NEW val \in Vals, "auto" \in calls, key \in Keys
               PROVE  LET put == PutAuto(tab, val)
                      IN  /\ put.id # MISS /\ put.tab.map[put.id] # MISS
                          /\ put.tab.omap[put.tab.map[put.id]] = key
                          /\ Unhashed(tab.kind.hash) => put.id = key
    BY DEF ReturnsKey
  <2> DEFINE t == MakeRoom(tab)
             e == PutAuto(tab, val)
  <2>1. /\ e.id = Lookup(t, key) /\ Entered(t, e.tab, key, val, key, e.id)
        /\ Typed(t)
    BY PutAutoSound, MakeRoomSound DEF AutoInv, SlottedInv, IInv, Healthy, Sound
  <2>2. e.id # MISS
    BY <2>1, GeneratedSlot DEF AutoInv, SlottedInv
  <2>3. ASSUME Unhashed(tab.kind.hash) PROVE e.id = key
    BY <2>1, <2>3, GeneratedHome DEF AutoInv, Homing
  <2> HIDE DEF t, e
  <2>4. e.tab.map[e.id] = key /\ e.tab.omap[key] = key
    BY <2>1, Fields DEF Entered, Slots
  <2>5. key # MISS
    BY TableAssumption DEF MISS
  <2> QED
    BY <2>2, <2>3, <2>4, <2>5 DEF e
<1> QED
  BY <1>1, InitAutoInv, NextAutoInv, PTL DEF Spec

(* Each call is a step of the dictionary, or leaves it as it was: it       *)
(* changes what qmap_get returns for the key it names and for no other.    *)
THEOREM Refines ==
    ASSUME Covered, Unmixed, Careful PROVE Spec => ImplementsDictionary
<1> DEFINE dict == [key \in Keys |-> Get(tab, key)]
<1>1. Covered /\ Unmixed /\ Careful /\ Init => Dictionary!Init
  <2> SUFFICES ASSUME Covered, Unmixed, Careful, Init PROVE dict = [k \in Keys |-> NULL]
    BY DEF Dictionary!Init
  <2>1. Sound(tab) /\ Live(tab) = {}
    <3>1. PICK use \in Uses : tab = EmptyTable(use.m, use.kind)
      BY DEF Init
    <3>2. use.kind \in Kind /\ use.m \in Nat /\ use.m > 1
      BY UsesAssumption
    <3> QED
      BY <3>1, <3>2, EmptyHolds
  <2> QED
    BY <2>1, GetMisses
<1>2. DictInv /\ [Next]_vars => [Dictionary!Next]_dict
  <2> SUFFICES ASSUME DictInv, [Next]_vars
               PROVE  Dictionary!Next \/ dict' = dict
    OBVIOUS
  <2>1. CASE Put
    <3>1. PICK key \in Keys, val \in Vals :
              \/ \A k \in Keys : Get(tab', k) = Get(tab, k)
              \/ \A k \in Keys : Get(tab', k) = IF k = key THEN val ELSE Get(tab, k)
      BY <2>1, PutClean DEF Put
    <3>2. dict' = dict \/ dict' = [dict EXCEPT ![key] = val]
      BY <3>1
    <3>3. dict' = dict \/ Dictionary!Put
      BY <3>2 DEF Dictionary!Put
    <3> QED
      BY <3>3 DEF Dictionary!Next
  <2>2. CASE PutNull
    <3> DEFINE key == IdmNewId(tab.idm)
    <3>1. PICK val \in Vals :
              /\ key \in Keys /\ Get(tab, key) = NULL
              /\ \A k \in Keys : Get(tab', k) = IF k = key THEN val ELSE Get(tab, k)
      BY <2>2, PutNullClean DEF PutNull
    <3> HIDE DEF key
    <3>2. dict[key] = NULL /\ dict' = [dict EXCEPT ![key] = val]
      BY <3>1
    <3>3. Dictionary!PutAuto
      BY <3>1, <3>2 DEF Dictionary!PutAuto
    <3> QED
      BY <3>3 DEF Dictionary!Next
  <2>3. CASE Del
    <3>1. PICK key \in Keys :
              \A k \in Keys : Get(tab', k) = IF k = key THEN NULL ELSE Get(tab, k)
      BY <2>3, DelClean DEF Del
    <3>2. dict' = [dict EXCEPT ![key] = NULL]
      BY <3>1
    <3>3. Dictionary!Del
      BY <3>2 DEF Dictionary!Del
    <3> QED
      BY <3>3 DEF Dictionary!Next
  <2>4. CASE Drop
    <3>1. \A k \in Keys : Get(tab', k) = NULL
      BY <2>4, DropClean DEF Drop, Cleared
    <3>2. Dictionary!Drop
      BY <3>1 DEF Dictionary!Drop
    <3> QED
      BY <3>2 DEF Dictionary!Next
  <2>5. CASE UNCHANGED vars
    BY <2>5 DEF vars
  <2> QED
    BY <2>1, <2>2, <2>3, <2>4, <2>5 DEF Next
<1> QED
  BY <1>1, <1>2, DictionaryInvariant, PTL
  DEF Spec, ImplementsDictionary, Dictionary!Spec
=============================================================================
