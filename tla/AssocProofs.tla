----------------------------- MODULE AssocProofs ----------------------------
(***************************************************************************)
(* Proofs about a primary map and its linked map: the two stay in step for *)
(* every callback, every set of keys and every sequence of calls.          *)
(***************************************************************************)
EXTENDS Assoc, TableLemmas

(* No two keys that the primary is given share a home slot: qmap_del       *)
(* empties slots, and where they do it may break the probe sequence of     *)
(* another entry, which the primary then enters a second time.             *)
PrimaryApart == \A u \in Uses : KeysApart(u.prim.hash, PrimKeys, u.primM)

-----------------------------------------------------------------------------
(* The primary.                                                            *)

(* every entry of the primary is in its home slot *)
PrimOK(t) ==
    /\ Healthy(t) /\ Findable(t) /\ AtHome(t)
    /\ ~t.kind.multi /\ ~t.kind.shared
    /\ \A p \in Live(t) : t.omap[p] \in PrimKeys /\ t.vals[p] \in Vals
    /\ KeysApart(t.kind.hash, PrimKeys, t.m)

LEMMA KeyAtTyped ==
    /\ SecKeys \subseteq Keys
    /\ \A val \in Vals : SecKey[val] \in SecKeys
<1>1. SecKey \in [Vals -> Keys]
  BY AssocAssumption
<1>2. SecKeys = {SecKey[val] : val \in Vals}
  BY <1>1 DEF SecKeys, Range
<1> QED
  BY <1>1, <1>2

LEMMA PrimFacts ==
    ASSUME NEW t, PrimOK(t)
    PROVE  /\ Typed(t) /\ Sound(t) /\ Counted(t) /\ PrimKeys \subseteq Keys
           /\ t.idm \in Manager /\ t.idm.last \in Nat /\ t.m \in Nat
           /\ Accounts(t.idm, Live(t))
           /\ \A p \in Live(t) : /\ p \in Nat /\ p < t.idm.last
                                 /\ KeyAt(t, p) \in SecKeys
<1>1. Sound(t) /\ Typed(t) /\ Counted(t)
  BY DEF PrimOK, Healthy, Sound, Counted
<1>2. t.idm \in Manager /\ t.idm.last \in Nat /\ t.m \in Nat
  BY <1>1, Fields
<1>3. \A p \in Live(t) : KeyAt(t, p) \in SecKeys
  BY KeyAtTyped DEF KeyAt, PrimOK
<1>4. \A p \in Live(t) : p \in Nat /\ p < t.idm.last
  BY <1>2 DEF Live
<1> QED
  BY <1>1, <1>2, <1>3, <1>4, AssocAssumption DEF Counted

LEMMA PrimEmpty ==
    ASSUME NEW m \in Nat, m > 1, NEW kind \in Kind, ~kind.multi, ~kind.shared,
           KeysApart(kind.hash, PrimKeys, m)
    PROVE  LET t == EmptyTable(m, kind)
           IN  PrimOK(t) /\ Live(t) = {} /\ t.kind = kind
<1> DEFINE t == EmptyTable(m, kind)
<1>1. /\ Sound(t) /\ EntriesSlotted(t) /\ t.n = 0 /\ t.m = m /\ t.kind = kind
  BY EmptySound
<1>2. t.idm.last = 0
  BY DEF EmptyTable, IdmInit
<1> HIDE DEF t
<1>3. Live(t) = {}
  BY <1>2 DEF Live
<1>4. Healthy(t)
  BY <1>1 DEF Healthy, LoadBounded
<1>5. Findable(t) /\ AtHome(t)
  BY <1>1, <1>3 DEF Findable, Chained, KeyedOnce, AtHome
<1>6. PrimOK(t)
  BY <1>1, <1>3, <1>4, <1>5 DEF PrimOK
<1> QED
  BY <1>1, <1>3, <1>6 DEF t

(* Growth leaves every entry in its home slot. *)
LEMMA PrimRoom ==
    ASSUME NEW t, PrimOK(t)
    PROVE  LET r == MakeRoom(t)
           IN  /\ PrimOK(r) /\ SameEntries(t, r)
               /\ r.idm = t.idm /\ r.kind = t.kind
<1> DEFINE r == MakeRoom(t)
<1>1. Sound(t) /\ Typed(t) /\ (~t.kind.nogrow => LoadBounded(t)) /\ Findable(t)
  BY PrimFacts DEF PrimOK, Healthy
<1>2. /\ Sound(r) /\ SameEntries(t, r) /\ r.idm = t.idm /\ r.kind = t.kind
      /\ r.m = t.m \/ r.m = 2 * t.m
      /\ EntriesSlotted(t) => EntriesSlotted(r)
      /\ ~t.kind.nogrow => (r.n + 1) * 4 < r.m * 3
  BY <1>1, MakeRoomSound
<1>3. Findable(r)
  BY <1>1, MakeRoomFindable
<1>4. t.m \in Nat /\ t.m > 0 /\ t.kind.hash \in [Keys -> Nat] /\ PrimKeys \subseteq Keys
  BY <1>1, Fields, PrimFacts
<1>5. KeysApart(r.kind.hash, PrimKeys, r.m)
  BY <1>2, <1>4, KeysApartDoubled DEF PrimOK
<1>6. \A p \in Live(r) : r.omap[p] \in PrimKeys /\ r.vals[p] \in Vals
  BY <1>2 DEF SameEntries, PrimOK
<1>7. HomesApart(r)
  <2> HIDE DEF r
  <2> SUFFICES ASSUME NEW p \in Live(r), NEW q \in Live(r),
                      Home(r, r.omap[p]) = Home(r, r.omap[q])
               PROVE  p = q
    BY DEF HomesApart
  <2>1. Typed(r) /\ r.omap[p] \in PrimKeys /\ r.omap[q] \in PrimKeys
    BY <1>2, <1>6 DEF Sound
  <2>2. r.omap[p] = r.omap[q]
    BY <1>4, <1>5, <2>1, HomeMod DEF KeysApart
  <2> QED
    BY <1>3, <2>2 DEF Findable, KeyedOnce
<1>8. AtHome(r)
  BY <1>1, <1>7, MakeRoomAtHome DEF PrimOK
<1> HIDE DEF r
<1>9. r.n \in Nat /\ r.m \in Nat
  BY <1>2, Fields DEF Sound
<1>10. Healthy(r)
  BY <1>1, <1>2, <1>9 DEF Healthy, PrimOK, LoadBounded
<1> QED
  BY <1>2, <1>3, <1>5, <1>6, <1>8, <1>10 DEF PrimOK, r

(* A put gives the key a new entry at the position the manager issues next *)
(* or the entry it has another value.                                      *)
PutNew(t, u, key, val, p) ==
    /\ p = IdmNewId(t.idm) /\ p \notin Live(t) /\ u.idm = IdmNew(t.idm)
    /\ Live(u) = Live(t) \cup {p}
    /\ u.omap[p] = key /\ u.vals[p] = val
    /\ \A q \in Live(t) : u.omap[q] = t.omap[q] /\ u.vals[q] = t.vals[q]

PutOld(t, u, key, val, p) ==
    /\ p \in Live(t) /\ t.omap[p] = key /\ u.idm = t.idm
    /\ Live(u) = Live(t) /\ u.vals[p] = val
    /\ \A q \in Live(t) : /\ u.omap[q] = t.omap[q]
                          /\ q # p => u.vals[q] = t.vals[q]

LEMMA PrimEntered ==
    ASSUME NEW t, PrimOK(t), NEW key \in PrimKeys, NEW val \in Vals,
           NEW u, Healthy(u), Lookup(t, key) # MISS, t.map[Lookup(t, key)] = MISS,
           Entered(t, u, key, val, IdmNewId(t.idm), Lookup(t, key))
    PROVE  /\ PrimOK(u)
           /\ PutNew(t, u, key, val, u.map[Lookup(t, key)])
<1> DEFINE id == Lookup(t, key)
           p == IdmNewId(t.idm)
<1>1. /\ Sound(t) /\ Typed(t) /\ Sound(u) /\ Findable(t) /\ AtHome(t) /\ key \in Keys
      /\ PrimKeys \subseteq Keys
  BY PrimFacts DEF PrimOK, Healthy
<1>2. Findable(u) /\ \A q \in Live(t) : t.omap[q] # key
  BY <1>1, EnteredFindable
<1>3. KeysApart(t.kind.hash, PrimKeys, t.m) /\ \A q \in Live(t) : t.omap[q] \in PrimKeys
  BY DEF PrimOK
<1>4. \A q \in Live(t) : Home(t, t.omap[q]) # Home(t, key)
  BY <1>1, <1>2, <1>3, HomeMod DEF KeysApart
<1>5. Lookup(t, key) = Home(t, key)
  BY <1>1, <1>4, LookupHomes
<1>6. AtHome(u)
  BY <1>1, <1>5, EnteredAtHome
<1> HIDE DEF id, p
<1>7. /\ p \in Slots(t) /\ p \notin Live(t) /\ id \in Slots(t)
      /\ u.m = t.m /\ u.kind = t.kind /\ u.idm = IdmNew(t.idm)
      /\ Live(u) = Live(t) \cup {p}
      /\ u.map = [t.map EXCEPT ![id] = p]
      /\ u.omap = [t.omap EXCEPT ![p] = key]
      /\ u.vals = [t.vals EXCEPT ![p] = val]
  BY DEF Entered, id, p
<1>8. /\ u.map[id] = p /\ u.omap[p] = key /\ u.vals[p] = val
      /\ \A q \in Live(t) : u.omap[q] = t.omap[q] /\ u.vals[q] = t.vals[q]
  BY <1>1, <1>7, Fields, LiveFinite
<1>9. PutNew(t, u, key, val, p)
  BY <1>7, <1>8 DEF PutNew, p
<1>10. \A q \in Live(u) : u.omap[q] \in PrimKeys /\ u.vals[q] \in Vals
  BY <1>7, <1>8 DEF PrimOK
<1>11. PrimOK(u)
  BY <1>2, <1>6, <1>7, <1>10 DEF PrimOK
<1> QED
  BY <1>8, <1>9, <1>11 DEF id

LEMMA PrimReplaced ==
    ASSUME NEW t, PrimOK(t), NEW key \in PrimKeys, NEW val \in Vals,
           NEW u, Healthy(u), Lookup(t, key) # MISS, t.map[Lookup(t, key)] # MISS,
           Replaced(t, u, val, Lookup(t, key))
    PROVE  /\ PrimOK(u)
           /\ PutOld(t, u, key, val, u.map[Lookup(t, key)])
<1> DEFINE id == Lookup(t, key)
           p == t.map[id]
<1>1. /\ Sound(t) /\ Typed(t) /\ Sound(u) /\ Findable(t) /\ key \in Keys
  BY PrimFacts DEF PrimOK, Healthy
<1>2. Findable(u)
  BY <1>1, ReplacedFindable
<1>3. AtHome(u)
  BY ReplacedAtHome DEF PrimOK
<1>4. p \in Live(t) /\ t.omap[p] = key
  BY <1>1, LookupStops DEF Sound, SlotsPoint
<1>5. /\ u.m = t.m /\ u.kind = t.kind /\ u.idm = t.idm
      /\ Live(u) = Live(t) /\ u.map = t.map /\ u.omap = t.omap
      /\ u.vals = [t.vals EXCEPT ![p] = val]
  BY DEF Replaced
<1> HIDE DEF p
<1>6. \A q \in Live(t) : u.vals[q] = IF q = p THEN val ELSE t.vals[q]
  BY <1>1, <1>4, <1>5, Fields, LiveFinite
<1>7. PutOld(t, u, key, val, p)
  BY <1>4, <1>5, <1>6 DEF PutOld
<1>8. \A q \in Live(u) : u.omap[q] \in PrimKeys /\ u.vals[q] \in Vals
  BY <1>5, <1>6 DEF PrimOK
<1>9. PrimOK(u)
  BY <1>2, <1>3, <1>5, <1>8 DEF PrimOK
<1> QED
  BY <1>5, <1>7, <1>9 DEF p

LEMMA PrimPut ==
    ASSUME NEW t, PrimOK(t), NEW key \in PrimKeys, NEW val \in Vals
    PROVE  LET e == PutKey(t, key, val, MISS)
               u == e.tab
               p == u.map[e.id]
           IN  /\ PrimOK(u) /\ u.kind = t.kind
               /\ e.id = MISS => SameEntries(t, u) /\ u.idm = t.idm
               /\ e.id # MISS => PutNew(t, u, key, val, p) \/ PutOld(t, u, key, val, p)
<1> DEFINE r == MakeRoom(t)
           e == PutKey(t, key, val, MISS)
           u == e.tab
<1>1. PrimOK(r) /\ SameEntries(t, r) /\ r.idm = t.idm /\ r.kind = t.kind
  BY PrimRoom
<1>2. /\ Healthy(u) /\ u.kind = t.kind /\ PutCases(r, key, val, u)
      /\ e.id = Lookup(r, key)
  BY PutKeySound, PrimFacts DEF PrimOK
<1> HIDE DEF r, e
<1>3. CASE Lookup(r, key) = MISS /\ u = r
  BY <1>1, <1>2, <1>3 DEF e
<1>4. CASE /\ Lookup(r, key) # MISS /\ r.map[Lookup(r, key)] = MISS
           /\ Entered(r, u, key, val, IdmNewId(r.idm), Lookup(r, key))
  <2>1. PrimOK(u) /\ PutNew(r, u, key, val, u.map[e.id])
    BY <1>1, <1>2, <1>4, PrimEntered
  <2>2. PutNew(t, u, key, val, u.map[e.id])
    BY <1>1, <2>1 DEF PutNew, SameEntries
  <2> QED
    BY <1>2, <1>4, <2>1, <2>2 DEF e
<1>5. CASE /\ Lookup(r, key) # MISS /\ r.map[Lookup(r, key)] # MISS
           /\ Replaced(r, u, val, Lookup(r, key))
  <2>1. PrimOK(u) /\ PutOld(r, u, key, val, u.map[e.id])
    BY <1>1, <1>2, <1>5, PrimReplaced
  <2>2. PutOld(t, u, key, val, u.map[e.id])
    BY <1>1, <2>1 DEF PutOld, SameEntries
  <2> QED
    BY <1>2, <1>5, <2>1, <2>2 DEF e
<1> QED
  BY <1>2, <1>3, <1>4, <1>5 DEF PutCases, e

(* A delete takes the entry at its position out. *)
Without(t, u, p) ==
    /\ u.idm = IdmDel(t.idm, p) /\ u.kind = t.kind
    /\ Live(u) = Live(t) \ {p}
    /\ \A q \in Live(u) : u.omap[q] = t.omap[q]

LEMMA PrimDelete ==
    ASSUME NEW t, PrimOK(t), NEW p \in Live(t)
    PROVE  LET u == DeleteAt(t, p)
           IN  /\ PrimOK(u) /\ Without(t, u, p)
               /\ \A q \in Live(u) : u.vals[q] = t.vals[q]
<1> DEFINE u == DeleteAt(t, p)
           key == t.omap[p]
           id == Lookup(t, key)
<1>1. /\ Sound(t) /\ Typed(t) /\ Findable(t) /\ AtHome(t) /\ key \in Keys
      /\ t.n \in Nat /\ t.m \in Nat
  BY PrimFacts, Fields DEF PrimOK
<1>2. id # MISS /\ id \in Slots(t) /\ t.map[id] = p
  BY <1>1, LookupReaches
<1>3. p # MISS
  BY DEF Live, MISS
<1>4. /\ Sound(u) /\ Deleted(t, u, id)
      /\ u.n = t.n - 1 /\ u.m = t.m /\ u.kind = t.kind
      /\ EntriesSlotted(t) => EntriesSlotted(u)
  BY <1>1, <1>2, <1>3, DeleteSound
<1> HIDE DEF u
<1>5. Findable(u) /\ AtHome(u)
  BY <1>1, <1>2, <1>3, <1>4, DeletedFindable
<1>6. /\ u.idm = IdmDel(t.idm, p) /\ Live(u) = Live(t) \ {p}
      /\ \A q \in Live(u) : u.omap[q] = t.omap[q] /\ u.vals[q] = t.vals[q]
  BY <1>2, <1>4 DEF Deleted
<1>7. LoadBounded(t) => LoadBounded(u)
  BY <1>1, <1>4 DEF LoadBounded
<1>8. Healthy(u)
  BY <1>4, <1>7 DEF PrimOK, Healthy
<1>9. \A q \in Live(u) : u.omap[q] \in PrimKeys /\ u.vals[q] \in Vals
  BY <1>6 DEF PrimOK
<1>10. PrimOK(u)
  BY <1>4, <1>5, <1>8, <1>9 DEF PrimOK
<1>11. Without(t, u, p)
  BY <1>4, <1>6 DEF Without
<1> QED
  BY <1>6, <1>10, <1>11 DEF u

-----------------------------------------------------------------------------
(* A secondary that is not QM_MULTIVALUE.  Its counter, its manager's free *)
(* list and its slots may drift from its entries: an entry whose slot a    *)
(* lookup does not find is counted again when it is put again, and its     *)
(* slot stays.  The load bound, the bound on positions and that no two     *)
(* slots point to the same one are what keeps it going.                    *)
Loose(s) ==
    /\ Typed(s) /\ LoadBounded(s) /\ NoStrays(s)
    /\ s.n >= Cardinality(Live(s))
    /\ s.idm.last * 4 < s.m * 3
    /\ \A i \in Slots(s) : s.map[i] # MISS => (s.map[i] + 1) * 4 < s.m * 3
    /\ \A i, j \in Slots(s) : s.map[i] = s.map[j] /\ s.map[i] # MISS => i = j

Second(s) == ~s.kind.nogrow /\ s.kind.shared

LEMMA LooseFacts ==
    ASSUME NEW s, Loose(s)
    PROVE  /\ Typed(s) /\ s.m \in Nat /\ s.m > 1 /\ s.n \in Nat
           /\ s.idm.last \in Nat /\ s.idm.last < s.m /\ WithinCapacity(s)
           /\ s.n * 4 < s.m * 3
           /\ \A i \in Slots(s) : s.map[i] \in Nat \cup {MISS}
           /\ \A p \in Live(s) : /\ p \in Nat /\ p < s.idm.last /\ p \in Slots(s)
                                 /\ s.omap[p] \in Keys
<1>1. /\ Typed(s) /\ s.m \in Nat /\ s.m > 1 /\ s.n \in Nat /\ s.idm.last \in Nat
      /\ s.idm.last * 4 < s.m * 3
      /\ s.map \in [Slots(s) -> Nat \cup {MISS}]
  BY Fields DEF Loose
<1>2. s.idm.last < s.m
  BY <1>1
<1>3. WithinCapacity(s) /\ s.n * 4 < s.m * 3
  BY <1>1, <1>2 DEF WithinCapacity, Loose, LoadBounded
<1>4. \A p \in Live(s) : p \in Nat /\ p < s.idm.last
  BY <1>1 DEF Live
<1>5. \A p \in Live(s) : p \in Slots(s) /\ s.omap[p] \in Keys
  BY <1>1, LiveKeys
<1> QED
  BY <1>1, <1>2, <1>3, <1>4, <1>5

(* So a slot is empty: qmap_id_hash never fails. *)
LEMMA LooseSlot ==
    ASSUME NEW s, Loose(s)
    PROVE  \E i \in Slots(s) : s.map[i] = MISS
<1> SUFFICES ASSUME \A i \in Slots(s) : s.map[i] # MISS
             PROVE  FALSE
  OBVIOUS
<1> DEFINE m == s.m
           T == 0 .. m - 2
<1>1. m \in Nat /\ m > 1 /\ s.map \in [Slots(s) -> Nat \cup {MISS}]
  BY LooseFacts, Fields
<1>2. \A i \in Slots(s) : s.map[i] \in T
  <2> SUFFICES ASSUME NEW i \in Slots(s) PROVE s.map[i] \in T
    OBVIOUS
  <2>1. s.map[i] \in Nat /\ (s.map[i] + 1) * 4 < s.m * 3
    BY <1>1 DEF Loose
  <2> QED
    BY <1>1, <2>1
<1>3. s.map \in [Slots(s) -> T]
  BY <1>1, <1>2
<1>4. IsFiniteSet(Slots(s)) /\ Cardinality(Slots(s)) = m
  BY LooseFacts, SlotsFinite
<1> HIDE DEF m
<1>5. IsFiniteSet(T) /\ Cardinality(T) = m - 1
  <2> DEFINE k == m - 1
  <2>1. k \in Nat /\ T = 0 .. k - 1
    BY <1>1
  <2> HIDE DEF k, T
  <2>2. IsFiniteSet(0 .. k - 1) /\ Cardinality(0 .. k - 1) = k
    BY <2>1, FS_Interval
  <2> QED
    BY <2>1, <2>2 DEF k
<1> HIDE DEF T
<1>6. Cardinality(Slots(s)) > Cardinality(T)
  BY <1>1, <1>4, <1>5
<1>7. PICK i, j \in Slots(s) : i # j /\ s.map[i] = s.map[j]
  BY <1>3, <1>4, <1>5, <1>6, FS_PigeonHole
<1> QED
  BY <1>7 DEF Loose

(* The secondary keys of the entries are in their home slots, and no other *)
(* slot is in use.                                                         *)
Homely(s) ==
    /\ SlotsPoint(s) /\ AtHome(s)
    /\ KeysApart(s.kind.hash, SecKeys, s.m)
    /\ \A p \in Live(s) : s.omap[p] \in SecKeys

LEMMA HomesDistinct ==
    ASSUME NEW s, Typed(s), KeysApart(s.kind.hash, SecKeys, s.m), KeyedOnce(s),
           \A p \in Live(s) : s.omap[p] \in SecKeys
    PROVE  HomesApart(s)
<1> SUFFICES ASSUME NEW p \in Live(s), NEW q \in Live(s),
                    Home(s, s.omap[p]) = Home(s, s.omap[q])
             PROVE  p = q
  BY DEF HomesApart
<1>1. s.omap[p] \in SecKeys /\ s.omap[q] \in SecKeys /\ SecKeys \subseteq Keys
  BY KeyAtTyped
<1>2. s.omap[p] = s.omap[q]
  BY <1>1, HomeMod DEF KeysApart
<1> QED
  BY <1>2 DEF KeyedOnce

LEMMA GrowHomely ==
    ASSUME NEW s, Typed(s), WithinCapacity(s), KeyedOnce(s), Homely(s)
    PROVE  Homely(Grow(s))
<1> DEFINE g == Grow(s)
<1>1. /\ Typed(g) /\ WithinCapacity(g) /\ SlotsPoint(g) /\ InOrder(g)
      /\ g.m = 2 * s.m /\ g.kind = s.kind /\ SameEntries(s, g)
  BY GrowTyped
<1> HIDE DEF g
<1>2. s.m \in Nat /\ s.m > 0 /\ s.kind.hash \in [Keys -> Nat] /\ SecKeys \subseteq Keys
  BY Fields, KeyAtTyped
<1>3. KeysApart(g.kind.hash, SecKeys, g.m)
  BY <1>1, <1>2, KeysApartDoubled DEF Homely
<1>4. \A p \in Live(g) : g.omap[p] \in SecKeys
  BY <1>1 DEF SameEntries, Homely
<1>5. HomesApart(g)
  BY <1>1, <1>3, <1>4, HomesDistinct DEF KeyedOnce, SameEntries
<1>6. Shaped(g)
  BY <1>1, Fields DEF Shaped
<1>7. AtHome(g)
  BY <1>1, <1>5, <1>6, InOrderAtHome
<1> QED
  BY <1>1, <1>3, <1>4, <1>7 DEF Homely, g

LEMMA LooseRoom ==
    ASSUME NEW s, Loose(s), Second(s)
    PROVE  LET r == MakeRoom(s)
           IN  /\ Loose(r) /\ SameEntries(s, r)
               /\ r.n = s.n /\ r.idm = s.idm /\ r.kind = s.kind
               /\ (r.n + 1) * 4 < r.m * 3
               /\ KeyedOnce(s) /\ Homely(s) => Homely(r)
<1> DEFINE r == MakeRoom(s)
<1>1. /\ Typed(s) /\ s.m \in Nat /\ s.m > 1 /\ s.n \in Nat /\ s.n * 4 < s.m * 3
      /\ s.idm.last \in Nat /\ WithinCapacity(s) /\ ~s.kind.nogrow /\ NoStrays(s)
  BY LooseFacts DEF Second, Loose
<1>2. CASE (s.n + 1) * 4 >= s.m * 3
  <2> DEFINE g == Grow(s)
  <2>1. r = g
    BY <1>1, <1>2 DEF MakeRoom
  <2>2. /\ Typed(g) /\ WithinCapacity(g) /\ SlotsPoint(g)
        /\ g.m = 2 * s.m /\ g.n = s.n /\ g.idm = s.idm /\ g.kind = s.kind
        /\ Live(g) = Live(s) /\ SameEntries(s, g) /\ NoStrays(g)
    BY <1>1, GrowTyped
  <2>3. KeyedOnce(s) /\ Homely(s) => Homely(g)
    BY <1>1, GrowHomely
  <2> HIDE DEF g
  <2>4. (g.n + 1) * 4 < g.m * 3 /\ LoadBounded(g) /\ g.idm.last * 4 < g.m * 3
    BY <1>1, <2>2 DEF LoadBounded, Loose
  <2>5. ASSUME NEW i \in Slots(g), g.map[i] # MISS
        PROVE  (g.map[i] + 1) * 4 < g.m * 3
    <3>1. g.map[i] \in Live(s)
      BY <2>2, <2>5 DEF SlotsPoint
    <3>2. g.map[i] \in Nat /\ g.map[i] < s.idm.last
      BY <1>1, <3>1, LooseFacts
    <3> QED
      BY <1>1, <2>2, <2>4, <3>2
  <2>6. Loose(g)
    BY <2>2, <2>4, <2>5 DEF Loose, SlotsPoint
  <2> QED
    BY <2>1, <2>2, <2>3, <2>4, <2>6 DEF g
<1>3. CASE ~((s.n + 1) * 4 >= s.m * 3)
  <2>1. r = s
    BY <1>1, <1>3 DEF MakeRoom
  <2>2. SameEntries(s, s) /\ (s.n + 1) * 4 < s.m * 3
    BY <1>1, <1>3 DEF SameEntries
  <2> QED
    BY <2>1, <2>2
<1> QED
  BY <1>2, <1>3

(* The first slot that points to a position is the only one. *)
LEMMA UnslotOnly ==
    ASSUME NEW s, Typed(s), NEW p \in Nat,
           \A i, j \in Slots(s) : s.map[i] = s.map[j] /\ s.map[i] # MISS => i = j
    PROVE  /\ Unslot(s.map, p) \in [Slots(s) -> Nat \cup {MISS}]
           /\ \A i \in Slots(s) :
                 Unslot(s.map, p)[i] = IF s.map[i] = p THEN MISS ELSE s.map[i]
<1> DEFINE at == {i \in DOMAIN s.map : s.map[i] = p}
<1>1. /\ s.map \in [Slots(s) -> Nat \cup {MISS}] /\ p # MISS
      /\ DOMAIN s.map = Slots(s)
  BY Fields DEF MISS
<1>2. CASE at = {}
  <2>1. Unslot(s.map, p) = s.map
    BY <1>2 DEF Unslot
  <2> QED
    BY <1>1, <1>2, <2>1
<1>3. CASE at # {}
  <2>1. Unslot(s.map, p) = [s.map EXCEPT ![Min(at)] = MISS]
    BY <1>3 DEF Unslot
  <2>2. at \subseteq Nat
    BY <1>1 DEF Slots
  <2>3. Min(at) \in at
    BY <1>3, <2>2, MinIsLeast
  <2> DEFINE i0 == Min(at)
  <2> HIDE DEF i0
  <2>4. /\ i0 \in Slots(s) /\ s.map[i0] = p
        /\ Unslot(s.map, p) = [s.map EXCEPT ![i0] = MISS]
    BY <1>1, <2>1, <2>3 DEF i0
  <2> QED
    BY <1>1, <2>4
<1> QED
  BY <1>2, <1>3

(* u is r with the entry at p under the key, at the slot id. *)
CarriedTo(r, u, key, p, id) ==
    /\ Typed(u) /\ u.m = r.m /\ u.kind = r.kind
    /\ u.n = r.n + 1 \/ (u.n = r.n /\ p \in Live(r))
    /\ u.omap = [r.omap EXCEPT ![p] = key]
    /\ u.map = [Unslot(r.map, p) EXCEPT ![id] = p]
    /\ u.idm = UpdateLast(r.idm, p)

LEMMA StoreLinked ==
    ASSUME NEW t, Typed(t), t.kind.shared, ~t.kind.multi,
           NEW key \in Keys, NEW p \in Slots(t), NEW id \in Slots(t),
           Unslot(t.map, p) \in [Slots(t) -> Nat \cup {MISS}],
           NEW u, u = Store(t, key, NULL, p, p, id)
    PROVE  /\ Typed(u) /\ u.m = t.m /\ u.n = t.n /\ u.kind = t.kind /\ u.idm = t.idm
           /\ u.omap = [t.omap EXCEPT ![p] = key]
           /\ u.map = [Unslot(t.map, p) EXCEPT ![id] = p]
<1> DEFINE A == [Unslot(t.map, p) EXCEPT ![id] = p]
           B == [t.omap EXCEPT ![p] = key]
           C == [t.vals EXCEPT ![p] = t.vals[p]]
<1>0. p \in Nat /\ p # MISS
  BY Fields DEF Slots, MISS
<1>1. /\ A \in [Slots(t) -> Nat \cup {MISS}]
      /\ B \in [Slots(t) -> Keys \cup {NULL}]
      /\ C \in [Slots(t) -> Vals \cup {NULL}]
  BY <1>0, Fields
<1>2. u = [t EXCEPT !.omap = B, !.vals = C, !.map = A, !.dirty = TRUE]
  BY <1>0 DEF Store
<1> HIDE DEF A, B, C
<1>4. t = [m |-> t.m, n |-> t.n, map |-> t.map, omap |-> t.omap,
           vals |-> t.vals, idm |-> t.idm, dirty |-> t.dirty, kind |-> t.kind]
  BY Eta, Zenon
<1>5. /\ u = [m |-> t.m, n |-> t.n, map |-> A, omap |-> B, vals |-> C,
              idm |-> t.idm, dirty |-> TRUE, kind |-> t.kind]
      /\ u.m = t.m /\ u.n = t.n /\ u.idm = t.idm /\ u.kind = t.kind
      /\ u.map = A /\ u.omap = B
  BY <1>2, <1>4
<1>6. Slots(u) = Slots(t)
  BY <1>5 DEF Slots
<1>7. Typed(u)
  BY <1>1, <1>5, <1>6, Fields DEF Typed, Manager
<1> QED
  BY <1>5, <1>7 DEF A, B

(* The secondary's table with a position reserved for the entry. *)
LEMMA ReservedTyped ==
    ASSUME NEW t, Typed(t), NEW p \in Nat
    PROVE  LET c == [t EXCEPT !.idm = UpdateLast(t.idm, p), !.n = @ + 1]
           IN  /\ Typed(c) /\ c.m = t.m /\ c.n = t.n + 1 /\ c.kind = t.kind
               /\ c.idm = UpdateLast(t.idm, p) /\ c.map = t.map /\ c.omap = t.omap
               /\ Slots(c) = Slots(t)
<1> DEFINE i == UpdateLast(t.idm, p)
           c == [t EXCEPT !.idm = i, !.n = @ + 1]
<1>1. t.n \in Nat /\ t.idm \in Manager
  BY Fields
<1>2. i \in Manager
  BY <1>1 DEF UpdateLast, Manager
<1>3. c = [t EXCEPT !.idm = i, !.n = t.n + 1]
  BY DEF Typed
<1> HIDE DEF i, c
<1>4. t = [m |-> t.m, n |-> t.n, map |-> t.map, omap |-> t.omap,
           vals |-> t.vals, idm |-> t.idm, dirty |-> t.dirty, kind |-> t.kind]
  BY Eta, Zenon
<1>5. /\ c = [m |-> t.m, n |-> t.n + 1, map |-> t.map, omap |-> t.omap,
              vals |-> t.vals, idm |-> i, dirty |-> t.dirty, kind |-> t.kind]
      /\ c.m = t.m /\ c.n = t.n + 1 /\ c.idm = i /\ c.map = t.map
      /\ c.omap = t.omap /\ c.kind = t.kind
  BY <1>3, <1>4
<1>6. Slots(c) = Slots(t)
  BY <1>5 DEF Slots
<1>7. Typed(c)
  BY <1>1, <1>2, <1>5, <1>6, Fields DEF Typed, Manager
<1> QED
  BY <1>5, <1>6, <1>7 DEF c, i

(* The positions the primary may name: those it has issued before, and the *)
(* next one when all of them are in use.                                   *)
MayName(s, p) == p < s.idm.last \/ (p = s.idm.last /\ p <= s.n)

LEMMA PutLinked ==
    ASSUME NEW s, Loose(s), Second(s), ~s.kind.multi,
           NEW key \in Keys, NEW p \in Nat, MayName(s, p),
           \A q \in Live(s) : q # p => s.omap[q] # key
    PROVE  LET r == MakeRoom(s)
               id == Lookup(r, key)
               u == PutKey(s, key, NULL, p).tab
           IN  /\ CarriedTo(r, u, key, p, id)
               /\ id # MISS /\ id \in Slots(r)
               /\ r.map[id] = MISS \/ (r.map[id] = p /\ p \in Live(r))
               /\ (p + 1) * 4 < r.m * 3
<1> DEFINE r == MakeRoom(s)
           id == Lookup(r, key)
           c == [r EXCEPT !.idm = UpdateLast(r.idm, p), !.n = @ + 1]
           u == PutKey(s, key, NULL, p).tab
<1>1. /\ Loose(r) /\ SameEntries(s, r) /\ r.n = s.n /\ r.idm = s.idm
      /\ r.kind = s.kind /\ (r.n + 1) * 4 < r.m * 3
  BY LooseRoom
<1> HIDE DEF r
<1>2. /\ Typed(r) /\ r.m \in Nat /\ r.n \in Nat /\ r.idm.last \in Nat
      /\ r.idm.last * 4 < r.m * 3 /\ r.kind.shared /\ ~r.kind.multi /\ ~r.kind.nogrow
  BY <1>1, LooseFacts DEF Loose, Second
<1>3. (p + 1) * 4 < r.m * 3
  BY <1>1, <1>2 DEF MayName
<1>4. p \in Slots(r) /\ p < r.m /\ p # MISS
  BY <1>2, <1>3 DEF Slots, MISS
<1>5. id # MISS /\ id \in Slots(r) /\ (r.map[id] = MISS \/ r.omap[r.map[id]] = key)
  BY <1>1, <1>2, LooseSlot, LookupStopsAt, LookupStops
<1>6. Unslot(r.map, p) \in [Slots(r) -> Nat \cup {MISS}]
  BY <1>1, <1>2, UnslotOnly DEF Loose
<1> HIDE DEF id
<1>7. CASE r.map[id] = MISS
  <2> DEFINE w == Store(c, key, NULL, p, p, id)
  <2>1. u = w
    <3>1. c.m = r.m
      BY <1>2 DEF Typed
    <3>2. Enter(c, key, NULL, p, p, id) = [tab |-> w, id |-> id]
      BY <1>4, <3>1 DEF Enter
    <3>3. PutKey(s, key, NULL, p) = Enter(c, key, NULL, p, p, id)
      BY <1>4, <1>5, <1>7 DEF PutKey, r, id
    <3> QED
      BY <3>2, <3>3
  <2>2. /\ Typed(c) /\ c.m = r.m /\ c.n = r.n + 1 /\ c.kind = r.kind
        /\ c.idm = UpdateLast(r.idm, p) /\ c.map = r.map /\ c.omap = r.omap
        /\ Slots(c) = Slots(r)
    BY <1>2, ReservedTyped
  <2> HIDE DEF c, u
  <2>5. /\ c.kind.shared /\ ~c.kind.multi /\ p \in Slots(c) /\ id \in Slots(c)
        /\ Unslot(c.map, p) \in [Slots(c) -> Nat \cup {MISS}]
    BY <1>2, <1>4, <1>5, <1>6, <2>2
  <2>3. /\ Typed(w) /\ w.m = c.m /\ w.n = c.n /\ w.kind = c.kind /\ w.idm = c.idm
        /\ w.omap = [c.omap EXCEPT ![p] = key]
        /\ w.map = [Unslot(c.map, p) EXCEPT ![id] = p]
    BY <2>2, <2>5, StoreLinked
  <2> HIDE DEF w
  <2>4. CarriedTo(r, u, key, p, id)
    BY <2>1, <2>2, <2>3 DEF CarriedTo
  <2> QED
    BY <1>3, <1>5, <1>7, <2>4 DEF r, id, u
<1>8. CASE r.map[id] # MISS
  <2> DEFINE w == Store(r, key, NULL, p, p, id)
  <2>1. r.map[id] \in Slots(r)
    <3>1. r.map[id] \in Nat /\ (r.map[id] + 1) * 4 < r.m * 3
      BY <1>1, <1>5, <1>8, LooseFacts DEF Loose
    <3> QED
      BY <1>2, <3>1 DEF Slots
  <2>2. r.map[id] \in Live(r)
    <3>1. r.omap[r.map[id]] # NULL
      BY <1>5, <1>8, Sentinels
    <3> QED
      BY <1>1, <2>1, <3>1 DEF Loose, NoStrays
  <2>3. r.map[id] = p
    BY <1>1, <1>5, <1>8, <2>2 DEF SameEntries
  <2>4. u = w
    BY <1>2, <1>5, <1>8, <2>3 DEF PutKey, r, id
  <2>5. UpdateLast(r.idm, p) = r.idm
    BY <1>1, <1>2, <2>2, <2>3, LooseFacts DEF UpdateLast
  <2> HIDE DEF u, w
  <2>6. /\ Typed(w) /\ w.m = r.m /\ w.n = r.n /\ w.kind = r.kind /\ w.idm = r.idm
        /\ w.omap = [r.omap EXCEPT ![p] = key]
        /\ w.map = [Unslot(r.map, p) EXCEPT ![id] = p]
    <3>1. w = Store(r, key, NULL, p, p, id)
      BY DEF w
    <3> QED
      BY <1>2, <1>4, <1>5, <1>6, <3>1, StoreLinked
  <2>7. CarriedTo(r, u, key, p, id)
    BY <2>2, <2>3, <2>4, <2>5, <2>6 DEF CarriedTo
  <2> QED
    BY <1>3, <1>5, <2>2, <2>3, <2>7 DEF r, id, u
<1> QED
  BY <1>7, <1>8

LEMMA CarriedLoose ==
    ASSUME NEW r, Loose(r), (r.n + 1) * 4 < r.m * 3,
           NEW key \in Keys, NEW p \in Nat, MayName(r, p), (p + 1) * 4 < r.m * 3,
           NEW id \in Slots(r), r.map[id] = MISS \/ r.map[id] = p,
           NEW u, CarriedTo(r, u, key, p, id)
    PROVE  /\ Loose(u)
           /\ Live(u) = Live(r) \cup {p} /\ u.omap[p] = key
           /\ \A q \in Live(r) : q # p => u.omap[q] = r.omap[q]
           /\ u.idm.last = IF p >= r.idm.last THEN p + 1 ELSE r.idm.last
           /\ \A i \in Slots(r) : u.map[i] = IF i = id THEN p
                                             ELSE IF r.map[i] = p THEN MISS ELSE r.map[i]
<1>1. /\ Typed(r) /\ r.m \in Nat /\ r.m > 1 /\ r.n \in Nat /\ r.idm.last \in Nat
      /\ r.idm.last * 4 < r.m * 3
      /\ \A i \in Slots(r) : r.map[i] \in Nat \cup {MISS}
      /\ \A q \in Live(r) : q \in Nat /\ q \in Slots(r)
  BY LooseFacts DEF Loose
<1>2. /\ Typed(u) /\ u.m = r.m /\ u.kind = r.kind
      /\ u.n = r.n + 1 \/ (u.n = r.n /\ p \in Live(r))
      /\ u.omap = [r.omap EXCEPT ![p] = key]
      /\ u.map = [Unslot(r.map, p) EXCEPT ![id] = p]
      /\ u.idm = UpdateLast(r.idm, p)
      /\ Slots(u) = Slots(r)
  BY DEF CarriedTo, Slots
<1>3. p \in Slots(r) /\ p < r.m
  BY <1>1 DEF Slots
<1>4. /\ u.idm.last = IF p >= r.idm.last THEN p + 1 ELSE r.idm.last
      /\ u.idm.last \in Nat
  BY <1>1, <1>2 DEF UpdateLast
<1>5. \A i \in Slots(r) : u.map[i] = IF i = id THEN p
                                     ELSE IF r.map[i] = p THEN MISS ELSE r.map[i]
  <2>1. /\ Unslot(r.map, p) \in [Slots(r) -> Nat \cup {MISS}]
        /\ \A i \in Slots(r) :
              Unslot(r.map, p)[i] = IF r.map[i] = p THEN MISS ELSE r.map[i]
    BY <1>1, UnslotOnly DEF Loose
  <2> QED
    BY <1>2, <2>1
<1>6. \A q \in Slots(r) : u.omap[q] = IF q = p THEN key ELSE r.omap[q]
  BY <1>1, <1>2, <1>3, Fields
<1>7. key # NULL
  BY Sentinels
<1>8. Live(u) = Live(r) \cup {p}
  <2>1. ASSUME NEW q \in Nat, q # p
        PROVE  q \in Live(u) <=> q \in Live(r)
    <3>1. q < r.m => q \in Slots(r)
      BY <1>1 DEF Slots
    <3>2. q < u.idm.last => q < r.idm.last \/ (p >= r.idm.last /\ q < p)
      BY <1>1, <1>4, <2>1
    <3>3. q < r.idm.last => q < u.idm.last
      BY <1>1, <1>4
    <3>4. p >= r.idm.last => p = r.idm.last
      BY <1>1 DEF MayName
    <3>5. q < u.idm.last <=> q < r.idm.last
      BY <1>1, <1>4, <2>1, <3>2, <3>3, <3>4
    <3> QED
      BY <1>1, <1>2, <1>4, <1>6, <2>1, <3>1, <3>5 DEF Live
  <2>2. p \in Live(u)
    BY <1>2, <1>3, <1>4, <1>1, <1>6, <1>7 DEF Live
  <2>3. Live(u) \subseteq Nat /\ Live(r) \subseteq Nat
    BY DEF Live
  <2> QED
    BY <2>1, <2>2, <2>3
<1>9. u.n >= Cardinality(Live(u))
  <2>1. IsFiniteSet(Live(r)) /\ Cardinality(Live(r)) \in Nat
        /\ r.n >= Cardinality(Live(r))
    BY <1>1, LiveFinite DEF Loose
  <2>2. CASE p \in Live(r)
    <3>1. Live(u) = Live(r)
      BY <1>8, <2>2
    <3> QED
      BY <1>1, <1>2, <2>1, <3>1
  <2>3. CASE p \notin Live(r)
    <3>1. Cardinality(Live(u)) = Cardinality(Live(r)) + 1
      BY <1>8, <2>1, <2>3, FS_AddElement
    <3> QED
      BY <1>1, <1>2, <2>1, <2>3, <3>1
  <2> QED
    BY <2>2, <2>3
<1>10. LoadBounded(u) /\ u.idm.last * 4 < u.m * 3
  BY <1>1, <1>2, <1>4 DEF LoadBounded, Loose
<1>11. \A i \in Slots(u) : u.map[i] # MISS => (u.map[i] + 1) * 4 < u.m * 3
  BY <1>2, <1>5 DEF Loose
<1>12. \A i, j \in Slots(u) : u.map[i] = u.map[j] /\ u.map[i] # MISS => i = j
  BY <1>2, <1>5 DEF Loose
<1>13. NoStrays(u)
  BY <1>2, <1>6, <1>8 DEF NoStrays, Loose
<1>14. Loose(u)
  BY <1>2, <1>9, <1>10, <1>11, <1>12, <1>13 DEF Loose
<1> QED
  BY <1>1, <1>3, <1>4, <1>5, <1>6, <1>8, <1>14

LEMMA CarriedHomely ==
    ASSUME NEW r, Loose(r), Homely(r), (r.n + 1) * 4 < r.m * 3,
           NEW key \in SecKeys, NEW p \in Nat, MayName(r, p), (p + 1) * 4 < r.m * 3,
           NEW id \in Slots(r), r.map[id] = MISS \/ r.map[id] = p,
           id = Lookup(r, key),
           NEW u, CarriedTo(r, u, key, p, id)
    PROVE  Homely(u)
<1>1. /\ Typed(r) /\ key \in Keys /\ SecKeys \subseteq Keys
      /\ \A q \in Live(r) : q # MISS /\ r.omap[q] \in SecKeys
  BY LooseFacts, KeyAtTyped DEF Live, MISS, Homely
<1>2. /\ Loose(u) /\ Live(u) = Live(r) \cup {p} /\ u.omap[p] = key
      /\ \A q \in Live(r) : q # p => u.omap[q] = r.omap[q]
      /\ \A i \in Slots(r) : u.map[i] = IF i = id THEN p
                                        ELSE IF r.map[i] = p THEN MISS ELSE r.map[i]
  BY <1>1, CarriedLoose
<1>3. u.m = r.m /\ u.kind = r.kind /\ Slots(u) = Slots(r)
      /\ \A k : Home(u, k) = Home(r, k)
  BY DEF CarriedTo, Slots, Home, Probe
<1>4. \A k \in Keys : Home(r, k) \in Slots(r)
  BY <1>1, ProbeInSlots DEF Home
<1>5. id = Home(r, key)
  <2> DEFINE q == r.map[Home(r, key)]
  <2>1. CASE q = MISS
    BY <1>1, <2>1, LookupAtHome DEF Stops, Home
  <2>2. CASE q # MISS
    <3>1. q \in Live(r)
      BY <1>1, <1>4, <2>2 DEF Homely, SlotsPoint
    <3>2. r.map[Home(r, r.omap[q])] = q /\ r.omap[q] \in SecKeys
      BY <3>1 DEF Homely, AtHome
    <3>3. Home(r, r.omap[q]) = Home(r, key)
      BY <1>1, <1>4, <2>2, <3>2 DEF Homely, SlotsPoint
    <3>4. r.omap[q] = key
      BY <1>1, <3>2, <3>3, HomeMod DEF Homely, KeysApart
    <3> QED
      BY <1>1, <3>4, LookupAtHome DEF Stops, Home
  <2> QED
    BY <2>1, <2>2
<1>6. AtHome(u)
  <2>1. u.map[Home(u, u.omap[p])] = p
    BY <1>2, <1>3, <1>5
  <2>2. ASSUME NEW q \in Live(r), q # p PROVE u.map[Home(u, u.omap[q])] = q
    <3>1. /\ r.map[Home(r, r.omap[q])] = q /\ Home(r, r.omap[q]) \in Slots(r)
          /\ q # MISS
      BY <1>1, <1>4 DEF Homely, AtHome
    <3>2. Home(r, r.omap[q]) # id
      BY <2>2, <3>1
    <3> QED
      BY <1>2, <1>3, <2>2, <3>1, <3>2
  <2> QED
    BY <1>2, <2>1, <2>2 DEF AtHome
<1>7. SlotsPoint(u)
  BY <1>2, <1>3 DEF Homely, SlotsPoint, Loose
<1>8. \A q \in Live(u) : u.omap[q] \in SecKeys
  BY <1>1, <1>2
<1> QED
  BY <1>3, <1>6, <1>7, <1>8 DEF Homely

(* qmap_put's loop over linked: the entry at p has the key afterwards. *)
LEMMA CarriedSound ==
    ASSUME NEW s, Loose(s), Second(s), ~s.kind.multi,
           NEW key \in Keys, NEW p \in Nat, MayName(s, p),
           \A q \in Live(s) : q # p => s.omap[q] # key
    PROVE  LET u == PutKey(s, key, NULL, p).tab
           IN  /\ Loose(u) /\ u.kind = s.kind
               /\ Live(u) = Live(s) \cup {p} /\ u.omap[p] = key
               /\ \A q \in Live(s) : q # p => u.omap[q] = s.omap[q]
               /\ u.idm.last = IF p >= s.idm.last THEN p + 1 ELSE s.idm.last
               /\ KeyedOnce(s) /\ Homely(s) /\ key \in SecKeys => Homely(u)
<1> DEFINE r == MakeRoom(s)
           id == Lookup(r, key)
           u == PutKey(s, key, NULL, p).tab
<1>1. /\ CarriedTo(r, u, key, p, id) /\ id # MISS /\ id \in Slots(r)
      /\ r.map[id] = MISS \/ (r.map[id] = p /\ p \in Live(r))
      /\ (p + 1) * 4 < r.m * 3
  BY PutLinked
<1>2. /\ Loose(r) /\ SameEntries(s, r) /\ r.n = s.n /\ r.idm = s.idm
      /\ r.kind = s.kind /\ (r.n + 1) * 4 < r.m * 3
      /\ KeyedOnce(s) /\ Homely(s) => Homely(r)
  BY LooseRoom
<1>3. MayName(r, p) /\ id = Lookup(r, key)
  BY <1>2 DEF MayName
<1> HIDE DEF r, u, id
<1>4. /\ Loose(u) /\ Live(u) = Live(r) \cup {p} /\ u.omap[p] = key
      /\ \A q \in Live(r) : q # p => u.omap[q] = r.omap[q]
      /\ u.idm.last = IF p >= r.idm.last THEN p + 1 ELSE r.idm.last
  BY <1>1, <1>2, <1>3, CarriedLoose
<1>5. KeyedOnce(s) /\ Homely(s) /\ key \in SecKeys => Homely(u)
  BY <1>1, <1>2, <1>3, CarriedHomely
<1>6. u.kind = s.kind
  BY <1>1, <1>2 DEF CarriedTo
<1>7. /\ Live(u) = Live(s) \cup {p}
      /\ \A q \in Live(s) : q # p => u.omap[q] = s.omap[q]
      /\ u.idm.last = IF p >= s.idm.last THEN p + 1 ELSE s.idm.last
  BY <1>2, <1>4 DEF SameEntries
<1> QED
  BY <1>4, <1>5, <1>6, <1>7 DEF u

(* qmap_ndel_topdown: the slot that is emptied may be another one's, or be *)
(* empty already.                                                          *)
LEMMA LooseDelete ==
    ASSUME NEW s, Loose(s), NEW p \in Live(s)
    PROVE  LET u == DeleteAt(s, p)
           IN  Loose(u) /\ Without(s, u, p) /\ (Homely(s) => Homely(u))
<1> DEFINE key == s.omap[p]
           id == Lookup(s, key)
           A == [s.map EXCEPT ![id] = MISS]
           B == [s.omap EXCEPT ![p] = NULL]
           C == [s.vals EXCEPT ![p] = NULL]
           i == IdmDel(s.idm, p)
           u == DeleteAt(s, p)
<1>1. /\ Typed(s) /\ s.m \in Nat /\ s.m > 1 /\ s.n \in Nat
      /\ s.idm.last \in Nat /\ s.idm.last < s.m /\ s.n * 4 < s.m * 3
      /\ p \in Nat /\ p < s.idm.last /\ p \in Slots(s) /\ key \in Keys
      /\ s.idm \in Manager
  BY LooseFacts, Fields
<1>2. id # MISS /\ id \in Slots(s)
  <2>1. PICK e \in Slots(s) : s.map[e] = MISS
    BY LooseSlot
  <2>2. id # MISS
    BY <1>1, <2>1, LookupStopsAt
  <2> QED
    BY <1>1, <2>2, LookupStops
<1>3. /\ A \in [Slots(s) -> Nat \cup {MISS}]
      /\ B \in [Slots(s) -> Keys \cup {NULL}]
      /\ C \in [Slots(s) -> Vals \cup {NULL}]
  BY <1>1, Fields
<1>4. /\ i \in Manager /\ i.last \in Nat
      /\ i.last = IF p + 1 = s.idm.last THEN s.idm.last - 1 ELSE s.idm.last
  <2>1. CASE p + 1 = s.idm.last
    <3>1. s.idm = [free |-> s.idm.free, last |-> s.idm.last]
      BY <1>1 DEF Manager
    <3>2. i = [s.idm EXCEPT !.last = s.idm.last - 1]
      BY <1>1, <2>1 DEF IdmDel
    <3>3. i = [free |-> s.idm.free, last |-> s.idm.last - 1]
      BY <3>1, <3>2
    <3> QED
      BY <1>1, <2>1, <3>3 DEF Manager
  <2>2. CASE p + 1 # s.idm.last
    <3>1. i = [s.idm EXCEPT !.free = <<p>> \o s.idm.free]
      BY <1>1, <2>2 DEF IdmDel, Manager
    <3>2. <<p>> \o s.idm.free \in Seq(Nat)
      BY <1>1 DEF Manager
    <3> QED
      BY <1>1, <2>2, <3>1, <3>2 DEF Manager
  <2> QED
    BY <2>1, <2>2
<1>5. IsFiniteSet(Live(s)) /\ Cardinality(Live(s)) \in Nat /\ s.n >= Cardinality(Live(s))
  BY <1>1, LiveFinite DEF Loose
<1>6. /\ Cardinality(Live(s) \ {p}) = Cardinality(Live(s)) - 1
      /\ Cardinality(Live(s) \ {p}) \in Nat
  <2>1. /\ IsFiniteSet(Live(s) \ {p})
        /\ Cardinality(Live(s) \ {p}) = Cardinality(Live(s)) - 1
    BY <1>5, FS_RemoveElement
  <2> QED
    BY <2>1, FS_CardinalityType
<1>7. s.n - 1 \in Nat /\ s.n - 1 >= Cardinality(Live(s) \ {p})
  BY <1>1, <1>5, <1>6
<1>8. u = [s EXCEPT !.map = A, !.omap = B, !.vals = C, !.idm = i,
                    !.n = s.n - 1, !.dirty = TRUE]
  BY <1>1, <1>2 DEF DeleteAt, Typed
<1> HIDE DEF A, B, C, i, u, id, key
<1>9. s = [m |-> s.m, n |-> s.n, map |-> s.map, omap |-> s.omap,
           vals |-> s.vals, idm |-> s.idm, dirty |-> s.dirty, kind |-> s.kind]
  BY <1>1, Eta, Zenon
<1>10. /\ u = [m |-> s.m, n |-> s.n - 1, map |-> A, omap |-> B, vals |-> C,
               idm |-> i, dirty |-> TRUE, kind |-> s.kind]
       /\ u.m = s.m /\ u.n = s.n - 1 /\ u.map = A /\ u.omap = B
       /\ u.idm = i /\ u.kind = s.kind
  BY <1>8, <1>9
<1>11. Slots(u) = Slots(s) /\ \A k : Home(u, k) = Home(s, k)
  BY <1>10 DEF Slots, Home, Probe
<1>12. Typed(u)
  BY <1>1, <1>3, <1>4, <1>7, <1>10, <1>11, Fields DEF Typed, Manager
<1>13. /\ \A q \in Slots(s) : u.omap[q] = IF q = p THEN NULL ELSE s.omap[q]
       /\ \A j \in Slots(s) : u.map[j] = IF j = id THEN MISS ELSE s.map[j]
  BY <1>1, <1>2, <1>10, Fields DEF A, B
<1>14. Live(u) = Live(s) \ {p}
  <2>1. ASSUME NEW q \in Nat PROVE q \in Live(u) <=> q \in Live(s) /\ q # p
    <3>1. q < s.m => q \in Slots(s)
      BY <1>1 DEF Slots
    <3>2. q # p /\ q < s.idm.last => q < i.last
      BY <1>1, <1>4
    <3>3. q < i.last => q < s.idm.last
      BY <1>1, <1>4
    <3> QED
      BY <1>1, <1>4, <1>10, <1>13, <3>1, <3>2, <3>3 DEF Live
  <2>2. Live(u) \subseteq Nat /\ Live(s) \subseteq Nat
    BY DEF Live
  <2> QED
    BY <2>1, <2>2
<1>15. \A q \in Live(u) : u.omap[q] = s.omap[q]
  BY <1>1, <1>13, <1>14, LooseFacts
<1>16. Without(s, u, p)
  BY <1>10, <1>14, <1>15 DEF Without, i
<1>17. LoadBounded(u) /\ u.idm.last * 4 < u.m * 3
  BY <1>1, <1>4, <1>10 DEF LoadBounded, Loose
<1>18. /\ \A j \in Slots(u) : u.map[j] # MISS => (u.map[j] + 1) * 4 < u.m * 3
       /\ \A j, k \in Slots(u) : u.map[j] = u.map[k] /\ u.map[j] # MISS => j = k
  <2>1. \A j \in Slots(u) : u.map[j] # MISS => u.map[j] = s.map[j]
    BY <1>11, <1>13
  <2>2. /\ \A j \in Slots(s) : s.map[j] # MISS => (s.map[j] + 1) * 4 < s.m * 3
        /\ \A j, k \in Slots(s) : s.map[j] = s.map[k] /\ s.map[j] # MISS => j = k
    BY DEF Loose
  <2>3. ASSUME NEW j \in Slots(u), u.map[j] # MISS
        PROVE  (u.map[j] + 1) * 4 < u.m * 3
    BY <1>10, <1>11, <2>1, <2>2, <2>3
  <2>4. ASSUME NEW j \in Slots(u), NEW k \in Slots(u), u.map[j] = u.map[k],
               u.map[j] # MISS
        PROVE  j = k
    BY <1>11, <2>1, <2>2, <2>4
  <2> QED
    BY <2>3, <2>4
<1>19. NoStrays(u)
  BY <1>11, <1>13, <1>14 DEF NoStrays, Loose
<1>20. Loose(u)
  BY <1>7, <1>10, <1>12, <1>14, <1>17, <1>18, <1>19 DEF Loose
<1>21. ASSUME Homely(s) PROVE Homely(u)
  <2>1. s.map[Home(s, key)] = p /\ p # MISS /\ Home(s, key) \in Slots(s)
    BY <1>1, <1>21, ProbeInSlots DEF Homely, AtHome, key, MISS, Home
  <2>2. id = Home(s, key)
    BY <1>1, <2>1, LookupAtHome DEF Stops, Home, id, key
  <2>3. SlotsPoint(u)
    BY <1>11, <1>13, <1>14, <1>21, <2>1, <2>2 DEF Homely, SlotsPoint
  <2>4. AtHome(u)
    <3> SUFFICES ASSUME NEW q \in Live(u) PROVE u.map[Home(u, u.omap[q])] = q
      BY DEF AtHome
    <3>1. q \in Live(s) /\ q # p /\ u.omap[q] = s.omap[q]
      BY <1>14, <1>15
    <3>2. s.map[Home(s, s.omap[q])] = q /\ Home(s, s.omap[q]) \in Slots(s)
      BY <1>1, <1>21, <3>1, LooseFacts, ProbeInSlots DEF Homely, AtHome, Home
    <3> QED
      BY <1>11, <1>13, <2>1, <2>2, <3>1, <3>2
  <2>5. \A q \in Live(u) : u.omap[q] \in SecKeys
    BY <1>14, <1>15, <1>21 DEF Homely
  <2> QED
    BY <1>10, <1>21, <2>3, <2>4, <2>5 DEF Homely
<1> QED
  BY <1>16, <1>20, <1>21 DEF u

-----------------------------------------------------------------------------
(* A put for which the secondary issues the position itself: while it is   *)
(* filled by qmap_assoc, and always when it is QM_MULTIVALUE.              *)

Emptied(s) == \E i \in Slots(s) : s.map[i] = MISS

LEMMA CountedRoom ==
    ASSUME NEW s, Counted(s), LoadBounded(s), Second(s), Emptied(s)
    PROVE  LET r == MakeRoom(s)
           IN  /\ Counted(r) /\ SameEntries(s, r) /\ Emptied(r)
               /\ r.n = s.n /\ r.idm = s.idm /\ r.kind = s.kind
               /\ (r.n + 1) * 4 < r.m * 3
               /\ SlotsPoint(s) => SlotsPoint(r)
               /\ NoStrays(s) => NoStrays(r)
               /\ KeyedOnce(s) /\ Homely(s) => Homely(r)
<1> DEFINE r == MakeRoom(s)
<1>1. /\ Typed(s) /\ s.m \in Nat /\ s.m > 1 /\ s.n \in Nat /\ s.n * 4 < s.m * 3
      /\ WithinCapacity(s) /\ ~s.kind.nogrow
  BY Fields DEF Counted, LoadBounded, Second
<1>2. CASE (s.n + 1) * 4 >= s.m * 3
  <2> DEFINE g == Grow(s)
  <2>1. r = g
    BY <1>1, <1>2 DEF MakeRoom
  <2>2. /\ Sound(g) /\ g.m = 2 * s.m /\ g.n = s.n /\ g.idm = s.idm
        /\ g.kind = s.kind /\ SameEntries(s, g)
    BY GrowSound
  <2>3. NoStrays(s) => NoStrays(g)
    BY <1>1, GrowTyped
  <2>4. KeyedOnce(s) /\ Homely(s) => Homely(g)
    BY <1>1, GrowHomely
  <2> HIDE DEF g
  <2>5. (g.n + 1) * 4 < g.m * 3 /\ g.n < g.m
    BY <1>1, <2>2
  <2>6. Counted(g) /\ SlotsPoint(g) /\ Emptied(g)
    BY <2>2, <2>5, EmptySlotExists DEF Sound, Counted, Emptied
  <2> QED
    BY <2>1, <2>2, <2>3, <2>4, <2>5, <2>6 DEF g
<1>3. CASE ~((s.n + 1) * 4 >= s.m * 3)
  <2>1. r = s
    BY <1>1, <1>3 DEF MakeRoom
  <2>2. SameEntries(s, s) /\ (s.n + 1) * 4 < s.m * 3
    BY <1>1, <1>3 DEF SameEntries
  <2> QED
    BY <2>1, <2>2
<1> QED
  BY <1>2, <1>3

(* u is r with a new entry at the position that r issues next. *)
Issued(r, u, key, p) ==
    /\ p = IdmNewId(r.idm) /\ p \notin Live(r) /\ u.idm = IdmNew(r.idm)
    /\ u.kind = r.kind
    /\ Live(u) = Live(r) \cup {p}
    /\ u.omap[p] = key
    /\ \A q \in Live(r) : u.omap[q] = r.omap[q]

LEMMA AddedSlots ==
    ASSUME NEW r, Counted(r), NEW u, NEW key \in Keys, NEW val, NEW p,
           Added(r, u, key, val, p), NEW id \in Slots(r), Placed(r, u, p, id)
    PROVE  /\ \A q \in Slots(r) : u.omap[q] = IF q = p THEN key ELSE r.omap[q]
           /\ SlotsPoint(r) => SlotsPoint(u)
           /\ NoStrays(r) => NoStrays(u)
<1>1. /\ Typed(r) /\ p \in Slots(r) /\ p \notin Live(r) /\ u.m = r.m
      /\ Live(u) = Live(r) \cup {p}
      /\ u.omap = [r.omap EXCEPT ![p] = key]
      /\ Slots(u) = Slots(r)
  BY DEF Added, Counted, Slots
<1>2. \A q \in Slots(r) : u.omap[q] = IF q = p THEN key ELSE r.omap[q]
  BY <1>1, Fields
<1>3. \A i \in Slots(r) : u.map[i] = r.map[i] \/ (i = id /\ u.map[i] = p)
  BY <1>1, Fields DEF Placed
<1>4. SlotsPoint(r) => SlotsPoint(u)
  BY <1>1, <1>3 DEF SlotsPoint
<1>5. NoStrays(r) => NoStrays(u)
  BY <1>1, <1>2 DEF NoStrays
<1> QED
  BY <1>2, <1>4, <1>5

EnteredNext(t, u, key, id) ==
    LET p == IdmNewId(t.idm)
    IN  /\ Counted(u) /\ u.idm = IdmNew(t.idm)
        /\ Added(t, u, key, Stored(t, NULL, p), p)
        /\ Placed(t, u, p, id)

LEMMA EnterNext ==
    ASSUME NEW t, Counted(t), t.n < t.m, t.kind.shared,
           NEW key \in Keys, NEW id \in Slots(t)
    PROVE  EnteredNext(t, Enter([t EXCEPT !.idm = IdmNew(t.idm), !.n = @ + 1],
                                key, NULL, IdmNewId(t.idm), MISS, id).tab, key, id)
<1> DEFINE p == IdmNewId(t.idm)
           e == Enter([t EXCEPT !.idm = IdmNew(t.idm), !.n = @ + 1],
                      key, NULL, p, MISS, id)
           u == e.tab
<1>1. /\ e.id = id /\ u.idm = IdmNew(t.idm)
      /\ Counted(u) /\ Added(t, u, key, Stored(t, NULL, p), p)
      /\ Placed(t, u, p, id)
  BY EnterAny
<1> HIDE DEF e
<1>2. EnteredNext(t, e.tab, key, id)
  BY <1>1 DEF EnteredNext
<1> QED
  BY <1>2 DEF e

LEMMA FreshPut ==
    ASSUME NEW s, Counted(s), LoadBounded(s), Second(s), Emptied(s),
           NEW key \in Keys,
           s.kind.multi \/ (SlotsPoint(s) /\ \A q \in Live(s) : s.omap[q] # key)
    PROVE  LET u == PutKey(s, key, NULL, MISS).tab
           IN  /\ Counted(u) /\ LoadBounded(u)
               /\ Issued(s, u, key, IdmNewId(s.idm))
               /\ SlotsPoint(s) => SlotsPoint(u)
               /\ NoStrays(s) => NoStrays(u)
               /\ ~s.kind.multi /\ KeyedOnce(s) /\ Homely(s) /\ key \in SecKeys =>
                      Homely(u)
<1> DEFINE r == MakeRoom(s)
           id == Lookup(r, key)
           p == IdmNewId(r.idm)
           e == Enter([r EXCEPT !.idm = IdmNew(r.idm), !.n = @ + 1],
                      key, NULL, p, MISS, id)
           val == Stored(r, NULL, p)
           u == PutKey(s, key, NULL, MISS).tab
<1>1. /\ Counted(r) /\ SameEntries(s, r) /\ Emptied(r)
      /\ r.n = s.n /\ r.idm = s.idm /\ r.kind = s.kind
      /\ (r.n + 1) * 4 < r.m * 3
      /\ SlotsPoint(s) => SlotsPoint(r)
      /\ NoStrays(s) => NoStrays(r)
      /\ KeyedOnce(s) /\ Homely(s) => Homely(r)
  BY CountedRoom
<1>a. r = MakeRoom(s) /\ id = Lookup(r, key)
  OBVIOUS
<1> HIDE DEF r, id
<1>2. Typed(r) /\ r.m \in Nat /\ r.n \in Nat /\ r.n < r.m /\ r.kind.shared
  BY <1>1, Fields DEF Counted, Second
<1>3. id # MISS /\ id \in Slots(r) /\ (r.map[id] = MISS \/ r.omap[r.map[id]] = key)
  <2>1. PICK i \in Slots(r) : r.map[i] = MISS
    BY <1>1 DEF Emptied
  <2>2. id # MISS
    BY <1>2, <1>a, <2>1, LookupStopsAt
  <2> QED
    BY <1>2, <1>a, <2>2, LookupStops
<1>4. r.map[id] = MISS \/ r.kind.multi
  BY <1>1, <1>3 DEF SlotsPoint, SameEntries
<1>5. u = e.tab
  BY <1>3, <1>4, <1>a DEF PutKey
<1>6. EnteredNext(r, e.tab, key, id)
  BY <1>1, <1>2, <1>3, EnterNext
<1>b. p = IdmNewId(r.idm)
  OBVIOUS
<1> HIDE DEF e, u, p, val
<1>7. /\ Counted(u) /\ Typed(u) /\ Added(r, u, key, val, p) /\ Placed(r, u, p, id)
      /\ u.idm = IdmNew(r.idm)
  BY <1>5, <1>6 DEF EnteredNext, Counted, p, val
<1>8. /\ p \in Slots(r) /\ p \notin Live(r) /\ u.m = r.m /\ u.n = r.n + 1
      /\ u.kind = r.kind /\ Live(u) = Live(r) \cup {p}
      /\ u.omap = [r.omap EXCEPT ![p] = key]
      /\ u.vals = [r.vals EXCEPT ![p] = val]
  BY <1>7 DEF Added
<1>9. /\ \A q \in Slots(r) : u.omap[q] = IF q = p THEN key ELSE r.omap[q]
      /\ SlotsPoint(r) => SlotsPoint(u)
      /\ NoStrays(r) => NoStrays(u)
  BY <1>1, <1>3, <1>7, AddedSlots
<1>10. Issued(s, u, key, IdmNewId(s.idm))
  <2>1. \A q \in Live(r) : q \in Slots(r)
    BY <1>2, LiveFinite
  <2> QED
    BY <1>1, <1>7, <1>8, <1>9, <1>b, <2>1 DEF Issued, SameEntries
<1>11. LoadBounded(u)
  BY <1>1, <1>2, <1>8 DEF LoadBounded
<1>12. ASSUME ~s.kind.multi, KeyedOnce(s), Homely(s), key \in SecKeys
       PROVE  Homely(u)
  <2>1. Homely(r) /\ Sound(r) /\ AtHome(r) /\ ~r.kind.multi
        /\ KeysApart(r.kind.hash, SecKeys, r.m) /\ SecKeys \subseteq Keys
    BY <1>1, <1>12, KeyAtTyped DEF Homely, Sound, Counted
  <2>2. ASSUME NEW q \in Live(r) PROVE Home(r, r.omap[q]) # Home(r, key)
    <3>1. r.omap[q] \in SecKeys /\ r.omap[q] # key
      BY <1>1, <1>12, <2>1 DEF Homely, SameEntries
    <3> QED
      BY <1>2, <1>12, <2>1, <3>1, HomeMod DEF KeysApart
  <2>3. id = Home(r, key) /\ r.map[Home(r, key)] = MISS
    BY <1>3, <1>a, <2>1, <2>2, LookupHomes
  <2>4. Entered(r, u, key, val, p, id)
    BY <1>3, <1>7, <1>8, <2>1 DEF Entered, Placed
  <2>5. AtHome(u)
    BY <2>1, <2>3, <2>4, EnteredAtHome
  <2>6. \A q \in Live(u) : u.omap[q] \in SecKeys
    <3>1. \A q \in Live(r) : q \in Slots(r)
      BY <1>2, LiveFinite
    <3> QED
      BY <1>8, <1>9, <1>12, <2>1, <3>1 DEF Homely
  <2> QED
    BY <1>8, <1>9, <2>1, <2>5, <2>6 DEF Homely
<1> QED
  BY <1>1, <1>7, <1>9, <1>10, <1>11, <1>12 DEF u

(* qmap_ndel_topdown on a QM_MULTIVALUE secondary *)
LEMMA ListedDelete ==
    ASSUME NEW s, Counted(s), LoadBounded(s), NEW read, Lists(s, read), NEW p \in Live(s)
    PROVE  LET u == DeleteListed(s, read, p)
           IN  Counted(u) /\ LoadBounded(u) /\ Without(s, u, p)
<1> DEFINE u == DeleteListed(s, read, p)
<1>1. Counted(u) /\ Removed(s, u, p)
  BY DeleteListedCounted
<1> HIDE DEF u
<1>2. s.n \in Nat /\ s.m \in Nat /\ s.n * 4 < s.m * 3
  BY Fields DEF Counted, LoadBounded
<1>3. LoadBounded(u) /\ Without(s, u, p)
  BY <1>1, <1>2 DEF Removed, Without, LoadBounded
<1> QED
  BY <1>1, <1>3 DEF u

-----------------------------------------------------------------------------
(* qmap_assoc: the loop over the entries of a primary without gaps.        *)

(* The secondary when the entries below n have been put. *)
Joining(t, n, s) ==
    /\ Counted(s) /\ LoadBounded(s) /\ SlotsPoint(s) /\ NoStrays(s)
    /\ s.kind = [use.sec EXCEPT !.shared = TRUE]
    /\ s.idm = [free |-> <<>>, last |-> n]
    /\ Live(s) = 0 .. n - 1
    /\ \A q \in 0 .. n - 1 : s.omap[q] = KeyAt(t, q)
    /\ use.apart /\ ~use.sec.multi => Homely(s)

LEMMA UseFacts ==
    ASSUME use \in Uses
    PROVE  LET kind == [use.sec EXCEPT !.shared = TRUE]
           IN  /\ use.prim \in Kind /\ ~use.prim.multi /\ ~use.prim.shared
               /\ use.sec \in Kind /\ use.sec.multi \in BOOLEAN
               /\ kind \in Kind /\ kind.shared /\ ~kind.nogrow
               /\ kind.multi = use.sec.multi /\ kind.hash = use.sec.hash
               /\ use.primM \in Nat /\ use.primM > 1
               /\ use.secM \in Nat /\ use.secM > 1
               /\ use.apart => KeysApart(kind.hash, SecKeys, use.secM)
<1> DEFINE kind == [use.sec EXCEPT !.shared = TRUE]
<1>1. /\ use.prim \in Kind /\ ~use.prim.multi /\ ~use.prim.shared
      /\ use.sec \in Kind /\ ~use.sec.nogrow
      /\ use.primM \in Nat \ {0, 1} /\ use.secM \in Nat \ {0, 1}
      /\ use.apart => KeysApart(use.sec.hash, SecKeys, use.secM)
  BY AssocAssumption
<1>2. /\ kind \in Kind /\ kind.shared /\ kind.nogrow = use.sec.nogrow
      /\ kind.multi = use.sec.multi /\ kind.hash = use.sec.hash
      /\ use.sec.multi \in BOOLEAN
  BY <1>1 DEF Kind
<1> HIDE DEF kind
<1>3. use.primM \in Nat /\ use.primM > 1 /\ use.secM \in Nat /\ use.secM > 1
  BY <1>1
<1> QED
  BY <1>1, <1>2, <1>3 DEF kind

LEMMA JoiningStart ==
    ASSUME use \in Uses, sec = EmptyTable(use.secM, use.sec), NEW t
    PROVE  Joining(t, 0, [sec EXCEPT !.kind.shared = TRUE])
<1> DEFINE kind == [use.sec EXCEPT !.shared = TRUE]
           m == use.secM
           s == EmptyTable(m, kind)
<1>1. /\ kind \in Kind /\ m \in Nat /\ m > 1
      /\ use.apart => KeysApart(kind.hash, SecKeys, m)
  BY UseFacts
<1>2. [sec EXCEPT !.kind.shared = TRUE] = s
  <2>1. sec.kind = use.sec
    BY DEF EmptyTable
  <2>2. [sec EXCEPT !.kind.shared = TRUE] = [sec EXCEPT !.kind = kind]
    BY <2>1
  <2> HIDE DEF kind
  <2>3. [EmptyTable(m, use.sec) EXCEPT !.kind = kind] = EmptyTable(m, kind)
    <3> DEFINE A == [i \in 0 .. m - 1 |-> MISS]
               B == [i \in 0 .. m - 1 |-> NULL]
               E(k) == [m |-> m, n |-> 0, map |-> A, omap |-> B, vals |-> B,
                        idm |-> IdmInit, dirty |-> TRUE, kind |-> k]
    <3>1. \A k : EmptyTable(m, k) = E(k)
      BY DEF EmptyTable
    <3> HIDE DEF A, B
    <3>2. ASSUME NEW e, e = E(use.sec), NEW x, x = [e EXCEPT !.kind = kind]
          PROVE  x = E(kind)
      <4>1. x = [m |-> m, n |-> 0, map |-> A, omap |-> B, vals |-> B,
                 idm |-> IdmInit, dirty |-> TRUE, kind |-> kind]
        BY <3>2
      <4> QED
        BY <4>1
    <3> HIDE DEF E
    <3> QED
      BY <3>1, <3>2
  <2> QED
    BY <2>2, <2>3
<1> HIDE DEF kind, m
<1>3. Sound(s) /\ s.n = 0 /\ s.m = m /\ s.kind = kind
  BY <1>1, EmptySound
<1>4. /\ s.idm = [free |-> <<>>, last |-> 0]
      /\ \A p \in Slots(s) : s.omap[p] = NULL
  BY <1>3 DEF EmptyTable, IdmInit, Slots
<1> HIDE DEF s
<1>5. Live(s) = {} /\ 0 .. 0 - 1 = {}
  BY <1>4 DEF Live
<1>6. NoStrays(s) /\ LoadBounded(s) /\ Counted(s) /\ SlotsPoint(s)
  BY <1>1, <1>3, <1>4 DEF NoStrays, LoadBounded, Sound, Counted
<1>7. use.apart => Homely(s)
  BY <1>1, <1>3, <1>5, <1>6 DEF Homely, AtHome
<1> QED
  BY <1>2, <1>3, <1>4, <1>5, <1>6, <1>7 DEF Joining, kind

(* no two entries have the same secondary key *)
UniqueSec(t) == \A p, q \in Live(t) : KeyAt(t, p) = KeyAt(t, q) => p = q

LEMMA JoiningNext ==
    ASSUME use \in Uses, NEW t, PrimOK(t), NEW last \in Nat, Live(t) = 0 .. last - 1,
           ~use.sec.multi => UniqueSec(t),
           NEW n \in 1 .. last, NEW s, Joining(t, n - 1, s)
    PROVE  Joining(t, n, PutKey(s, KeyAt(t, n - 1), NULL, MISS).tab)
<1> DEFINE key == KeyAt(t, n - 1)
           u == PutKey(s, key, NULL, MISS).tab
<1>1. /\ Counted(s) /\ LoadBounded(s) /\ SlotsPoint(s) /\ NoStrays(s)
      /\ s.kind = [use.sec EXCEPT !.shared = TRUE]
      /\ s.idm = [free |-> <<>>, last |-> n - 1]
      /\ Live(s) = 0 .. n - 2
      /\ \A q \in 0 .. n - 2 : s.omap[q] = KeyAt(t, q)
      /\ use.apart /\ ~use.sec.multi => Homely(s)
  <2>1. (n - 1) - 1 = n - 2
    OBVIOUS
  <2> QED
    BY <2>1 DEF Joining
<1>2. Second(s) /\ s.kind.multi = use.sec.multi
  BY <1>1, UseFacts DEF Second
<1>3. n - 1 \in Live(t) /\ key \in SecKeys /\ key \in Keys
      /\ \A q \in Live(s) : q \in Live(t) /\ q # n - 1
  BY <1>1, PrimFacts, KeyAtTyped
<1> HIDE DEF key
<1>4. Emptied(s)
  <2>1. Sound(s) /\ s.n < s.m
    BY <1>1, Fields DEF Sound, Counted, LoadBounded
  <2> QED
    BY <2>1, EmptySlotExists DEF Emptied
<1>5. s.kind.multi \/ (SlotsPoint(s) /\ \A q \in Live(s) : s.omap[q] # key)
  BY <1>1, <1>2, <1>3 DEF UniqueSec, key
<1>6. /\ Counted(u) /\ LoadBounded(u)
      /\ Issued(s, u, key, IdmNewId(s.idm))
      /\ SlotsPoint(u) /\ NoStrays(u)
      /\ ~s.kind.multi /\ KeyedOnce(s) /\ Homely(s) /\ key \in SecKeys => Homely(u)
  BY <1>1, <1>2, <1>3, <1>4, <1>5, FreshPut
<1> HIDE DEF u
<1>7. IdmNewId(s.idm) = n - 1 /\ IdmNew(s.idm) = [free |-> <<>>, last |-> n]
  BY <1>1 DEF IdmNewId, IdmNew
<1>8. /\ u.idm = [free |-> <<>>, last |-> n] /\ u.kind = s.kind
      /\ Live(u) = (0 .. n - 2) \cup {n - 1} /\ u.omap[n - 1] = key
      /\ \A q \in 0 .. n - 2 : u.omap[q] = s.omap[q]
  BY <1>1, <1>6, <1>7 DEF Issued
<1>9. 0 .. n - 1 = (0 .. n - 2) \cup {n - 1}
  OBVIOUS
<1>10. ~use.sec.multi => KeyedOnce(s)
  BY <1>1, <1>3 DEF KeyedOnce, UniqueSec
<1>11. use.apart /\ ~use.sec.multi => Homely(u)
  BY <1>1, <1>2, <1>3, <1>6, <1>10
<1>12. \A q \in 0 .. n - 1 : u.omap[q] = KeyAt(t, q)
  BY <1>1, <1>8, <1>9 DEF key
<1>13. Joining(t, n, u)
  BY <1>1, <1>6, <1>8, <1>9, <1>11, <1>12 DEF Joining
<1> QED
  BY <1>13 DEF u, key

(* all the tables there are *)
Tables == UNION {[m : {k}, n : Nat,
                  map  : [0 .. k - 1 -> Nat \cup {MISS}],
                  omap : [0 .. k - 1 -> Keys \cup {NULL}],
                  vals : [0 .. k - 1 -> Vals \cup {NULL}],
                  idm : Manager, dirty : BOOLEAN, kind : Kind] : k \in Nat}

LEMMA TypedTables ==
    ASSUME NEW t, Typed(t)
    PROVE  t \in Tables
<1> DEFINE B(k) == [0 .. k - 1 -> Nat \cup {MISS}]
           C(k) == [0 .. k - 1 -> Keys \cup {NULL}]
           D(k) == [0 .. k - 1 -> Vals \cup {NULL}]
           S(k) == [m : {k}, n : Nat, map : B(k), omap : C(k), vals : D(k),
                    idm : Manager, dirty : BOOLEAN, kind : Kind]
<1>1. /\ t.m \in Nat /\ t.n \in Nat /\ t.map \in B(t.m) /\ t.omap \in C(t.m)
      /\ t.vals \in D(t.m) /\ t.idm \in Manager /\ t.dirty \in BOOLEAN
      /\ t.kind \in Kind
  BY Fields DEF Slots
<1>2. t = [m |-> t.m, n |-> t.n, map |-> t.map, omap |-> t.omap,
           vals |-> t.vals, idm |-> t.idm, dirty |-> t.dirty, kind |-> t.kind]
  BY Eta, Zenon
<1> HIDE DEF B, C, D
<1>3. t \in S(t.m)
  BY <1>1, <1>2
<1>4. Tables = UNION {S(k) : k \in Nat}
  BY DEF Tables, B, C, D
<1> HIDE DEF S
<1> QED
  BY <1>1, <1>3, <1>4

LEMMA JoinedSound ==
    ASSUME use \in Uses, sec = EmptyTable(use.secM, use.sec), PrimOK(prim),
           Live(prim) = 0 .. prim.idm.last - 1, ~use.sec.multi => UniqueSec(prim)
    PROVE  Joining(prim, prim.idm.last, Joined)
<1> DEFINE N == prim.idm.last
           first == [sec EXCEPT !.kind.shared = TRUE]
           put(s, n) == PutKey(s, KeyAt(prim, n - 1), NULL, MISS).tab
           step == [n \in 1 .. N |-> [s \in Tables |->
                       IF put(s, n) \in Tables THEN put(s, n) ELSE s]]
           Rule(f) == [n \in 0 .. N |-> IF n = 0 THEN first ELSE put(f[n - 1], n)]
           made == CHOOSE f : f = Rule(f)
<1>1. Joined = made[N]
  BY DEF Joined
<1>2. N \in Nat
  BY PrimFacts
<1>3. step \in Steps(N, Tables)
  BY DEF Steps
<1>4. Joining(prim, 0, first)
  BY JoiningStart
<1>5. \A n, s : Joining(prim, n, s) => s \in Tables
  BY TypedTables DEF Joining, Counted
<1>6. ASSUME NEW n \in 1 .. N, NEW s, Joining(prim, n - 1, s)
      PROVE  Joining(prim, n, put(s, n))
  BY <1>2, <1>6, JoiningNext
<1> HIDE DEF step, N, Rule, first, put
<1>7. first \in Tables
  BY <1>4, <1>5
<1>8. PICK g \in [0 .. N -> Tables] :
          g[0] = first /\ \A n \in 1 .. N : g[n] = step[n][g[n - 1]]
  BY <1>2, <1>3, <1>7, Recursion DEF Iterations
<1> DEFINE T == {n \in 0 .. N : Joining(prim, n, g[n])}
<1>9. ASSUME NEW n \in 1 .. N, n - 1 \in T
      PROVE  Joining(prim, n, put(g[n - 1], n)) /\ g[n] = put(g[n - 1], n)
  <2>1. Joining(prim, n, put(g[n - 1], n))
    BY <1>6, <1>9
  <2>2. put(g[n - 1], n) \in Tables /\ g[n - 1] \in Tables
    BY <1>2, <1>5, <1>8, <2>1
  <2> QED
    BY <1>8, <2>1, <2>2 DEF step
<1>10. \A n \in 0 .. N : n \in T
  <2>1. 0 \in T
    BY <1>2, <1>4, <1>8
  <2>2. ASSUME NEW n \in 1 .. N, n - 1 \in T PROVE n \in T
    BY <1>9, <2>2
  <2> HIDE DEF T
  <2> QED
    BY <1>2, <2>1, <2>2, Induction
<1>11. \A n \in 1 .. N : g[n] = put(g[n - 1], n)
  <2>1. \A n \in 1 .. N : n - 1 \in 0 .. N
    BY <1>2
  <2> QED
    BY <1>9, <1>10, <2>1
<1>12. g = Rule(g)
  <2> DEFINE h == [n \in 0 .. N |-> IF n = 0 THEN first ELSE put(g[n - 1], n)]
  <2>1. \A n \in 0 .. N : g[n] = h[n]
    BY <1>2, <1>8, <1>11
  <2>2. g = h
    BY <1>8, <2>1
  <2> QED
    BY <2>2 DEF Rule
<1>13. made = Rule(made)
  BY <1>12
<1> HIDE DEF made
<1> DEFINE U == {n \in 0 .. N : made[n] = g[n]}
<1>14. \A n \in 0 .. N : n \in U
  <2>0. \A n \in 0 .. N : made[n] = IF n = 0 THEN first ELSE put(made[n - 1], n)
    BY <1>13 DEF Rule
  <2>1. 0 \in U
    BY <1>2, <1>8, <2>0
  <2>2. ASSUME NEW n \in 1 .. N, n - 1 \in U PROVE n \in U
    BY <1>11, <2>0, <2>2
  <2> HIDE DEF U
  <2> QED
    BY <1>2, <2>1, <2>2, Induction
<1>15. N \in T /\ N \in U
  BY <1>2, <1>10, <1>14
<1> QED
  BY <1>1, <1>15 DEF N

-----------------------------------------------------------------------------
(* The two maps in step.                                                   *)

Twin(t, s) ==
    /\ Live(s) = Live(t) /\ s.idm.last = t.idm.last
    /\ \A p \in Live(t) : s.omap[p] = KeyAt(t, p)
    /\ s.kind = [use.sec EXCEPT !.shared = TRUE]
    /\ IF use.sec.multi THEN Counted(s) /\ LoadBounded(s) /\ s.idm = t.idm
                        ELSE Loose(s) /\ (use.apart => Homely(s))

(* What every call keeps, and every delete of a call that makes several. *)
MapsOK(t, s) ==
    /\ PrimOK(t) /\ t.kind = use.prim
    /\ ~use.sec.multi => UniqueSec(t)
    /\ IF linked THEN Twin(t, s) ELSE s = EmptyTable(use.secM, use.sec)

LEMMA TwinFacts ==
    ASSUME use \in Uses, NEW t, NEW s, Twin(t, s)
    PROVE  /\ Typed(s) /\ Second(s) /\ s.kind.multi = use.sec.multi
           /\ s.kind.hash = use.sec.hash
           /\ \A p \in Live(s) : p < s.m /\ s.omap[p] # NULL /\ s.omap[p] \in Keys
<1>1. Typed(s)
  BY UseFacts DEF Twin, Counted, Loose
<1>2. Second(s) /\ s.kind.multi = use.sec.multi /\ s.kind.hash = use.sec.hash
  BY UseFacts DEF Second, Twin
<1>3. \A p \in Live(s) : p < s.m /\ s.omap[p] # NULL
  BY DEF Live
<1> QED
  BY <1>1, <1>2, <1>3, LiveKeys

LEMMA MapsTyped ==
    ASSUME use \in Uses, NEW t, NEW s, MapsOK(t, s)
    PROVE  Typed(t) /\ Typed(s)
<1>1. CASE linked
  BY <1>1, TwinFacts, PrimFacts DEF MapsOK
<1>2. CASE ~linked
  BY <1>2, UseFacts, EmptySound, PrimFacts DEF MapsOK, Sound
<1> QED
  BY <1>1, <1>2

(* the index that a delete in the secondary reads *)
Readable(s, read) == linked /\ use.sec.multi => Lists(s, read)

LEMMA DelLast ==
    ASSUME NEW m \in Manager, NEW id \in Nat, id < m.last
    PROVE  IdmDel(m, id).last = IF id + 1 = m.last THEN m.last - 1 ELSE m.last
<1>1. CASE id + 1 = m.last
  BY <1>1 DEF IdmDel, Manager
<1>2. CASE id + 1 # m.last
  BY <1>2 DEF IdmDel, Manager
<1> QED
  BY <1>1, <1>2

LEMMA TwinDelete ==
    ASSUME use \in Uses, linked, NEW t, PrimOK(t), NEW s, Twin(t, s),
           NEW read, Readable(s, read), NEW p \in Live(t)
    PROVE  Twin(DeleteAt(t, p), LinkedDelete(s, read, p))
<1> DEFINE t2 == DeleteAt(t, p)
           s2 == LinkedDelete(s, read, p)
<1>1. /\ Without(t, t2, p) /\ \A q \in Live(t2) : t2.vals[q] = t.vals[q]
  BY PrimDelete
<1>2. /\ Live(s) = Live(t) /\ s.idm.last = t.idm.last
      /\ \A q \in Live(t) : s.omap[q] = KeyAt(t, q)
      /\ s.kind = [use.sec EXCEPT !.shared = TRUE]
  BY DEF Twin
<1>3. /\ Typed(s) /\ s.kind.multi = use.sec.multi /\ use.sec.multi \in BOOLEAN
      /\ s.m \in Nat /\ p \in Nat /\ p < s.m /\ s.omap[p] # NULL /\ p < t.idm.last
      /\ t.idm \in Manager /\ s.idm \in Manager
  BY <1>2, TwinFacts, UseFacts, PrimFacts, Fields
<1>4. s2 = IF use.sec.multi THEN DeleteListed(s, read, p) ELSE DeleteAt(s, p)
  BY <1>3 DEF LinkedDelete
<1> HIDE DEF t2, s2
<1>5. /\ Without(s, s2, p)
      /\ IF use.sec.multi THEN Counted(s2) /\ LoadBounded(s2)
                          ELSE Loose(s2) /\ (use.apart => Homely(s2))
  <2>1. CASE use.sec.multi
    <3>1. Counted(s) /\ LoadBounded(s) /\ Lists(s, read)
      BY <2>1 DEF Twin, Readable
    <3> QED
      BY <1>2, <1>4, <2>1, <3>1, ListedDelete
  <2>2. CASE ~use.sec.multi
    <3>1. Loose(s) /\ (use.apart => Homely(s))
      BY <2>2 DEF Twin
    <3> QED
      BY <1>2, <1>4, <2>2, <3>1, LooseDelete
  <2> QED
    BY <1>3, <2>1, <2>2
<1>6. /\ t2.idm = IdmDel(t.idm, p) /\ Live(t2) = Live(t) \ {p}
      /\ s2.idm = IdmDel(s.idm, p) /\ Live(s2) = Live(s) \ {p} /\ s2.kind = s.kind
      /\ \A q \in Live(s2) : s2.omap[q] = s.omap[q]
  BY <1>1, <1>5 DEF Without
<1>7. Live(s2) = Live(t2) /\ s2.idm.last = t2.idm.last
  BY <1>2, <1>3, <1>6, DelLast
<1>8. \A q \in Live(t2) : s2.omap[q] = KeyAt(t2, q)
  BY <1>1, <1>2, <1>6 DEF KeyAt
<1>9. use.sec.multi => s2.idm = t2.idm
  BY <1>6 DEF Twin
<1>10. Twin(t2, s2)
  BY <1>2, <1>5, <1>6, <1>7, <1>8, <1>9 DEF Twin
<1> QED
  BY <1>10 DEF t2, s2

LEMMA BothDeleted ==
    ASSUME use \in Uses, linked \in BOOLEAN, NEW t, NEW s, MapsOK(t, s),
           NEW read, Readable(s, read), NEW p \in Live(t)
    PROVE  LET u == DeleteBoth([prim |-> t, sec |-> s], read, p)
           IN  /\ MapsOK(u.prim, u.sec) /\ Live(u.prim) = Live(t) \ {p}
               /\ u = [prim |-> u.prim, sec |-> u.sec]
<1> DEFINE u == DeleteBoth([prim |-> t, sec |-> s], read, p)
           t2 == DeleteAt(t, p)
           s2 == IF linked THEN LinkedDelete(s, read, p) ELSE s
<1>1. u = [prim |-> t2, sec |-> s2]
  BY DEF DeleteBoth
<1>2. /\ PrimOK(t) /\ t.kind = use.prim
      /\ ~use.sec.multi => UniqueSec(t)
      /\ IF linked THEN Twin(t, s) ELSE s = EmptyTable(use.secM, use.sec)
  BY DEF MapsOK
<1>3. linked => Twin(t2, s2)
  BY <1>2, TwinDelete
<1>4. ~linked => s2 = EmptyTable(use.secM, use.sec)
  BY <1>2
<1>5. /\ PrimOK(t2) /\ Without(t, t2, p)
      /\ \A q \in Live(t2) : t2.vals[q] = t.vals[q]
  BY <1>2, PrimDelete
<1> HIDE DEF t2, s2, u
<1>6. t2.kind = t.kind /\ Live(t2) = Live(t) \ {p}
  BY <1>5 DEF Without
<1>7. ~use.sec.multi => UniqueSec(t2)
  BY <1>2, <1>5, <1>6 DEF UniqueSec, KeyAt
<1>8. MapsOK(t2, s2)
  BY <1>2, <1>3, <1>4, <1>5, <1>6, <1>7 DEF MapsOK
<1>9. u.prim = t2 /\ u.sec = s2
  BY <1>1
<1> QED
  BY <1>1, <1>6, <1>8, <1>9 DEF u

LEMMA IndexesReadable ==
    ASSUME use \in Uses, NEW t, NEW s, MapsOK(t, s), NEW read \in Indexes(s)
    PROVE  Readable(s, read)
<1> SUFFICES ASSUME linked, use.sec.multi PROVE Lists(s, read)
  BY DEF Readable
<1>1. Typed(s) /\ s.kind.multi
  BY TwinFacts DEF MapsOK
<1>2. read \in IndexOrders(s)
  BY <1>1 DEF Indexes
<1> QED
  BY <1>1, <1>2, OrdersList

(* The maps that may be left when n of the positions are deleted. *)
Pairs == [prim : Tables, sec : Tables]

Left(ps, n) == {maps \in Pairs :
    /\ MapsOK(maps.prim, maps.sec)
    /\ Live(maps.prim) = Live(prim) \ {ps[i] : i \in 1 .. n}}

LEMMA LeftStart ==
    ASSUME use \in Uses, MapsOK(prim, sec), NEW ps
    PROVE  [prim |-> prim, sec |-> sec] \in Left(ps, 0)
<1> DEFINE maps == [prim |-> prim, sec |-> sec]
<1>1. prim \in Tables /\ sec \in Tables
  BY MapsTyped, TypedTables
<1>2. maps \in Pairs /\ maps.prim = prim /\ maps.sec = sec
  BY <1>1 DEF Pairs
<1>3. Live(prim) = Live(prim) \ {ps[i] : i \in 1 .. 0}
  OBVIOUS
<1> HIDE DEF maps
<1>4. MapsOK(maps.prim, maps.sec)
  BY <1>2
<1>5. Live(maps.prim) = Live(prim) \ {ps[i] : i \in 1 .. 0}
  BY <1>2, <1>3, Zenon
<1>6. maps \in Left(ps, 0)
  BY <1>2, <1>4, <1>5, Zenon DEF Left
<1> QED
  BY <1>6 DEF maps

LEMMA LeftNext ==
    ASSUME use \in Uses, linked \in BOOLEAN, NEW N \in Nat, NEW ps,
           \A i \in 1 .. N : ps[i] \in Live(prim),
           \A i, j \in 1 .. N : ps[i] = ps[j] => i = j,
           NEW n \in 1 .. N, NEW maps \in Left(ps, n - 1),
           NEW read, Readable(maps.sec, read)
    PROVE  DeleteBoth(maps, read, ps[n]) \in Left(ps, n)
<1> DEFINE u == DeleteBoth(maps, read, ps[n])
           t == maps.prim
           s == maps.sec
<1>1. /\ maps = [prim |-> t, sec |-> s] /\ MapsOK(t, s)
      /\ Live(t) = Live(prim) \ {ps[i] : i \in 1 .. n - 1}
  BY DEF Left, Pairs
<1> HIDE DEF t, s
<1>2. ps[n] \in Live(t)
  BY <1>1
<1>3. u = DeleteBoth([prim |-> t, sec |-> s], read, ps[n]) /\ Readable(s, read)
  BY <1>1 DEF s
<1> HIDE DEF u
<1>4. /\ MapsOK(u.prim, u.sec) /\ Live(u.prim) = Live(t) \ {ps[n]}
      /\ u = [prim |-> u.prim, sec |-> u.sec]
  BY <1>1, <1>2, <1>3, BothDeleted
<1>5. u.prim \in Tables /\ u.sec \in Tables
  BY <1>4, MapsTyped, TypedTables
<1>6. u \in Pairs
  BY <1>4, <1>5 DEF Pairs
<1>7. Live(u.prim) = Live(prim) \ {ps[i] : i \in 1 .. n}
  <2>1. {ps[i] : i \in 1 .. n} = {ps[i] : i \in 1 .. n - 1} \cup {ps[n]}
    OBVIOUS
  <2> QED
    BY <1>1, <1>4, <2>1
<1>8. u \in Left(ps, n)
  BY <1>4, <1>6, <1>7, Zenon DEF Left
<1> QED
  BY <1>8 DEF u

(* A call's deletes, one after the other, keep the maps in step and take   *)
(* out the entries at their positions.                                     *)
LEMMA DeletesSound ==
    ASSUME use \in Uses, linked \in BOOLEAN, MapsOK(prim, sec),
           NEW ps, Len(ps) \in Nat,
           \A i \in 1 .. Len(ps) : ps[i] \in Live(prim),
           \A i, j \in 1 .. Len(ps) : ps[i] = ps[j] => i = j,
           NEW reads, \A read \in reads : Readable(sec, read)
    PROVE  Deletes(ps, reads) \subseteq Left(ps, Len(ps))
<1> DEFINE N == Len(ps)
           first == {[prim |-> prim, sec |-> sec]}
           del(X, n) == UNION {{DeleteBoth(maps, read, ps[n]) :
                                   read \in IF n = 1 THEN reads ELSE Indexes(maps.sec)} :
                               maps \in X}
           A == SUBSET Pairs
           step == [n \in 1 .. N |-> [X \in A |->
                       IF del(X, n) \in A THEN del(X, n) ELSE X]]
           Rule(f) == [n \in 0 .. N |-> IF n = 0 THEN first ELSE del(f[n - 1], n)]
           made == CHOOSE f : f = Rule(f)
           Good(n, X) == X \subseteq Left(ps, n) /\ (n = 0 => X = first)
<1>1. Deletes(ps, reads) = made[N]
  BY DEF Deletes
<1>2. N \in Nat
  OBVIOUS
<1>3. step \in Steps(N, A)
  BY DEF Steps
<1>4. Good(0, first)
  BY LeftStart
<1>5. \A n, X : Good(n, X) => X \in A
  BY DEF Left
<1>6. ASSUME NEW n \in 1 .. N, NEW X, Good(n - 1, X)
      PROVE  Good(n, del(X, n))
  <2> SUFFICES ASSUME NEW maps \in X,
                      NEW read \in IF n = 1 THEN reads ELSE Indexes(maps.sec)
               PROVE  DeleteBoth(maps, read, ps[n]) \in Left(ps, n)
    BY <1>2
  <2>1. maps \in Left(ps, n - 1)
    BY <1>6
  <2>2. MapsOK(maps.prim, maps.sec)
    BY <2>1 DEF Left
  <2>3. Readable(maps.sec, read)
    <3>1. CASE n = 1
      <4>1. X = first
        BY <1>6, <3>1
      <4>2. maps.sec = sec
        BY <4>1
      <4> QED
        BY <3>1, <4>2
    <3>2. CASE n # 1
      BY <2>2, <3>2, IndexesReadable
    <3> QED
      BY <3>1, <3>2
  <2> QED
    BY <1>2, <2>1, <2>3, LeftNext
<1> HIDE DEF A, step, N, Rule, first, del, Good
<1>7. first \in A
  BY <1>4, <1>5
<1>8. PICK g \in [0 .. N -> A] :
          g[0] = first /\ \A n \in 1 .. N : g[n] = step[n][g[n - 1]]
  BY <1>2, <1>3, <1>7, Recursion DEF Iterations
<1> DEFINE T == {n \in 0 .. N : Good(n, g[n])}
<1>9. ASSUME NEW n \in 1 .. N, n - 1 \in T
      PROVE  Good(n, del(g[n - 1], n)) /\ g[n] = del(g[n - 1], n)
  <2>1. Good(n, del(g[n - 1], n))
    BY <1>6, <1>9
  <2>2. del(g[n - 1], n) \in A /\ g[n - 1] \in A
    BY <1>2, <1>5, <1>8, <2>1
  <2> QED
    BY <1>8, <2>1, <2>2 DEF step
<1>10. \A n \in 0 .. N : n \in T
  <2>1. 0 \in T
    BY <1>2, <1>4, <1>8
  <2>2. ASSUME NEW n \in 1 .. N, n - 1 \in T PROVE n \in T
    BY <1>9, <2>2
  <2> HIDE DEF T
  <2> QED
    BY <1>2, <2>1, <2>2, Induction
<1>11. \A n \in 1 .. N : g[n] = del(g[n - 1], n)
  <2>1. \A n \in 1 .. N : n - 1 \in 0 .. N
    BY <1>2
  <2> QED
    BY <1>9, <1>10, <2>1
<1>12. g = Rule(g)
  <2> DEFINE h == [n \in 0 .. N |-> IF n = 0 THEN first ELSE del(g[n - 1], n)]
  <2>1. \A n \in 0 .. N : g[n] = h[n]
    BY <1>2, <1>8, <1>11
  <2>2. g = h
    BY <1>8, <2>1
  <2> QED
    BY <2>2 DEF Rule
<1>13. made = Rule(made)
  BY <1>12
<1> HIDE DEF made
<1> DEFINE U == {n \in 0 .. N : made[n] = g[n]}
<1>14. \A n \in 0 .. N : n \in U
  <2>0. \A n \in 0 .. N : made[n] = IF n = 0 THEN first ELSE del(made[n - 1], n)
    BY <1>13 DEF Rule
  <2>1. 0 \in U
    BY <1>2, <1>8, <2>0
  <2>2. ASSUME NEW n \in 1 .. N, n - 1 \in U PROVE n \in U
    BY <1>11, <2>0, <2>2
  <2> HIDE DEF U
  <2> QED
    BY <1>2, <2>1, <2>2, Induction
<1>15. N \in T /\ N \in U
  BY <1>2, <1>10, <1>14
<1> QED
  BY <1>1, <1>15 DEF N, Good

-----------------------------------------------------------------------------
(* A put is carried to the secondary.                                      *)

PutDone(t, u, key, val, p) ==
    PutNew(t, u, key, val, p) \/ PutOld(t, u, key, val, p)

(* The primary has not issued a position yet that it names, unless all the *)
(* ones below are in use.                                                  *)
LEMMA NamedPosition ==
    ASSUME use \in Uses, NEW t, PrimOK(t), NEW s, Twin(t, s), ~use.sec.multi,
           NEW u, NEW key, NEW val, NEW p, PutDone(t, u, key, val, p)
    PROVE  /\ p \in Nat /\ MayName(s, p)
           /\ u.idm.last = IF p >= s.idm.last THEN p + 1 ELSE s.idm.last
<1>1. /\ t.idm \in Manager /\ t.idm.last \in Nat /\ Accounts(t.idm, Live(t))
      /\ \A q \in Live(t) : q \in Nat /\ q < t.idm.last
  BY PrimFacts
<1>2. s.idm.last = t.idm.last /\ Live(s) = Live(t) /\ Loose(s)
  BY DEF Twin
<1>3. CASE PutOld(t, u, key, val, p)
  <2>1. p \in Live(t) /\ u.idm = t.idm
    BY <1>3 DEF PutOld
  <2> QED
    BY <1>1, <1>2, <2>1 DEF MayName
<1>4. CASE PutNew(t, u, key, val, p)
  <2>1. p = IdmNewId(t.idm) /\ u.idm = IdmNew(t.idm)
    BY <1>4 DEF PutNew
  <2>2. /\ p \in Nat /\ p < u.idm.last
        /\ u.idm.last \in {t.idm.last, t.idm.last + 1}
        /\ t.idm.free = <<>> => Live(t) = 0 .. t.idm.last - 1 /\ p = t.idm.last
        /\ t.idm.free # <<>> => u.idm.last = t.idm.last
    BY <1>1, <2>1, NewAccounts
  <2>3. CASE t.idm.free = <<>>
    <3> DEFINE last == t.idm.last
    <3>1. last \in Nat
      BY <1>1
    <3>2. s.n >= Cardinality(0 .. last - 1) /\ s.n \in Nat
      BY <1>2, <2>2, <2>3, LooseFacts DEF Loose
    <3> HIDE DEF last
    <3>3. Cardinality(0 .. last - 1) = last
      BY <3>1, FS_Interval
    <3>4. p <= s.n /\ p = s.idm.last
      BY <1>2, <2>2, <2>3, <3>1, <3>2, <3>3 DEF last
    <3> QED
      BY <1>1, <1>2, <2>2, <3>4 DEF MayName
  <2>4. CASE t.idm.free # <<>>
    BY <1>1, <1>2, <2>2, <2>4 DEF MayName
  <2> QED
    BY <2>3, <2>4
<1> QED
  BY <1>3, <1>4 DEF PutDone

LEMMA PutKeys ==
    ASSUME NEW t, NEW u, NEW key, NEW val, NEW p, PutDone(t, u, key, val, p)
    PROVE  /\ Live(u) = Live(t) \cup {p} /\ KeyAt(u, p) = SecKey[val]
           /\ \A q \in Live(t) : q # p => KeyAt(u, q) = KeyAt(t, q)
<1>1. CASE PutNew(t, u, key, val, p)
  BY <1>1 DEF PutNew, KeyAt
<1>2. CASE PutOld(t, u, key, val, p)
  BY <1>2 DEF PutOld, KeyAt
<1> QED
  BY <1>1, <1>2 DEF PutDone

LEMMA CarriedApart ==       \* the secondary issues the position
    ASSUME use \in Uses, use.sec.multi, NEW t, PrimOK(t), NEW s, Twin(t, s), Emptied(s),
           NEW u, PrimOK(u), NEW key, NEW val, NEW p, PutNew(t, u, key, val, p)
    PROVE  Twin(u, Carried(s, u, p))
<1> DEFINE k == KeyAt(u, p)
           v == PutKey(s, k, NULL, MISS).tab
<1>1. /\ Typed(s) /\ Second(s) /\ s.kind.multi
  BY TwinFacts
<1>2. /\ Counted(s) /\ LoadBounded(s) /\ s.idm = t.idm /\ Live(s) = Live(t)
      /\ \A q \in Live(t) : s.omap[q] = KeyAt(t, q)
      /\ s.kind = [use.sec EXCEPT !.shared = TRUE]
  BY DEF Twin
<1>3. /\ p = IdmNewId(t.idm) /\ p \notin Live(t) /\ u.idm = IdmNew(t.idm)
      /\ Live(u) = Live(t) \cup {p}
  BY DEF PutNew
<1>4. k \in Keys
  BY <1>3, PrimFacts, KeyAtTyped
<1>5. \A q \in Live(t) : KeyAt(u, q) = KeyAt(t, q)
  BY DEF PutNew, KeyAt
<1>6. Carried(s, u, p) = v
  BY <1>1 DEF Carried
<1> HIDE DEF k
<1>7. Counted(v) /\ LoadBounded(v) /\ Issued(s, v, k, IdmNewId(s.idm))
  BY <1>1, <1>2, <1>4, FreshPut
<1> HIDE DEF v
<1>8. /\ v.idm = IdmNew(t.idm) /\ v.kind = s.kind /\ Live(v) = Live(s) \cup {p}
      /\ v.omap[p] = k /\ \A q \in Live(s) : v.omap[q] = s.omap[q]
  BY <1>2, <1>3, <1>7 DEF Issued
<1>9. Twin(u, v)
  BY <1>2, <1>3, <1>5, <1>7, <1>8 DEF Twin, k
<1> QED
  BY <1>6, <1>9

LEMMA CarriedNamed ==       \* the primary names it
    ASSUME use \in Uses, ~use.sec.multi,
           NEW t, PrimOK(t), UniqueSec(t), NEW s, Twin(t, s),
           NEW u, PrimOK(u), UniqueSec(u),
           NEW key, NEW val, NEW p, PutDone(t, u, key, val, p)
    PROVE  Twin(u, Carried(s, u, p))
<1> DEFINE k == KeyAt(u, p)
           v == PutKey(s, k, NULL, p).tab
<1>1. Second(s) /\ ~s.kind.multi
  BY TwinFacts, UseFacts
<1>2. /\ Loose(s) /\ (use.apart => Homely(s)) /\ Live(s) = Live(t)
      /\ \A q \in Live(t) : s.omap[q] = KeyAt(t, q)
      /\ s.kind = [use.sec EXCEPT !.shared = TRUE]
  BY DEF Twin
<1>3. /\ Live(u) = Live(t) \cup {p}
      /\ \A q \in Live(t) : q # p => KeyAt(u, q) = KeyAt(t, q)
  BY PutKeys
<1>4. k \in SecKeys /\ k \in Keys
  BY <1>3, PrimFacts, KeyAtTyped
<1>5. /\ p \in Nat /\ MayName(s, p)
      /\ u.idm.last = IF p >= s.idm.last THEN p + 1 ELSE s.idm.last
  BY NamedPosition
<1>6. \A q \in Live(s) : q # p => s.omap[q] # k
  BY <1>2, <1>3 DEF UniqueSec
<1>7. KeyedOnce(s)
  BY <1>2 DEF KeyedOnce, UniqueSec
<1>8. Carried(s, u, p) = v
  BY <1>1 DEF Carried
<1> HIDE DEF k
<1>9. /\ Loose(v) /\ v.kind = s.kind
      /\ Live(v) = Live(s) \cup {p} /\ v.omap[p] = k
      /\ \A q \in Live(s) : q # p => v.omap[q] = s.omap[q]
      /\ v.idm.last = IF p >= s.idm.last THEN p + 1 ELSE s.idm.last
      /\ KeyedOnce(s) /\ Homely(s) /\ k \in SecKeys => Homely(v)
  BY <1>1, <1>2, <1>4, <1>5, <1>6, CarriedSound
<1> HIDE DEF v
<1>10. Live(v) = Live(u) /\ v.idm.last = u.idm.last
  BY <1>2, <1>3, <1>5, <1>9
<1>11. \A q \in Live(u) : v.omap[q] = KeyAt(u, q)
  BY <1>2, <1>3, <1>9 DEF k
<1>12. use.apart => Homely(v)
  BY <1>2, <1>4, <1>7, <1>9
<1>13. Twin(u, v)
  BY <1>2, <1>9, <1>10, <1>11, <1>12 DEF Twin
<1> QED
  BY <1>8, <1>13

(* the guard of Put: no update with a QM_MULTIVALUE secondary, and no      *)
(* second entry with the same secondary key otherwise                      *)
MayPut(t, key, val) == \A p \in Live(t) :
    IF use.sec.multi THEN linked => t.omap[p] # key
    ELSE t.omap[p] # key => KeyAt(t, p) # SecKey[val]

LEMMA PutUnique ==
    ASSUME ~use.sec.multi, NEW t, PrimOK(t), UniqueSec(t),
           NEW u, PrimOK(u), NEW key, NEW val, NEW p, PutDone(t, u, key, val, p),
           MayPut(t, key, val)
    PROVE  UniqueSec(u)
<1>1. /\ Live(u) = Live(t) \cup {p} /\ KeyAt(u, p) = SecKey[val]
      /\ \A q \in Live(t) : q # p => KeyAt(u, q) = KeyAt(t, q)
  BY PutKeys
<1>2. KeyedOnce(t) /\ KeyedOnce(u)
  BY DEF PrimOK, Findable
<1>3. \A q \in Live(t) : q # p => t.omap[q] # key
  <2>1. CASE PutNew(t, u, key, val, p)
    BY <1>1, <1>2, <2>1 DEF PutNew, KeyedOnce
  <2>2. CASE PutOld(t, u, key, val, p)
    BY <1>2, <2>2 DEF PutOld, KeyedOnce
  <2> QED
    BY <2>1, <2>2 DEF PutDone
<1>4. \A q \in Live(t) : q # p => KeyAt(t, q) # SecKey[val]
  BY <1>3 DEF MayPut
<1> QED
  BY <1>1, <1>4 DEF UniqueSec

LEMMA PutKept ==
    ASSUME use \in Uses, linked \in BOOLEAN, NEW t, NEW s, MapsOK(t, s),
           linked /\ use.sec.multi => Emptied(s),
           NEW key \in PrimKeys, NEW val \in Vals, MayPut(t, key, val)
    PROVE  LET put == PutKey(t, key, val, MISS)
           IN  MapsOK(put.tab, IF linked /\ put.id # MISS
                                 THEN Carried(s, put.tab, put.tab.map[put.id])
                                 ELSE s)
<1> DEFINE put == PutKey(t, key, val, MISS)
           u == put.tab
           p == u.map[put.id]
<1>1. /\ PrimOK(t) /\ t.kind = use.prim
      /\ ~use.sec.multi => UniqueSec(t)
      /\ IF linked THEN Twin(t, s) ELSE s = EmptyTable(use.secM, use.sec)
  BY DEF MapsOK
<1>2. /\ PrimOK(u) /\ u.kind = t.kind
      /\ put.id = MISS => SameEntries(t, u) /\ u.idm = t.idm
      /\ put.id # MISS => PutDone(t, u, key, val, p)
  BY <1>1, PrimPut DEF PutDone
<1> HIDE DEF put
<1>3. CASE put.id = MISS
  <2>1. Live(u) = Live(t) /\ \A q \in Live(t) : KeyAt(u, q) = KeyAt(t, q)
    BY <1>2, <1>3 DEF SameEntries, KeyAt
  <2>2. ~use.sec.multi => UniqueSec(u)
    BY <1>1, <2>1 DEF UniqueSec
  <2>3. linked => Twin(u, s)
    BY <1>1, <1>2, <1>3, <2>1 DEF Twin
  <2>4. MapsOK(u, s)
    BY <1>1, <1>2, <2>2, <2>3 DEF MapsOK
  <2> QED
    BY <1>3, <2>4 DEF put
<1>4. CASE put.id # MISS
  <2> HIDE DEF u, p
  <2>1. PutDone(t, u, key, val, p)
    BY <1>2, <1>4
  <2>2. ~use.sec.multi => UniqueSec(u)
    BY <1>1, <1>2, <2>1, PutUnique
  <2>3. linked => Twin(u, Carried(s, u, p))
    <3> SUFFICES ASSUME linked PROVE Twin(u, Carried(s, u, p))
      OBVIOUS
    <3>1. Twin(t, s)
      BY <1>1
    <3>2. CASE use.sec.multi
      <4>1. PutNew(t, u, key, val, p)
        BY <2>1, <3>2 DEF MayPut, PutDone, PutOld
      <4> QED
        BY <1>1, <1>2, <3>1, <3>2, <4>1, CarriedApart
    <3>3. CASE ~use.sec.multi
      BY <1>1, <1>2, <2>1, <2>2, <3>1, <3>3, CarriedNamed
    <3> QED
      BY <3>2, <3>3
  <2>4. MapsOK(u, IF linked THEN Carried(s, u, p) ELSE s)
    BY <1>1, <1>2, <2>2, <2>3 DEF MapsOK
  <2> QED
    BY <1>4, <2>4 DEF put, u, p
<1> QED
  BY <1>3, <1>4

-----------------------------------------------------------------------------
(* The inductive invariant: the two maps are in step, and a QM_MULTIVALUE  *)
(* secondary has an empty slot.                                            *)
AssocInv ==
    /\ use \in Uses /\ linked \in BOOLEAN
    /\ MapsOK(prim, sec)
    /\ linked /\ use.sec.multi => Emptied(sec)

LEMMA AssocInit ==
    ASSUME PrimaryApart, Init
    PROVE  AssocInv
<1>1. /\ use \in Uses /\ linked = FALSE /\ sec = EmptyTable(use.secM, use.sec)
      /\ prim = EmptyTable(use.primM, use.prim)
  BY DEF Init
<1>2. /\ use.prim \in Kind /\ ~use.prim.multi /\ ~use.prim.shared
      /\ use.primM \in Nat /\ use.primM > 1
      /\ KeysApart(use.prim.hash, PrimKeys, use.primM)
  BY <1>1, UseFacts DEF PrimaryApart
<1>3. PrimOK(prim) /\ Live(prim) = {} /\ prim.kind = use.prim
  BY <1>1, <1>2, PrimEmpty
<1>4. MapsOK(prim, sec)
  BY <1>1, <1>3 DEF MapsOK, UniqueSec
<1> QED
  BY <1>1, <1>4 DEF AssocInv

LEMMA Primed ==
    ASSUME AssocInv, UNCHANGED <<use, linked>>, MapsOK(prim', sec'), WithinBounds
    PROVE  AssocInv'
<1>1. use \in Uses /\ linked \in BOOLEAN
  BY DEF AssocInv
<1>2. MapsOK(prim, sec)'
  BY DEF MapsOK, Twin
<1>3. (linked /\ use.sec.multi)' => Emptied(sec)'
  <2> SUFFICES ASSUME linked, use.sec.multi PROVE Emptied(sec)'
    OBVIOUS
  <2>1. sec'.kind.multi
    BY <1>1, TwinFacts DEF MapsOK
  <2> QED
    BY <2>1 DEF WithinBounds, Emptied
<1> QED
  BY <1>1, <1>2, <1>3 DEF AssocInv

LEMMA PutStep ==
    ASSUME AssocInv, Put
    PROVE  AssocInv'
<1>1. /\ use \in Uses /\ linked \in BOOLEAN /\ MapsOK(prim, sec)
      /\ linked /\ use.sec.multi => Emptied(sec)
  BY DEF AssocInv
<1>2. PICK key \in PrimKeys, val \in Vals :
          LET put == PutKey(prim, key, val, MISS)
          IN  /\ MayPut(prim, key, val)
              /\ prim' = put.tab
              /\ sec' = IF linked /\ put.id # MISS
                          THEN Carried(sec, put.tab, put.tab.map[put.id])
                          ELSE sec
              /\ UNCHANGED <<use, linked>> /\ WithinBounds
  BY DEF Put, MayPut
<1>3. MapsOK(prim', sec')
  BY <1>1, <1>2, PutKept
<1> QED
  BY <1>2, <1>3, Primed

LEMMA JoinedTwin ==
    ASSUME use \in Uses, NEW t, PrimOK(t), Live(t) = 0 .. t.idm.last - 1,
           NEW s, Joining(t, t.idm.last, s)
    PROVE  Twin(t, s)
<1> DEFINE last == t.idm.last
<1>1. /\ Counted(s) /\ LoadBounded(s) /\ SlotsPoint(s) /\ NoStrays(s)
      /\ s.kind = [use.sec EXCEPT !.shared = TRUE]
      /\ s.idm = [free |-> <<>>, last |-> last]
      /\ Live(s) = 0 .. last - 1
      /\ \A q \in 0 .. last - 1 : s.omap[q] = KeyAt(t, q)
      /\ use.apart /\ ~use.sec.multi => Homely(s)
  BY DEF Joining
<1>2. /\ t.idm \in Manager /\ Accounts(t.idm, Live(t)) /\ last \in Nat
      /\ Typed(s) /\ s.n = Cardinality(Live(s)) /\ s.n \in Nat /\ s.m \in Nat
      /\ \A i \in Slots(s) : s.map[i] \in Nat \cup {MISS}
  BY <1>1, PrimFacts, Fields DEF Counted
<1>3. s.idm = t.idm
  <2>1. Listed(t.idm) = {}
    BY <1>2 DEF Accounts
  <2>2. t.idm.free \in Seq(Nat)
    BY <1>2 DEF Manager
  <2>3. Len(t.idm.free) = 0
    <3> SUFFICES ASSUME Len(t.idm.free) # 0 PROVE FALSE
      OBVIOUS
    <3>1. 1 \in 1 .. Len(t.idm.free)
      BY <2>2
    <3>2. t.idm.free[1] \in Listed(t.idm)
      BY <3>1 DEF Listed
    <3> QED
      BY <2>1, <3>2
  <2>4. t.idm.free = <<>>
    BY <2>2, <2>3, EmptySeq
  <2>5. t.idm = [free |-> t.idm.free, last |-> last]
    BY <1>2 DEF Manager
  <2> HIDE DEF last
  <2> QED
    BY <1>1, <2>4, <2>5
<1>4. Live(s) = Live(t) /\ s.idm.last = t.idm.last
  BY <1>1, <1>3
<1>5. s.n = last
  <2>0. last \in Nat
    BY <1>2
  <2> HIDE DEF last
  <2>1. Cardinality(0 .. last - 1) = last
    BY <2>0, FS_Interval
  <2> QED
    BY <1>1, <1>2, <2>1
<1>6. Loose(s)
  <2>1. last * 4 < s.m * 3
    BY <1>1, <1>2, <1>5 DEF LoadBounded
  <2>2. ASSUME NEW i \in Slots(s), s.map[i] # MISS
        PROVE  (s.map[i] + 1) * 4 < s.m * 3
    <3>1. s.map[i] \in 0 .. last - 1
      BY <1>1, <2>2 DEF SlotsPoint
    <3> DEFINE q == s.map[i]
    <3>2. q \in Nat /\ q + 1 <= last /\ last \in Nat /\ s.m \in Nat
      BY <1>2, <3>1
    <3> HIDE DEF q, last
    <3>3. (q + 1) * 4 <= last * 4
      BY <3>2
    <3>4. (q + 1) * 4 < s.m * 3
      BY <2>1, <3>2, <3>3
    <3> QED
      BY <3>4 DEF q
  <2>3. \A i, j \in Slots(s) : s.map[i] = s.map[j] /\ s.map[i] # MISS => i = j
    BY <1>1 DEF SlotsPoint
  <2>4. s.n >= Cardinality(Live(s))
    BY <1>2
  <2>5. s.idm.last * 4 < s.m * 3
    BY <1>4, <2>1
  <2> HIDE DEF last
  <2> QED
    BY <1>1, <1>2, <2>2, <2>3, <2>4, <2>5 DEF Loose
<1>7. Twin(t, s)
  BY <1>1, <1>3, <1>4, <1>6 DEF Twin
<1> QED
  BY <1>7

LEMMA LinkStep ==
    ASSUME AssocInv, Link
    PROVE  AssocInv'
<1>1. /\ use \in Uses /\ linked \in BOOLEAN /\ MapsOK(prim, sec)
  BY DEF AssocInv
<1>2. /\ ~linked /\ Live(prim) = 0 .. prim.idm.last - 1
      /\ linked' = TRUE /\ sec' = Joined /\ use' = use /\ prim' = prim /\ WithinBounds
  BY DEF Link
<1>3. /\ PrimOK(prim) /\ prim.kind = use.prim
      /\ ~use.sec.multi => UniqueSec(prim)
      /\ sec = EmptyTable(use.secM, use.sec)
  BY <1>1, <1>2 DEF MapsOK
<1>4. Joining(prim, prim.idm.last, sec')
  BY <1>1, <1>2, <1>3, JoinedSound
<1>5. Twin(prim, sec')
  BY <1>1, <1>2, <1>3, <1>4, JoinedTwin
<1>6. MapsOK(prim, sec)'
  BY <1>2, <1>3, <1>5 DEF MapsOK, Twin
<1>7. use.sec.multi => Emptied(sec)'
  <2> SUFFICES ASSUME use.sec.multi PROVE Emptied(sec)'
    OBVIOUS
  <2>1. sec'.kind.multi
    BY <1>1, <1>5, TwinFacts
  <2> QED
    BY <1>2, <2>1 DEF WithinBounds, Emptied
<1> QED
  BY <1>1, <1>2, <1>6, <1>7 DEF AssocInv

LEMMA DeleteStep ==
    ASSUME AssocInv, NEW ps, Len(ps) \in Nat,
           \A i \in 1 .. Len(ps) : ps[i] \in Live(prim),
           \A i, j \in 1 .. Len(ps) : ps[i] = ps[j] => i = j,
           NEW reads, \A read \in reads : Readable(sec, read),
           Delete(ps, reads)
    PROVE  AssocInv'
<1>1. use \in Uses /\ linked \in BOOLEAN /\ MapsOK(prim, sec)
  BY DEF AssocInv
<1>2. PICK maps \in Deletes(ps, reads) :
          /\ prim' = maps.prim /\ sec' = maps.sec
          /\ UNCHANGED <<use, linked>> /\ WithinBounds
  BY DEF Delete
<1>3. maps \in Left(ps, Len(ps))
  BY <1>1, DeletesSound
<1>4. MapsOK(prim', sec')
  BY <1>2, <1>3 DEF Left
<1> QED
  BY <1>2, <1>4, Primed

LEMMA SingleStep ==
    ASSUME AssocInv, NEW p \in Live(prim),
           NEW reads, \A read \in reads : Readable(sec, read),
           Delete(<<p>>, reads)
    PROVE  AssocInv'
<1> DEFINE ps == <<p>>
<1>1. /\ Len(ps) = 1 /\ ps[1] = p
  OBVIOUS
<1>2. 1 .. 1 = {1}
  OBVIOUS
<1> HIDE DEF ps
<1>3. /\ Len(ps) \in Nat
      /\ \A i \in 1 .. Len(ps) : ps[i] \in Live(prim)
      /\ \A i, j \in 1 .. Len(ps) : ps[i] = ps[j] => i = j
  BY <1>1, <1>2
<1>4. Delete(ps, reads)
  BY DEF ps
<1> QED
  BY <1>3, <1>4, DeleteStep

LEMMA DelStep ==
    ASSUME AssocInv, Del
    PROVE  AssocInv'
<1>1. use \in Uses /\ MapsOK(prim, sec) /\ PrimOK(prim)
  BY DEF AssocInv, MapsOK
<1>2. PICK key \in PrimKeys :
          LET p == PosOf(prim, Lookup(prim, key))
          IN  p # MISS /\ Delete(<<p>>, Indexes(sec))
  BY DEF Del
<1> DEFINE p == PosOf(prim, Lookup(prim, key))
<1>3. p \in Live(prim)
  <2>1. Typed(prim) /\ Sound(prim) /\ key \in Keys
    BY <1>1, PrimFacts
  <2>2. Lookup(prim, key) # MISS /\ prim.map[Lookup(prim, key)] # MISS
        /\ p = prim.map[Lookup(prim, key)]
    BY <1>2 DEF PosOf
  <2> HIDE DEF p
  <2>3. Lookup(prim, key) \in Slots(prim)
    BY <2>1, <2>2, LookupStops
  <2> QED
    BY <2>1, <2>2, <2>3 DEF Sound, SlotsPoint
<1>4. \A read \in Indexes(sec) : Readable(sec, read)
  BY <1>1, IndexesReadable
<1>5. Delete(<<p>>, Indexes(sec))
  BY <1>2
<1> HIDE DEF p
<1> QED
  BY <1>3, <1>4, <1>5, SingleStep

(* A secondary without an index: where a lookup of the key leads. *)
LEMMA LinkedPosition ==
    ASSUME AssocInv, linked, ~use.sec.multi, NEW skey \in SecKeys
    PROVE  LET p == PosOf(sec, Lookup(sec, skey))
           IN  p # MISS => p \in Live(prim) /\ sec.omap[p] = skey
<1> DEFINE id == Lookup(sec, skey)
           p == PosOf(sec, id)
<1> SUFFICES ASSUME p # MISS PROVE p \in Live(prim) /\ sec.omap[p] = skey
  OBVIOUS
<1>1. use \in Uses /\ Twin(prim, sec) /\ Loose(sec) /\ skey \in Keys
  BY KeyAtTyped DEF AssocInv, MapsOK, Twin
<1>2. Typed(sec) /\ Live(sec) = Live(prim)
  BY <1>1 DEF Twin, Loose
<1>3. id # MISS /\ p = sec.map[id]
  BY DEF PosOf
<1>4. id \in Slots(sec) /\ sec.omap[p] = skey
  BY <1>1, <1>2, <1>3, LookupStops
<1> HIDE DEF p, id
<1>5. p \in Nat /\ (p + 1) * 4 < sec.m * 3 /\ sec.m \in Nat
  BY <1>1, <1>3, <1>4, LooseFacts DEF Loose
<1>6. p \in Slots(sec)
  BY <1>5 DEF Slots
<1>7. sec.omap[p] # NULL
  BY <1>1, <1>4, Sentinels
<1> QED
  BY <1>1, <1>2, <1>4, <1>6, <1>7 DEF Loose, NoStrays

(* What a cursor on a key of the secondary returns are entries of the      *)
(* primary, each of them once.                                             *)
LEMMA LinkedAtLive ==
    ASSUME AssocInv, linked, NEW skey \in SecKeys, NEW read \in Indexes(sec)
    PROVE  LET all == LinkedAt(sec, read, skey)
           IN  /\ Len(all) \in Nat
               /\ \A i \in 1 .. Len(all) : all[i] \in Live(prim)
               /\ \A i, j \in 1 .. Len(all) : all[i] = all[j] => i = j
               /\ all # <<>> => all[1] \in Live(prim)
<1> DEFINE all == LinkedAt(sec, read, skey)
<1>1. use \in Uses /\ MapsOK(prim, sec) /\ Twin(prim, sec) /\ skey \in Keys
  BY KeyAtTyped DEF AssocInv, MapsOK
<1>2. /\ Typed(sec) /\ sec.kind.multi = use.sec.multi /\ Live(sec) = Live(prim)
      /\ use.sec.multi \in BOOLEAN
  BY <1>1, TwinFacts, UseFacts DEF Twin
<1>3. CASE use.sec.multi
  <2>1. Lists(sec, read)
    BY <1>1, <1>3, IndexesReadable DEF Readable
  <2> DEFINE of == Matches(sec, read, skey)
  <2>2. /\ of \in Seq(Nat) /\ Len(of) \in Nat
        /\ Enumerates(of, Len(of), EntriesOf(sec, skey))
    BY <1>1, <1>2, <2>1, MatchesExact
  <2>3. all = of
    BY <1>2, <1>3 DEF LinkedAt
  <2> HIDE DEF all, of
  <2>4. /\ \A i \in 1 .. Len(of) : of[i] \in Live(prim)
        /\ \A i, j \in 1 .. Len(of) : of[i] = of[j] => i = j
    BY <1>2, <2>2 DEF Enumerates, EntriesOf
  <2>5. of # <<>> => 1 \in 1 .. Len(of)
    BY <2>2, EmptySeq
  <2> QED
    BY <2>2, <2>3, <2>4, <2>5 DEF all
<1>4. CASE ~use.sec.multi
  <2> DEFINE p == PosOf(sec, Lookup(sec, skey))
  <2>1. all = IF p = MISS THEN <<>> ELSE <<p>>
    BY <1>2, <1>4 DEF LinkedAt
  <2>2. p # MISS => p \in Live(prim)
    BY <1>4, LinkedPosition
  <2> HIDE DEF all, p
  <2>3. CASE p = MISS
    BY <2>1, <2>3 DEF all
  <2>4. CASE p # MISS
    <3>1. Len(all) = 1 /\ all[1] = p /\ 1 .. 1 = {1}
      BY <2>1, <2>4
    <3> QED
      BY <2>2, <2>4, <3>1 DEF all
  <2> QED
    BY <2>3, <2>4
<1> QED
  BY <1>2, <1>3, <1>4

LEMMA DelLinkedStep ==
    ASSUME AssocInv, DelLinked
    PROVE  AssocInv'
<1>1. use \in Uses /\ MapsOK(prim, sec)
  BY DEF AssocInv
<1>2. PICK skey \in SecKeys, read \in Indexes(sec) :
          LET all == LinkedAt(sec, read, skey)
          IN  /\ linked /\ all # <<>>
              /\ \E ps \in {all, <<all[1]>>} : Delete(ps, {read})
  BY DEF DelLinked
<1> DEFINE all == LinkedAt(sec, read, skey)
<1>3. linked /\ all # <<>> /\ (Delete(all, {read}) \/ Delete(<<all[1]>>, {read}))
  BY <1>2
<1>4. /\ Len(all) \in Nat
      /\ \A i \in 1 .. Len(all) : all[i] \in Live(prim)
      /\ \A i, j \in 1 .. Len(all) : all[i] = all[j] => i = j
      /\ all # <<>> => all[1] \in Live(prim)
  BY <1>3, LinkedAtLive
<1>5. \A r \in {read} : Readable(sec, r)
  BY <1>1, IndexesReadable
<1> HIDE DEF all
<1>6. CASE Delete(all, {read})
  BY <1>4, <1>5, <1>6, DeleteStep
<1>7. CASE Delete(<<all[1]>>, {read})
  <2>1. all[1] \in Live(prim)
    BY <1>3, <1>4
  <2> QED
    BY <1>5, <1>7, <2>1, SingleStep
<1> QED
  BY <1>3, <1>6, <1>7

LEMMA DropStep ==
    ASSUME AssocInv, Drop
    PROVE  AssocInv'
<1>1. use \in Uses /\ linked \in BOOLEAN /\ MapsOK(prim, sec) /\ PrimOK(prim)
      /\ prim.kind = use.prim
  BY DEF AssocInv, MapsOK
<1>2. CASE linked
  <2>1. PICK ps \in SetToSeqs(Live(prim)) : Delete(ps, Indexes(sec))
    BY <1>2 DEF Drop
  <2> DEFINE C == Cardinality(Live(prim))
  <2>2. C \in Nat
    BY <1>1, PrimFacts, LiveFinite
  <2>3. ps \in [1 .. C -> Live(prim)] /\ \A i, j \in 1 .. C : i # j => ps[i] # ps[j]
    BY DEF SetToSeqs
  <2> HIDE DEF C
  <2>4. Len(ps) = C
    <3>1. ps \in UNION {[1 .. k -> Live(prim)] : k \in Nat}
      BY <2>2, <2>3
    <3>2. ps \in Seq(Live(prim))
      BY <3>1, SeqDef, Zenon
    <3> QED
      BY <2>2, <2>3, <3>2, LenProperties
  <2>5. /\ Len(ps) \in Nat
        /\ \A i \in 1 .. Len(ps) : ps[i] \in Live(prim)
        /\ \A i, j \in 1 .. Len(ps) : ps[i] = ps[j] => i = j
    BY <2>2, <2>3, <2>4
  <2>6. \A read \in Indexes(sec) : Readable(sec, read)
    BY <1>1, IndexesReadable
  <2> QED
    BY <2>1, <2>5, <2>6, DeleteStep
<1>3. CASE ~linked
  <2>1. /\ prim' = EmptyTable(prim.m, prim.kind) /\ use' = use /\ sec' = sec
        /\ linked' = linked
    BY <1>3 DEF Drop, Cleared
  <2>2. /\ prim.m \in Nat /\ prim.m > 1 /\ prim.kind \in Kind
        /\ ~prim.kind.multi /\ ~prim.kind.shared
        /\ KeysApart(prim.kind.hash, PrimKeys, prim.m)
    BY <1>1, PrimFacts, Fields DEF PrimOK
  <2>3. PrimOK(prim') /\ Live(prim') = {} /\ prim'.kind = prim.kind
    BY <2>1, <2>2, PrimEmpty
  <2>4. MapsOK(prim, sec)'
    BY <1>1, <1>3, <2>1, <2>3 DEF MapsOK, UniqueSec
  <2> QED
    BY <1>1, <1>3, <2>1, <2>4 DEF AssocInv
<1> QED
  BY <1>1, <1>2, <1>3

-----------------------------------------------------------------------------
(* What is proved of every sequence of calls.                              *)

(* The two maps are in step after every call, whatever it deletes and      *)
(* whichever index it reads: from this all that follows.                   *)
THEOREM AssocInvariant == ASSUME PrimaryApart PROVE Spec => []AssocInv
<1>1. AssocInv /\ [Next]_vars => AssocInv'
  <2> SUFFICES ASSUME AssocInv, [Next]_vars PROVE AssocInv'
    OBVIOUS
  <2>1. CASE Link      BY <2>1, LinkStep
  <2>2. CASE Put       BY <2>2, PutStep
  <2>3. CASE Del       BY <2>3, DelStep
  <2>4. CASE DelLinked BY <2>4, DelLinkedStep
  <2>5. CASE Drop      BY <2>5, DropStep
  <2>6. CASE UNCHANGED vars
    BY <2>6 DEF AssocInv, MapsOK, Twin, UniqueSec, vars
  <2> QED
    BY <2>1, <2>2, <2>3, <2>4, <2>5, <2>6 DEF Next
<1> QED
  BY AssocInit, <1>1, PTL DEF Spec

(* Both tables keep the shape of their arrays, and the secondary's counter *)
(* never falls below zero although its deletes do not look for the slot.   *)
THEOREM AssocTyped == ASSUME PrimaryApart PROVE Spec => []TypeOK
<1>1. AssocInv => TypeOK
  BY MapsTyped DEF AssocInv, TypeOK
<1> QED
  BY <1>1, AssocInvariant, PTL

(* qmap_put, qmap_del from either side and qmap_drop leave the linked map  *)
(* with the primary's positions, each under the callback's key.            *)
THEOREM SecondaryInStep == ASSUME PrimaryApart PROVE Spec => []InStep
<1>1. AssocInv => InStep
  BY DEF AssocInv, MapsOK, Twin, InStep
<1> QED
  BY <1>1, AssocInvariant, PTL

(* The linked map never has more entries than it counts, so growth keeps   *)
(* an empty slot in it although positions are given back twice.            *)
THEOREM CounterAhead == ASSUME PrimaryApart PROVE Spec => []NeverUndercounted
<1>1. AssocInv => NeverUndercounted
  <2> SUFFICES ASSUME AssocInv PROVE sec.n >= Cardinality(Live(sec))
    BY DEF NeverUndercounted
  <2>1. use \in Uses /\ MapsOK(prim, sec)
    BY DEF AssocInv
  <2>2. CASE ~linked
    <3>1. sec.n = 0 /\ Counted(sec)
      BY <2>1, <2>2, UseFacts, EmptySound DEF MapsOK, Sound, Counted
    <3> QED
      BY <3>1 DEF Counted
  <2>3. CASE linked /\ use.sec.multi
    <3>1. Counted(sec) /\ sec.n \in Nat
      BY <2>1, <2>3, Fields DEF MapsOK, Twin, Counted
    <3> QED
      BY <3>1 DEF Counted
  <2>4. CASE linked /\ ~use.sec.multi
    BY <2>1, <2>4 DEF MapsOK, Twin, Loose
  <2> QED
    BY <2>2, <2>3, <2>4
<1> QED
  BY <1>1, AssocInvariant, PTL

(* A lookup or a cursor on a key of the linked map leads to the entries of *)
(* the primary that have it: all of them, and to no other.                 *)
LEMMA FoundApart ==
    ASSUME AssocInv, use.apart \/ use.sec.multi, linked,
           NEW skey \in SecKeys, NEW read \in Indexes(sec)
    PROVE  Range(LinkedAt(sec, read, skey)) = {q \in Live(prim) : KeyAt(prim, q) = skey}
<1> DEFINE found == {q \in Live(prim) : KeyAt(prim, q) = skey}
<1>1. use \in Uses /\ MapsOK(prim, sec) /\ Twin(prim, sec) /\ skey \in Keys
  BY KeyAtTyped DEF AssocInv, MapsOK
<1>2. /\ Typed(sec) /\ sec.kind.multi = use.sec.multi /\ Live(sec) = Live(prim)
      /\ \A q \in Live(prim) : sec.omap[q] = KeyAt(prim, q)
  BY <1>1, TwinFacts DEF Twin
<1>3. CASE use.sec.multi
  <2>1. Lists(sec, read)
    BY <1>1, <1>3, IndexesReadable DEF Readable
  <2>2. Range(Matches(sec, read, skey)) = EntriesOf(sec, skey)
    BY <1>1, <1>2, <2>1, MatchesExact
  <2>3. LinkedAt(sec, read, skey) = Matches(sec, read, skey)
    BY <1>2, <1>3 DEF LinkedAt
  <2>4. EntriesOf(sec, skey) = found
    BY <1>2 DEF EntriesOf
  <2> QED
    BY <2>2, <2>3, <2>4
<1>4. CASE ~use.sec.multi
  <2> DEFINE p == PosOf(sec, Lookup(sec, skey))
  <2>1. LinkedAt(sec, read, skey) = IF p = MISS THEN <<>> ELSE <<p>>
    BY <1>2, <1>4 DEF LinkedAt
  <2>2. p # MISS => p \in found
    BY <1>2, <1>4, LinkedPosition
  <2>3. ASSUME NEW q \in found PROVE p = q
    <3>1. Homely(sec) /\ q \in Live(sec) /\ sec.omap[q] = skey
      BY <1>1, <1>2, <1>4, <2>3 DEF Twin
    <3>2. sec.map[Home(sec, skey)] = q
      BY <3>1 DEF Homely, AtHome
    <3>3. Stops(sec, skey, 0)
      BY <3>1, <3>2 DEF Stops, Home
    <3>4. Lookup(sec, skey) = Home(sec, skey) /\ Home(sec, skey) \in Slots(sec)
      BY <1>1, <1>2, <3>3, LookupAtHome, ProbeInSlots, 0 \in Nat DEF Home
    <3> QED
      BY <3>2, <3>4, Sentinels DEF PosOf, Slots, MISS
  <2>4. \A q \in found : q # MISS
    BY <1>1, PrimFacts, Sentinels DEF MapsOK
  <2> HIDE DEF p
  <2>5. CASE p = MISS
    <3>1. found = {}
      BY <2>3, <2>4, <2>5
    <3>2. Range(<<>>) = {}
      BY DEF Range
    <3> QED
      BY <2>1, <2>5, <3>1, <3>2
  <2>6. CASE p # MISS
    <3>1. found = {p}
      BY <2>2, <2>3, <2>6
    <3>2. Range(<<p>>) = {p}
      BY DEF Range
    <3> QED
      BY <2>1, <2>6, <3>1, <3>2
  <2> QED
    BY <2>5, <2>6
<1> QED
  BY <1>3, <1>4

(* The linked map leads to the entries whose value has the key, when its   *)
(* keys never share a slot or it has an index.                             *)
THEOREM LinkedFound == ASSUME PrimaryApart PROVE Spec => []FindsApart
<1>1. AssocInv => FindsApart
  BY FoundApart DEF FindsApart, FindsLinked
<1> QED
  BY <1>1, AssocInvariant, PTL
=============================================================================
