-------------------------- MODULE MultivalueProofs --------------------------
(***************************************************************************)
(* Proofs about a QM_MULTIVALUE map: its binary searches delimit the runs  *)
(* of equal keys, its index lists its entries whenever it is not marked    *)
(* dirty, and it implements the bag of MultiMap, for every hash function,  *)
(* every set of keys and every order that qsort may give to equal keys.    *)
(***************************************************************************)
EXTENDS Multivalue, TableLemmas

-----------------------------------------------------------------------------

(* The table of a map without associations, at work *)
Stocked(t) ==
    /\ Counted(t)
    /\ t.kind = MultiKind
    /\ LoadBounded(t)
    /\ \A p \in Live(t) : t.vals[p] \in Vals

(* u has one entry more than t, or lost the ones in gone. *)
Gains(t, u, key, val, p) ==
    /\ p \notin Live(t)
    /\ Live(u) = Live(t) \cup {p}
    /\ u.omap[p] = key /\ u.vals[p] = val
    /\ \A q \in Live(t) : u.omap[q] = t.omap[q] /\ u.vals[q] = t.vals[q]

Loses(t, u, gone) ==
    /\ Live(u) = Live(t) \ gone
    /\ \A q \in Live(u) : u.omap[q] = t.omap[q] /\ u.vals[q] = t.vals[q]

LEMMA MultiKindFacts ==
    /\ MultiKind \in Kind
    /\ ~MultiKind.nogrow /\ ~MultiKind.shared /\ MultiKind.multi
BY MultivalueAssumption DEF MultiKind, Kind

LEMMA MakeRoomStocked ==
    ASSUME NEW t, Stocked(t)
    PROVE  LET u == MakeRoom(t)
           IN  /\ Stocked(u) /\ SameEntries(t, u) /\ u.dirty = t.dirty
               /\ (u.n + 1) * 4 < u.m * 3
<1>1. /\ t.n \in Nat /\ t.m \in Nat /\ t.m > 1 /\ Typed(t) /\ Counted(t)
      /\ t.kind = MultiKind /\ ~t.kind.nogrow /\ t.n * 4 < t.m * 3
  BY Fields, MultiKindFacts DEF Stocked, Counted, LoadBounded
<1>2. CASE (t.n + 1) * 4 >= t.m * 3
  <2> DEFINE g == Grow(t)
  <2>1. MakeRoom(t) = g
    BY <1>1, <1>2 DEF MakeRoom
  <2>2. /\ Sound(g) /\ g.m = 2 * t.m /\ g.n = t.n
        /\ g.kind = t.kind /\ SameEntries(t, g)
    BY <1>1, GrowSound
  <2>3. g.dirty = t.dirty
    BY <1>1 DEF Grow, Typed
  <2> HIDE DEF g
  <2>4. (g.n + 1) * 4 < g.m * 3 /\ g.n * 4 < g.m * 3
    BY <1>1, <1>2, <2>2
  <2>5. \A p \in Live(g) : g.vals[p] \in Vals
    BY <2>2 DEF SameEntries, Stocked
  <2>6. Stocked(g)
    BY <1>1, <2>2, <2>4, <2>5 DEF Stocked, Sound, Counted, LoadBounded
  <2> QED
    BY <2>1, <2>2, <2>3, <2>4, <2>6
<1>3. CASE ~((t.n + 1) * 4 >= t.m * 3)
  <2>1. MakeRoom(t) = t
    BY <1>1, <1>3 DEF MakeRoom
  <2>2. SameEntries(t, t)
    BY DEF SameEntries
  <2>3. (t.n + 1) * 4 < t.m * 3
    BY <1>1, <1>3
  <2> QED
    BY <2>1, <2>2, <2>3
<1> QED
  BY <1>2, <1>3

(* A put gains an entry, or is refused and leaves the entries as they are. *)
PutDone(t, u, key, val) ==
    \/ SameEntries(t, u) /\ u.dirty = t.dirty
    \/ u.dirty = TRUE /\ \E p \in Nat : Gains(t, u, key, val, p)

LEMMA PutStocked ==
    ASSUME NEW t, Stocked(t), NEW key \in Keys, NEW val \in Vals
    PROVE  LET u == PutKey(t, key, val, MISS).tab
           IN  Stocked(u) /\ PutDone(t, u, key, val)
<1> DEFINE r == MakeRoom(t)
           id == Lookup(r, key)
           p == IdmNewId(r.idm)
           e == Enter([r EXCEPT !.idm = IdmNew(r.idm), !.n = @ + 1],
                      key, val, p, MISS, id)
           u == e.tab
<1>1. Stocked(r) /\ SameEntries(t, r) /\ r.dirty = t.dirty /\ (r.n + 1) * 4 < r.m * 3
  BY MakeRoomStocked
<1>2. CASE id = MISS
  <2>1. PutKey(t, key, val, MISS).tab = r
    BY <1>2 DEF PutKey
  <2> QED
    BY <1>1, <2>1 DEF PutDone
<1>3. CASE id # MISS
  <2>1. Counted(r) /\ Typed(r) /\ r.kind = MultiKind
    BY <1>1 DEF Stocked, Counted
  <2>2. r.kind.multi /\ ~r.kind.shared
    BY <2>1, MultiKindFacts
  <2>3. PutKey(t, key, val, MISS) = e
    <3>1. r.map[id] = MISS \/ (r.kind.multi /\ MISS # r.map[id])
      BY <2>2
    <3> HIDE DEF r, id
    <3> QED
      BY <1>3, <3>1 DEF PutKey, r, id
  <2>4. id \in Slots(r)
    BY <1>3, <2>1, LookupStops
  <2>5. r.n \in Nat /\ r.m \in Nat /\ r.n < r.m
    BY <1>1, <2>1, Fields
  <2> HIDE DEF r
  <2>6. Counted(u) /\ Added(r, u, key, val, p)
    <3> HIDE DEF id
    <3> QED
      BY <2>1, <2>2, <2>4, <2>5, EnterCounted
  <2> HIDE DEF u, p, e
  <2>7. /\ p \in Slots(r) /\ p \notin Live(r)
        /\ u.m = r.m /\ u.n = r.n + 1 /\ u.kind = r.kind
        /\ Live(u) = Live(r) \cup {p}
        /\ u.omap = [r.omap EXCEPT ![p] = key]
        /\ u.vals = [r.vals EXCEPT ![p] = val]
        /\ u.dirty = TRUE
    BY <2>6 DEF Added
  <2>8. /\ u.omap[p] = key /\ u.vals[p] = val
        /\ \A q \in Live(r) : u.omap[q] = r.omap[q] /\ u.vals[q] = r.vals[q]
    <3>1. /\ r.omap \in [Slots(r) -> Keys \cup {NULL}]
          /\ r.vals \in [Slots(r) -> Vals \cup {NULL}]
          /\ Live(r) \subseteq Slots(r)
      BY <2>1, Fields, LiveFinite
    <3> QED
      BY <2>7, <3>1
  <2>9. p \in Nat
    BY <2>5, <2>7 DEF Slots
  <2>10. Gains(t, u, key, val, p)
    BY <1>1, <2>7, <2>8 DEF Gains, SameEntries
  <2>11. LoadBounded(u)
    BY <1>1, <2>7 DEF LoadBounded
  <2>12. \A q \in Live(u) : u.vals[q] \in Vals
    BY <1>1, <2>7, <2>8 DEF Stocked
  <2>13. Stocked(u)
    BY <2>1, <2>6, <2>7, <2>11, <2>12 DEF Stocked
  <2>14. PutDone(t, u, key, val)
    BY <2>7, <2>9, <2>10 DEF PutDone
  <2>15. PutKey(t, key, val, MISS).tab = u
    BY <2>3 DEF u
  <2> QED
    BY <2>13, <2>14, <2>15
<1> QED
  BY <1>2, <1>3

(* A read leaves everything but the mark. *)
LEMMA ReadStocked ==
    ASSUME NEW t, Stocked(t)
    PROVE  LET u == [t EXCEPT !.dirty = FALSE]
           IN  /\ Stocked(u) /\ SameEntries(t, u) /\ ~u.dirty
               /\ Live(u) = Live(t) /\ u.omap = t.omap /\ u.vals = t.vals
               /\ \A read : Lists(t, read) => Lists(u, read)
<1> DEFINE u == [t EXCEPT !.dirty = FALSE]
<1>1. Typed(t)
  BY DEF Stocked, Counted
<1>2. /\ u.m = t.m /\ u.n = t.n /\ u.map = t.map /\ u.omap = t.omap
      /\ u.vals = t.vals /\ u.idm = t.idm /\ u.kind = t.kind /\ u.dirty = FALSE
  BY <1>1 DEF Typed
<1>3. u = [m |-> t.m, n |-> t.n, map |-> t.map, omap |-> t.omap,
           vals |-> t.vals, idm |-> t.idm, dirty |-> FALSE, kind |-> t.kind]
  <2>1. t = [m |-> t.m, n |-> t.n, map |-> t.map, omap |-> t.omap,
             vals |-> t.vals, idm |-> t.idm, dirty |-> t.dirty, kind |-> t.kind]
    BY <1>1, Eta, Zenon
  <2>2. u = [t EXCEPT !.dirty = FALSE]
    OBVIOUS
  <2> HIDE DEF u
  <2> QED
    BY <2>1, <2>2
<1>4. Slots(u) = Slots(t)
  BY <1>2 DEF Slots
<1>5. Typed(u)
  <2> HIDE DEF u
  <2> QED
    BY <1>1, <1>2, <1>3, <1>4, Fields DEF Typed, Manager
<1> HIDE DEF u
<1>6. Live(u) = Live(t)
  BY <1>2 DEF Live
<1>7. SameEntries(t, u)
  BY <1>2, <1>6 DEF SameEntries
<1>8. Stocked(u)
  BY <1>2, <1>5, <1>6 DEF Stocked, Counted, WithinCapacity, LoadBounded
<1>9. \A read : Lists(t, read) => Lists(u, read)
  BY <1>2, <1>6 DEF Lists
<1> QED
  BY <1>2, <1>6, <1>7, <1>8, <1>9 DEF u

(* A delete loses the entry it names. *)
LEMMA DeleteStocked ==
    ASSUME NEW t, Stocked(t), NEW read, Lists(t, read), NEW p \in Live(t)
    PROVE  LET u == DeleteListed(t, read, p)
           IN  Stocked(u) /\ Loses(t, u, {p}) /\ u.dirty = TRUE
<1> DEFINE u == DeleteListed(t, read, p)
<1>1. Counted(t) /\ t.n \in Nat /\ t.m \in Nat /\ t.n * 4 < t.m * 3 /\ t.kind = MultiKind
  BY Fields DEF Stocked, Counted, LoadBounded
<1>2. Counted(u) /\ Removed(t, u, p)
  BY <1>1, DeleteListedCounted
<1> HIDE DEF u
<1>3. /\ u.m = t.m /\ u.n = t.n - 1 /\ u.kind = t.kind /\ u.dirty = TRUE
      /\ Loses(t, u, {p})
  BY <1>2 DEF Removed, Loses
<1>4. LoadBounded(u)
  BY <1>1, <1>3 DEF LoadBounded
<1>5. \A q \in Live(u) : u.vals[q] \in Vals
  BY <1>3 DEF Loses, Stocked
<1> QED
  BY <1>1, <1>2, <1>3, <1>4, <1>5 DEF Stocked, u

(* A bulk delete loses the key's entries. *)
LEMMA DeleteAllStocked ==
    ASSUME NEW t, Stocked(t), NEW read, Lists(t, read), NEW key \in Keys
    PROVE  LET u == DeleteAll(t, read, key)
           IN  /\ Stocked(u) /\ Loses(t, u, EntriesOf(t, key))
               /\ u = t \/ u.dirty = TRUE
<1> DEFINE ps == Matches(t, read, key)
           E == EntriesOf(t, key)
           t2 == DeletedAll(t, ps)
           A == IF t2.n = 0 THEN [i \in Slots(t) |-> MISS] ELSE Rebuild(t2)
           u == DeleteAll(t, read, key)
           B == [p \in Slots(t) |-> IF p \in Range(ps) THEN NULL ELSE t.omap[p]]
           C == [p \in Slots(t) |-> IF p \in Range(ps) THEN NULL ELSE t.vals[p]]
           i == IdmDelAll(t.idm, ps)
<1>1. /\ Counted(t) /\ Typed(t) /\ t.n \in Nat /\ t.m \in Nat /\ t.m > 1
      /\ t.n * 4 < t.m * 3 /\ t.kind = MultiKind
      /\ t.omap \in [Slots(t) -> Keys \cup {NULL}]
      /\ t.vals \in [Slots(t) -> Vals \cup {NULL}]
      /\ t.idm \in Manager /\ t.idm.last \in Nat /\ t.idm.last <= t.m
      /\ Accounts(t.idm, Live(t)) /\ t.n = Cardinality(Live(t))
      /\ t.kind \in Kind /\ t.kind.hash \in [Keys -> Nat]
  BY Fields DEF Stocked, Counted, LoadBounded, WithinCapacity
<1>2. /\ ps \in Seq(Nat) /\ Len(ps) \in Nat
      /\ Enumerates(ps, Len(ps), E)
      /\ ps = <<>> => E = {}
      /\ Range(ps) = E
      /\ Len(ps) = Cardinality(E)
  BY <1>1, MatchesExact
<1>3. CASE ps = <<>>
  <2>1. u = t
    BY <1>3 DEF DeleteAll
  <2>2. Loses(t, t, E)
    BY <1>2, <1>3 DEF Loses
  <2> QED
    BY <2>1, <2>2
<1>4. CASE ps # <<>>
  <2>1. E \subseteq Live(t) /\ IsFiniteSet(Live(t)) /\ Live(t) \subseteq Slots(t)
    BY <1>1, LiveFinite DEF EntriesOf
  <2>2. /\ i \in Manager
        /\ Accounts(i, Live(t) \ E)
        /\ i.last <= t.idm.last
    <3> HIDE DEF ps, E
    <3>1. ps \in Seq(Live(t))
      <4>1. \A k \in 1 .. Len(ps) : ps[k] \in Live(t)
        BY <1>2, <2>1 DEF Enumerates
      <4>2. ps \in [1 .. Len(ps) -> Live(t)]
        BY <1>2, <4>1, LenProperties
      <4>3. ps \in UNION {[1 .. k -> Live(t)] : k \in Nat}
        BY <1>2, <4>2
      <4> QED
        BY <4>3, SeqDef, Zenon
    <3>2. \A k, l \in 1 .. Len(ps) : ps[k] = ps[l] => k = l
      BY <1>2 DEF Enumerates
    <3>3. {ps[k] : k \in 1 .. Len(ps)} = E
      BY <1>2, RangeEquality, Zenon
    <3>4. /\ i \in Manager
          /\ Accounts(i, Live(t) \ {ps[k] : k \in 1 .. Len(ps)})
          /\ i.last <= t.idm.last
      BY <1>1, <3>1, <3>2, DelAllAccounts
    <3> QED
      BY <3>3, <3>4
  <2>3. /\ IsFiniteSet(Live(t) \ E)
        /\ Cardinality(Live(t) \ E) = t.n - Len(ps)
        /\ t.n - Len(ps) \in Nat
    <3> HIDE DEF ps, E
    <3>1. Live(t) \cap E = E
      BY <2>1
    <3>2. Cardinality(Live(t) \ E) = Cardinality(Live(t)) - Cardinality(E)
      BY <2>1, <3>1, FS_Difference
    <3>3. IsFiniteSet(Live(t) \ E)
      BY <2>1, FS_Subset
    <3> QED
      BY <1>1, <1>2, <3>2, <3>3, FS_CardinalityType
  <2>4. /\ B \in [Slots(t) -> Keys \cup {NULL}]
        /\ C \in [Slots(t) -> Vals \cup {NULL}]
        /\ \A p \in Slots(t) : B[p] = IF p \in E THEN NULL ELSE t.omap[p]
        /\ \A p \in Slots(t) : p \notin E => C[p] = t.vals[p]
    <3> HIDE DEF ps, E
    <3> QED
      BY <1>1, <1>2
  <2>5. t = [m |-> t.m, n |-> t.n, map |-> t.map, omap |-> t.omap,
             vals |-> t.vals, idm |-> t.idm, dirty |-> t.dirty, kind |-> t.kind]
    BY <1>1, Eta, Zenon
  <2>6. t2 = [t EXCEPT !.omap = B, !.vals = C, !.idm = i,
                       !.n = t.n - Len(ps), !.dirty = TRUE]
    <3> HIDE DEF ps
    <3> QED
      BY <1>1 DEF DeletedAll, Typed
  <2>7. u = [t2 EXCEPT !.map = A]
    BY <1>4 DEF DeleteAll
  <2> HIDE DEF A, B, C, i, ps, E, u, t2
  <2>8. t2 = [m |-> t.m, n |-> t.n - Len(ps), map |-> t.map, omap |-> B,
              vals |-> C, idm |-> i, dirty |-> TRUE, kind |-> t.kind]
    BY <2>5, <2>6
  <2>9. u = [m |-> t.m, n |-> t.n - Len(ps), map |-> A, omap |-> B,
             vals |-> C, idm |-> i, dirty |-> TRUE, kind |-> t.kind]
    BY <2>7, <2>8
  <2>10. /\ t2.m = t.m /\ t2.omap = B /\ t2.idm = i /\ t2.kind = t.kind
         /\ u.m = t.m /\ u.omap = B /\ u.idm = i /\ u.kind = t.kind
         /\ u.vals = C /\ u.n = t.n - Len(ps) /\ u.dirty = TRUE /\ u.map = A
         /\ Slots(u) = Slots(t) /\ Slots(t2) = Slots(t)
    BY <2>8, <2>9 DEF Slots
  <2>11. i.last \in Nat
    BY <2>2 DEF Manager
  <2>12. Live(u) = Live(t) \ E
    <3>1. \A q \in 0 .. t.idm.last - 1 : q < t.m => q \in Slots(t)
      BY <1>1 DEF Slots
    <3>2. ASSUME NEW q \in Live(u) PROVE q \in Live(t) \ E
      <4>1. q \in 0 .. i.last - 1 /\ q < t.m /\ B[q] # NULL
        BY <2>10, <3>2 DEF Live
      <4>2. q \in 0 .. t.idm.last - 1 /\ q \in Slots(t)
        BY <1>1, <2>2, <2>11, <3>1, <4>1
      <4>3. q \notin E /\ t.omap[q] # NULL
        BY <2>4, <4>1, <4>2
      <4> QED
        BY <4>1, <4>2, <4>3 DEF Live
    <3>3. ASSUME NEW q \in Live(t) \ E PROVE q \in Live(u)
      <4>1. q \in 0 .. t.idm.last - 1 /\ q < t.m /\ t.omap[q] # NULL
        BY <3>3 DEF Live
      <4>2. B[q] # NULL
        BY <2>4, <3>1, <3>3, <4>1
      <4>3. q \in 0 .. i.last - 1
        BY <2>2, <3>3 DEF Accounts
      <4> QED
        BY <2>10, <4>1, <4>2, <4>3 DEF Live
    <3> QED
      BY <3>2, <3>3
  <2>13. Live(t2) = Live(u)
    BY <2>10 DEF Live
  <2>14. A \in [Slots(t) -> Nat \cup {MISS}]
    <3>1. Shaped(t2)
      BY <1>1, <2>4, <2>10, <2>11 DEF Shaped
    <3>2. Rebuild(t2) \in [Slots(t2) -> Live(t2) \cup {MISS}]
      BY <3>1, RebuildSound
    <3>3. \A p \in Live(t2) : p \in Nat
      BY <1>1, <2>1, <2>12, <2>13 DEF Slots
    <3>4. Rebuild(t2) \in [Slots(t) -> Nat \cup {MISS}]
      BY <2>10, <3>2, <3>3
    <3> QED
      BY <3>4 DEF A
  <2>15. Typed(u)
    BY <1>1, <2>2, <2>3, <2>4, <2>9, <2>10, <2>14 DEF Typed, Manager
  <2>16. WithinCapacity(u)
    BY <1>1, <2>2, <2>10, <2>11 DEF WithinCapacity
  <2>17. Counted(u)
    BY <2>2, <2>3, <2>10, <2>12, <2>15, <2>16 DEF Counted
  <2>18. \A q \in Live(u) : u.omap[q] = t.omap[q] /\ u.vals[q] = t.vals[q]
    BY <2>1, <2>4, <2>10, <2>12
  <2>19. Loses(t, u, E)
    BY <2>12, <2>18 DEF Loses
  <2>20. LoadBounded(u)
    <3>1. (t.n - Len(ps)) * 4 < t.m * 3
      BY <1>1, <1>2, <2>3
    <3> QED
      BY <2>10, <3>1 DEF LoadBounded
  <2>21. \A q \in Live(u) : u.vals[q] \in Vals
    BY <2>12, <2>18 DEF Stocked
  <2>22. Stocked(u)
    BY <1>1, <2>10, <2>17, <2>20, <2>21 DEF Stocked
  <2> QED
    BY <2>10, <2>19, <2>22 DEF u, E
<1> QED
  BY <1>3, <1>4

LEMMA ClearStocked ==
    ASSUME NEW t, t.kind = MultiKind, t.m \in Nat, t.m > 1
    PROVE  LET u == Cleared(t)
           IN  Stocked(u) /\ Live(u) = {} /\ u.dirty = TRUE
<1> DEFINE u == Cleared(t)
<1>1. Sound(u) /\ u.n = 0 /\ u.m = t.m /\ u.kind = MultiKind
  BY EmptySound, MultiKindFacts DEF Cleared
<1>2. u.dirty = TRUE /\ u.idm.last = 0
  BY DEF Cleared, EmptyTable, IdmInit
<1> HIDE DEF u
<1>3. Live(u) = {}
  BY <1>2 DEF Live
<1>4. LoadBounded(u)
  BY <1>1 DEF LoadBounded
<1>5. Stocked(u)
  BY <1>1, <1>3, <1>4 DEF Stocked, Sound, Counted
<1> QED
  BY <1>2, <1>3, <1>5 DEF u

-----------------------------------------------------------------------------

(* What holds in every reachable state and is kept by every call: the      *)
(* index is empty, to be built, or lists the entries.                      *)
MultiInv ==
    /\ Stocked(tab)
    /\ IF tab.dirty THEN order = <<>> ELSE Lists(tab, order)

LEMMA SameLists ==
    ASSUME NEW t, NEW u, SameEntries(t, u), NEW read, Lists(t, read)
    PROVE  Lists(u, read)
BY DEF SameEntries, Lists

(* Whatever index a call reads, it lists the entries. *)
LEMMA ReadsList ==
    ASSUME MultiInv, NEW read \in IndexesRead(tab, order)
    PROVE  Lists(tab, read)
<1>1. Typed(tab)
  BY DEF MultiInv, Stocked, Counted
<1>2. CASE tab.dirty
  BY <1>1, <1>2, OrdersList DEF IndexesRead
<1>3. CASE ~tab.dirty
  BY <1>3 DEF IndexesRead, MultiInv
<1> QED
  BY <1>2, <1>3

LEMMA MultiInit ==
    ASSUME Init
    PROVE  MultiInv
<1> DEFINE t == EmptyTable(InitM, MultiKind)
<1>1. InitM \in Nat /\ InitM > 1
  BY MultivalueAssumption
<1>2. t.m = InitM /\ t.kind = MultiKind /\ Cleared(t) = t
  BY DEF EmptyTable, Cleared
<1>3. Stocked(Cleared(t)) /\ Cleared(t).dirty = TRUE
  <2> HIDE DEF t
  <2> QED
    BY <1>1, <1>2, ClearStocked
<1>4. tab = t /\ order = <<>>
  BY DEF Init
<1> HIDE DEF t
<1> QED
  BY <1>2, <1>3, <1>4 DEF MultiInv

(* What a step does to the entries *)
MultiChange ==
    \/ SameEntries(tab, tab')
    \/ \E key \in Keys, val \in Vals, p \in Nat : Gains(tab, tab', key, val, p)
    \/ \E p \in Live(tab) : Loses(tab, tab', {p})
    \/ \E key \in Keys : Loses(tab, tab', EntriesOf(tab, key))
    \/ Live(tab') = {}

LEMMA PutStep ==
    ASSUME MultiInv, NEW key \in Keys, NEW val \in Vals, Put(key, val)
    PROVE  MultiInv' /\ MultiChange
<1>1. Stocked(tab') /\ PutDone(tab, tab', key, val)
  BY PutStocked DEF MultiInv, Put
<1>2. order' = IF tab'.dirty THEN <<>> ELSE order
  BY DEF Put, Kept
<1>3. CASE SameEntries(tab, tab') /\ tab'.dirty = tab.dirty
  <2>1. ~tab.dirty => Lists(tab', order)
    BY <1>3, SameLists DEF MultiInv
  <2> QED
    BY <1>1, <1>2, <1>3, <2>1 DEF MultiInv, MultiChange
<1>4. CASE tab'.dirty = TRUE /\ \E p \in Nat : Gains(tab, tab', key, val, p)
  <2>1. MultiChange
    BY <1>4, Zenon DEF MultiChange
  <2> QED
    BY <1>1, <1>2, <1>4, <2>1 DEF MultiInv
<1> QED
  BY <1>1, <1>3, <1>4 DEF PutDone

LEMMA ReadStep ==
    ASSUME MultiInv, Read
    PROVE  MultiInv' /\ MultiChange
<1>1. Lists(tab, order')
  BY ReadsList DEF Read
<1>2. Stocked(tab') /\ SameEntries(tab, tab') /\ ~tab'.dirty
  BY ReadStocked DEF MultiInv, Read
<1>3. Lists(tab', order')
  BY <1>1, <1>2, SameLists
<1> QED
  BY <1>2, <1>3 DEF MultiInv, MultiChange

LEMMA DelStep ==
    ASSUME MultiInv, NEW key \in Keys, Del(key)
    PROVE  MultiInv' /\ MultiChange
<1> DEFINE clean == [tab EXCEPT !.dirty = FALSE]
<1>1. PICK read \in IndexesRead(tab, order) :
          /\ tab' = IF FirstOf(tab, read, key) = NoEntry THEN clean
                    ELSE DeleteListed(clean, read, read[FirstOf(tab, read, key)])
          /\ order' = Kept(tab', read)
  BY DEF Del
<1> DEFINE at == FirstOf(tab, read, key)
<1>2. Lists(tab, read) /\ Typed(tab) /\ Stocked(tab)
  BY ReadsList DEF MultiInv, Stocked, Counted
<1>3. /\ Stocked(clean) /\ SameEntries(tab, clean) /\ ~clean.dirty
      /\ Live(clean) = Live(tab) /\ Lists(clean, read)
  BY <1>2, ReadStocked
<1> HIDE DEF clean
<1>4. CASE at = NoEntry
  <2>1. tab' = clean /\ order' = read
    BY <1>1, <1>3, <1>4 DEF Kept
  <2> QED
    BY <1>3, <2>1 DEF MultiInv, MultiChange
<1>5. CASE at # NoEntry
  <2>1. read[at] \in Live(tab)
    <3>1. read[at] \in EntriesOf(tab, key)
      BY <1>2, <1>5, MatchesExact
    <3> QED
      BY <3>1 DEF EntriesOf
  <2> HIDE DEF at
  <2>2. tab' = DeleteListed(clean, read, read[at])
    BY <1>1, <1>5 DEF at
  <2>3. Stocked(tab') /\ Loses(clean, tab', {read[at]}) /\ tab'.dirty = TRUE
    BY <1>3, <2>1, <2>2, DeleteStocked
  <2>4. Loses(tab, tab', {read[at]})
    BY <1>3, <2>3 DEF Loses, SameEntries
  <2>5. order' = <<>>
    BY <1>1, <2>3 DEF Kept
  <2>6. MultiInv'
    BY <2>3, <2>5 DEF MultiInv
  <2>7. MultiChange
    BY <2>1, <2>4, Zenon DEF MultiChange
  <2> QED
    BY <2>6, <2>7
<1> QED
  BY <1>4, <1>5

LEMMA DelAllStep ==
    ASSUME MultiInv, NEW key \in Keys, DelAll(key)
    PROVE  MultiInv' /\ MultiChange
<1> DEFINE clean == [tab EXCEPT !.dirty = FALSE]
<1>1. PICK read \in IndexesRead(tab, order) :
          tab' = DeleteAll(clean, read, key) /\ order' = Kept(tab', read)
  BY DEF DelAll
<1>2. Lists(tab, read) /\ Stocked(tab)
  BY ReadsList DEF MultiInv
<1>3. /\ Stocked(clean) /\ SameEntries(tab, clean) /\ ~clean.dirty
      /\ Live(clean) = Live(tab) /\ clean.omap = tab.omap /\ Lists(clean, read)
  BY <1>2, ReadStocked
<1> HIDE DEF clean
<1>4. /\ Stocked(tab') /\ Loses(clean, tab', EntriesOf(clean, key))
      /\ tab' = clean \/ tab'.dirty = TRUE
  BY <1>1, <1>3, DeleteAllStocked
<1>5. EntriesOf(clean, key) = EntriesOf(tab, key)
  BY <1>3 DEF EntriesOf
<1>6. Loses(tab, tab', EntriesOf(tab, key))
  BY <1>3, <1>4, <1>5 DEF Loses, SameEntries
<1>7. MultiChange
  BY <1>6 DEF MultiChange
<1>8. CASE tab' = clean
  BY <1>1, <1>3, <1>4, <1>7, <1>8 DEF MultiInv, Kept
<1>9. CASE tab'.dirty = TRUE
  BY <1>1, <1>4, <1>7, <1>9 DEF MultiInv, Kept
<1> QED
  BY <1>4, <1>8, <1>9

LEMMA DropStep ==
    ASSUME MultiInv, Drop
    PROVE  MultiInv' /\ MultiChange
<1>1. tab.kind = MultiKind /\ tab.m \in Nat /\ tab.m > 1
  BY Fields DEF MultiInv, Stocked, Counted
<1>2. Stocked(tab') /\ Live(tab') = {} /\ tab'.dirty = TRUE
  BY <1>1, ClearStocked DEF Drop
<1>3. order' = <<>>
  BY DEF Drop
<1> QED
  BY <1>2, <1>3 DEF MultiInv, MultiChange

LEMMA MultiStep ==
    ASSUME MultiInv, [Next]_vars
    PROVE  MultiInv' /\ (MultiChange \/ UNCHANGED tab)
<1>1. CASE UNCHANGED vars
  <2>1. tab' = tab /\ order' = order
    BY <1>1 DEF vars
  <2> QED
    BY <2>1, Zenon DEF MultiInv
<1>2. ASSUME NEW key \in Keys, NEW val \in Vals, Put(key, val)
      PROVE  MultiInv' /\ MultiChange
  BY <1>2, PutStep
<1>3. CASE Read
  BY <1>3, ReadStep
<1>4. ASSUME NEW key \in Keys, Del(key) PROVE MultiInv' /\ MultiChange
  BY <1>4, DelStep
<1>5. ASSUME NEW key \in Keys, DelAll(key) PROVE MultiInv' /\ MultiChange
  BY <1>5, DelAllStep
<1>6. CASE Drop
  BY <1>6, DropStep
<1> QED
  BY <1>1, <1>2, <1>3, <1>4, <1>5, <1>6 DEF Next

(* The inductive invariant of a QM_MULTIVALUE map *)
THEOREM MultiInvariant == Spec => []MultiInv
<1>1. Init => MultiInv
  BY MultiInit
<1>2. MultiInv /\ [Next]_vars => MultiInv'
  BY MultiStep
<1> QED
  BY <1>1, <1>2, PTL DEF Spec

(* The table and the index always hold what they are declared to hold. *)
THEOREM MultiTyped == Spec => []TypeOK
<1>1. MultiInv => TypeOK
  <2>1. <<>> \in Seq(Nat)
    BY EmptySeq
  <2> QED
    BY <2>1 DEF MultiInv, Stocked, Counted, Lists, TypeOK
<1> QED
  BY <1>1, MultiInvariant, PTL

(* Every position issued holds an entry or is free, never both and never   *)
(* beyond the arrays, also after qmap_del_all.                             *)
THEOREM MultiPositions == Spec => []PositionsOK
<1>1. MultiInv => PositionsOK
  BY DEF MultiInv, Stocked, Counted, PositionsOK
<1> QED
  BY <1>1, MultiInvariant, PTL

(* head->n always is the number of entries, duplicates included. *)
THEOREM MultiCounted == Spec => []CountOK
<1>1. MultiInv => CountOK
  BY DEF MultiInv, Stocked, Counted, CountOK
<1> QED
  BY <1>1, MultiInvariant, PTL

(* An index that is not marked dirty always lists every entry once, keys   *)
(* ascending, however qsort orders equal keys.                             *)
THEOREM MultiSorted == Spec => []SortedOK
<1>1. MultiInv => SortedOK
  <2> SUFFICES ASSUME MultiInv, ~tab.dirty PROVE
          /\ Range(order) = Live(tab)
          /\ Len(order) = Cardinality(Live(tab))
          /\ \A i, j \in DOMAIN order : i < j => tab.omap[order[i]] <= tab.omap[order[j]]
    BY DEF SortedOK
  <2>1. Lists(tab, order)
    BY DEF MultiInv
  <2>2. order \in Seq(Nat)
    BY <2>1 DEF Lists
  <2>3. Range(order) = {order[i] : i \in 1 .. Len(order)} /\ DOMAIN order = 1 .. Len(order)
    BY <2>2, RangeEquality, LenProperties
  <2>4. {order[i] : i \in 1 .. Len(order)} = Live(tab)
    <3>1. \A x \in {order[i] : i \in 1 .. Len(order)} : x \in Live(tab)
      BY <2>1 DEF Lists
    <3>2. \A x \in Live(tab) : x \in {order[i] : i \in 1 .. Len(order)}
      BY <2>1 DEF Lists
    <3> QED
      BY <3>1, <3>2, Zenon
  <2> QED
    BY <2>1, <2>3, <2>4 DEF Lists
<1> QED
  BY <1>1, MultiInvariant, PTL

(* The two binary searches always delimit exactly the entries of the key,  *)
(* on every index that a call may read.                                    *)
THEOREM MultiSearched == Spec => []SearchOK
<1>1. MultiInv => SearchOK
  <2> SUFFICES ASSUME MultiInv, NEW key \in Keys, NEW read \in IndexesRead(tab, order)
               PROVE  LET entries == {p \in Live(tab) : tab.omap[p] = key}
                      IN  /\ Range(Matches(tab, read, key)) = entries
                          /\ CountKey(tab, read, key) = Cardinality(entries)
    BY DEF SearchOK
  <2>1. Lists(tab, read) /\ Typed(tab)
    BY ReadsList DEF MultiInv, Stocked, Counted
  <2>2. /\ Range(Matches(tab, read, key)) = EntriesOf(tab, key)
        /\ CountKey(tab, read, key) = Cardinality(EntriesOf(tab, key))
    BY <2>1, MatchesExact
  <2> QED
    BY <2>2 DEF EntriesOf
<1> QED
  BY <1>1, MultiInvariant, PTL

-----------------------------------------------------------------------------
(* The bag of MultiMap that the entries of a table make *)

Held(t, key, val) == {p \in Live(t) : t.omap[p] = key /\ t.vals[p] = val}

BagOf(t) == [key \in Keys |-> [val \in Vals |-> Cardinality(Held(t, key, val))]]

LEMMA HeldFinite ==
    ASSUME NEW t, Typed(t), NEW key, NEW val
    PROVE  /\ IsFiniteSet(Held(t, key, val))
           /\ Cardinality(Held(t, key, val)) \in Nat
<1>1. IsFiniteSet(Live(t)) /\ Held(t, key, val) \in SUBSET Live(t)
  BY LiveFinite DEF Held
<1> QED
  BY <1>1, FS_Subset, FS_CardinalityType

LEMMA BagsEqual ==
    ASSUME NEW t, NEW b, NEW r, b = [k \in Keys |-> [v \in Vals |-> r[k][v]]],
           \A k \in Keys, v \in Vals : Cardinality(Held(t, k, v)) = r[k][v]
    PROVE  BagOf(t) = b
<1>1. \A k \in Keys : [v \in Vals |-> Cardinality(Held(t, k, v))]
                         = [v \in Vals |-> r[k][v]]
  OBVIOUS
<1> QED
  BY <1>1 DEF BagOf

LEMMA BagSame ==
    ASSUME NEW t, NEW u, SameEntries(t, u)
    PROVE  BagOf(u) = BagOf(t)
<1>1. \A k, v : Held(u, k, v) = Held(t, k, v)
  BY DEF SameEntries, Held
<1> QED
  BY <1>1 DEF BagOf

OneMore(b, c, key, val) == c = [b EXCEPT ![key][val] = @ + 1]

LEMMA BagGains ==
    ASSUME NEW t, Typed(t), NEW u, NEW key \in Keys, NEW val \in Vals, NEW p,
           Gains(t, u, key, val, p)
    PROVE  OneMore(BagOf(t), BagOf(u), key, val)
<1> DEFINE b == [BagOf(t) EXCEPT ![key][val] = @ + 1]
<1>1. ASSUME NEW k \in Keys, NEW v \in Vals
      PROVE  Cardinality(Held(u, k, v)) = b[k][v]
  <2>1. IsFiniteSet(Held(t, k, v)) /\ p \notin Held(t, k, v)
    <3>1. p \notin Held(t, k, v)
      BY DEF Gains, Held
    <3> QED
      BY <3>1, HeldFinite
  <2>2. CASE k = key /\ v = val
    <3>1. Held(u, k, v) = Held(t, k, v) \cup {p}
      BY <2>2 DEF Held, Gains
    <3>2. Cardinality(Held(u, k, v)) = Cardinality(Held(t, k, v)) + 1
      BY <2>1, <3>1, FS_AddElement
    <3>3. b[k][v] = Cardinality(Held(t, k, v)) + 1
      BY <2>2 DEF BagOf
    <3> QED
      BY <3>2, <3>3
  <2>3. CASE ~(k = key /\ v = val)
    <3>1. Held(u, k, v) = Held(t, k, v)
      BY <2>3 DEF Held, Gains
    <3>2. b[k][v] = Cardinality(Held(t, k, v))
      BY <2>3 DEF BagOf
    <3> QED
      BY <3>1, <3>2
  <2> QED
    BY <2>2, <2>3
<1>2. b = [k \in Keys |-> [v \in Vals |-> b[k][v]]]
  BY DEF BagOf
<1> HIDE DEF b
<1>3. BagOf(u) = b
  BY <1>1, <1>2, BagsEqual
<1> QED
  BY <1>3 DEF b, OneMore

LEMMA BagLoses ==
    ASSUME NEW t, Typed(t), NEW u, NEW p \in Live(t),
           t.omap[p] \in Keys, t.vals[p] \in Vals, Loses(t, u, {p})
    PROVE  /\ BagOf(t)[t.omap[p]][t.vals[p]] > 0
           /\ BagOf(u) = [BagOf(t) EXCEPT ![t.omap[p]][t.vals[p]] = @ - 1]
<1> DEFINE key == t.omap[p]
           val == t.vals[p]
           b == [BagOf(t) EXCEPT ![key][val] = @ - 1]
<1>0. key \in Keys /\ val \in Vals /\ p \in Held(t, key, val)
  BY DEF Held
<1>1. ASSUME NEW k \in Keys, NEW v \in Vals
      PROVE  Cardinality(Held(u, k, v)) = b[k][v]
  <2>1. IsFiniteSet(Held(t, k, v))
    BY HeldFinite
  <2>2. CASE k = key /\ v = val
    <3>1. Held(u, k, v) = Held(t, k, v) \ {p}
      BY <2>2 DEF Held, Loses
    <3>2. Cardinality(Held(u, k, v)) = Cardinality(Held(t, k, v)) - 1
      BY <1>0, <2>1, <2>2, <3>1, FS_RemoveElement
    <3>3. b[k][v] = Cardinality(Held(t, k, v)) - 1
      BY <2>2 DEF BagOf
    <3> QED
      BY <3>2, <3>3
  <2>3. CASE ~(k = key /\ v = val)
    <3>1. Held(u, k, v) = Held(t, k, v)
      BY <2>3 DEF Held, Loses
    <3>2. b[k][v] = Cardinality(Held(t, k, v))
      BY <2>3 DEF BagOf
    <3> QED
      BY <3>1, <3>2
  <2> QED
    BY <2>2, <2>3
<1>2. b = [k \in Keys |-> [v \in Vals |-> b[k][v]]]
  BY DEF BagOf
<1>3. BagOf(t)[key][val] > 0
  <2>1. Cardinality(Held(t, key, val)) \in Nat /\ Cardinality(Held(t, key, val)) # 0
    BY <1>0, HeldFinite, FS_EmptySet
  <2>2. BagOf(t)[key][val] = Cardinality(Held(t, key, val))
    BY <1>0 DEF BagOf
  <2> QED
    BY <2>1, <2>2
<1> HIDE DEF b
<1>4. BagOf(u) = b
  BY <1>1, <1>2, BagsEqual
<1> QED
  BY <1>3, <1>4 DEF b

LEMMA BagLosesAll ==
    ASSUME NEW t, NEW u, NEW key \in Keys, Loses(t, u, EntriesOf(t, key))
    PROVE  BagOf(u) = [BagOf(t) EXCEPT ![key] = [v \in Vals |-> 0]]
<1> DEFINE b == [BagOf(t) EXCEPT ![key] = [v \in Vals |-> 0]]
<1>1. ASSUME NEW k \in Keys, NEW v \in Vals
      PROVE  Cardinality(Held(u, k, v)) = b[k][v]
  <2>1. CASE k = key
    <3>1. Held(u, k, v) = {}
      BY <2>1 DEF Held, Loses, EntriesOf
    <3> QED
      BY <2>1, <3>1, FS_EmptySet DEF BagOf
  <2>2. CASE k # key
    <3>1. Held(u, k, v) = Held(t, k, v)
      BY <2>2 DEF Held, Loses, EntriesOf
    <3> QED
      BY <2>2, <3>1 DEF BagOf
  <2> QED
    BY <2>1, <2>2
<1>2. b = [k \in Keys |-> [v \in Vals |-> b[k][v]]]
  BY DEF BagOf
<1> HIDE DEF b
<1>3. BagOf(u) = b
  BY <1>1, <1>2, BagsEqual
<1> QED
  BY <1>3 DEF b

LEMMA BagEmpty ==
    ASSUME NEW t, Live(t) = {}
    PROVE  BagOf(t) = [k \in Keys |-> [v \in Vals |-> 0]]
<1>1. \A k, v : Held(t, k, v) = {}
  BY DEF Held
<1> QED
  BY <1>1, FS_EmptySet DEF BagOf

(* A QM_MULTIVALUE map is a bag of values under every key: a put adds one, *)
(* qmap_del takes one and qmap_del_all all of the named key, and no read,  *)
(* rebuild, growth or refused put changes what the entries are.            *)
THEOREM MultiRefines == Spec => ImplementsMultiMap
<1> DEFINE bag == [key \in Keys |-> [val \in Vals |->
                     Cardinality({p \in Live(tab) :
                         tab.omap[p] = key /\ tab.vals[p] = val})]]
<1>0. bag = BagOf(tab) /\ bag' = BagOf(tab')
  BY DEF BagOf, Held
<1>1. Init => MultiDictionary!Init
  <2> SUFFICES ASSUME Init PROVE MultiDictionary!Init
    OBVIOUS
  <2>1. tab.idm.last = 0
    BY DEF Init, EmptyTable, IdmInit
  <2>2. Live(tab) = {}
    BY <2>1 DEF Live
  <2>3. BagOf(tab) = [k \in Keys |-> [v \in Vals |-> 0]]
    BY <2>2, BagEmpty
  <2> QED
    BY <2>3 DEF MultiDictionary!Init, BagOf, Held
<1>2. MultiInv /\ [Next]_vars => [MultiDictionary!Next]_bag
  <2> SUFFICES ASSUME MultiInv, [Next]_vars
               PROVE  MultiDictionary!Next \/ BagOf(tab') = BagOf(tab)
    BY <1>0
  <2>1. Typed(tab) /\ Stocked(tab)
    BY DEF MultiInv, Stocked, Counted
  <2>2. CASE UNCHANGED tab
    BY <2>2
  <2>3. CASE SameEntries(tab, tab')
    BY <2>3, BagSame
  <2>4. CASE \E key \in Keys, val \in Vals, p \in Nat : Gains(tab, tab', key, val, p)
    <3>1. PICK key \in Keys, val \in Vals, p \in Nat : Gains(tab, tab', key, val, p)
      BY <2>4
    <3>2. OneMore(BagOf(tab), BagOf(tab'), key, val)
      BY <2>1, <3>1, BagGains
    <3>3. MultiDictionary!Put
      BY <3>2 DEF MultiDictionary!Put, BagOf, Held, OneMore
    <3> QED
      BY <3>3 DEF MultiDictionary!Next
  <2>5. CASE \E p \in Live(tab) : Loses(tab, tab', {p})
    <3>1. PICK p \in Live(tab) : Loses(tab, tab', {p})
      BY <2>5
    <3>2. tab.omap[p] \in Keys /\ tab.vals[p] \in Vals
      BY <2>1, LiveKeys DEF Stocked
    <3>3. /\ BagOf(tab)[tab.omap[p]][tab.vals[p]] > 0
          /\ BagOf(tab') = [BagOf(tab) EXCEPT ![tab.omap[p]][tab.vals[p]] = @ - 1]
      BY <2>1, <3>1, <3>2, BagLoses
    <3>4. MultiDictionary!Del
      BY <3>2, <3>3 DEF MultiDictionary!Del, BagOf, Held
    <3> QED
      BY <3>4 DEF MultiDictionary!Next
  <2>6. CASE \E key \in Keys : Loses(tab, tab', EntriesOf(tab, key))
    <3>1. PICK key \in Keys : Loses(tab, tab', EntriesOf(tab, key))
      BY <2>6
    <3>2. BagOf(tab') = [BagOf(tab) EXCEPT ![key] = [v \in Vals |-> 0]]
      BY <3>1, BagLosesAll
    <3>3. MultiDictionary!DelAll
      BY <3>2 DEF MultiDictionary!DelAll, BagOf, Held
    <3> QED
      BY <3>3 DEF MultiDictionary!Next
  <2>7. CASE Live(tab') = {}
    <3>1. BagOf(tab') = [k \in Keys |-> [v \in Vals |-> 0]]
      BY <2>7, BagEmpty
    <3>2. MultiDictionary!Drop
      BY <3>1 DEF MultiDictionary!Drop, BagOf, Held
    <3> QED
      BY <3>2 DEF MultiDictionary!Next
  <2>8. MultiChange \/ UNCHANGED tab
    BY MultiStep
  <2> QED
    BY <2>2, <2>3, <2>4, <2>5, <2>6, <2>7, <2>8 DEF MultiChange
<1> QED
  BY <1>1, <1>2, MultiInvariant, PTL
  DEF Spec, ImplementsMultiMap, MultiDictionary!Spec
=============================================================================
