---------------------------- MODULE TableLemmas ----------------------------
(***************************************************************************)
(* What the operations of TableOps do to a sound table.                    *)
(***************************************************************************)
EXTENDS SortedOps, IdmLemmas, FiniteSetTheorems, FunctionTheorems, WellFoundedInduction

(* what every map keeps, and what one without QM_MULTIVALUE keeps also *)
Counted(t) ==
    /\ Typed(t)
    /\ Accounts(t.idm, Live(t))
    /\ WithinCapacity(t)
    /\ t.n = Cardinality(Live(t))

Sound(t) ==
    /\ Typed(t)
    /\ Accounts(t.idm, Live(t))
    /\ WithinCapacity(t)
    /\ t.n = Cardinality(Live(t))
    /\ SlotsPoint(t)

(* every entry of t is one of u, at its position and under its key *)
Retains(t, u) == \A q \in Live(t) : q \in Live(u) /\ u.omap[q] = t.omap[q]

(* the entries of t and of u are the same, at the same positions *)
SameEntries(t, u) ==
    /\ Live(u) = Live(t)
    /\ \A q \in Live(t) : u.omap[q] = t.omap[q] /\ u.vals[q] = t.vals[q]

(* Position p of t is written, perhaps a slot, and nothing else but the    *)
(* bit that marks the sorted index.                                        *)
Written(t, u, key, val, p) ==
    /\ u.m = t.m /\ u.n = t.n /\ u.idm = t.idm /\ u.kind = t.kind
    /\ u.omap = [t.omap EXCEPT ![p] = key]
    /\ u.vals = [t.vals EXCEPT ![p] = val]
    /\ u.dirty = TRUE

(* the slot points to the position *)
Pointed(t, u, p, id) == u.map = [t.map EXCEPT ![id] = p]

(* u is t with a new entry, whatever its slot *)
Added(t, u, key, val, p) ==
    /\ p \in Slots(t) /\ p \notin Live(t)
    /\ u.m = t.m /\ u.n = t.n + 1 /\ u.kind = t.kind
    /\ Live(u) = Live(t) \cup {p}
    /\ u.omap = [t.omap EXCEPT ![p] = key]
    /\ u.vals = [t.vals EXCEPT ![p] = val]
    /\ u.dirty = TRUE

(* u is t with a new entry, or with another value for an old one *)
Entered(t, u, key, val, p, id) ==
    /\ p \in Slots(t) /\ p \notin Live(t) /\ id \in Slots(t)
    /\ u.m = t.m /\ u.kind = t.kind /\ u.idm = IdmNew(t.idm)
    /\ Live(u) = Live(t) \cup {p}
    /\ u.map = [t.map EXCEPT ![id] = p]
    /\ u.omap = [t.omap EXCEPT ![p] = key]
    /\ u.vals = [t.vals EXCEPT ![p] = val]

Replaced(t, u, val, id) ==
    /\ u.m = t.m /\ u.kind = t.kind /\ u.idm = t.idm
    /\ Live(u) = Live(t)
    /\ u.map = t.map /\ u.omap = t.omap
    /\ u.vals = [t.vals EXCEPT ![t.map[id]] = val]

(* u is t without the entry at p, whatever its slot *)
Removed(t, u, p) ==
    /\ u.m = t.m /\ u.n = t.n - 1 /\ u.kind = t.kind
    /\ u.idm = IdmDel(t.idm, p)
    /\ Live(u) = Live(t) \ {p}
    /\ \A q \in Live(u) : u.omap[q] = t.omap[q] /\ u.vals[q] = t.vals[q]
    /\ u.dirty = TRUE

(* u is t without the entry of the slot *)
Deleted(t, u, id) ==
    /\ u.m = t.m /\ u.kind = t.kind /\ u.idm = IdmDel(t.idm, t.map[id])
    /\ Live(u) = Live(t) \ {t.map[id]}
    /\ u.map = [t.map EXCEPT ![id] = MISS]
    /\ \A q \in Live(u) : u.omap[q] = t.omap[q] /\ u.vals[q] = t.vals[q]

(* The probe sequence of every entry's key leads to its slot without       *)
(* meeting an empty one.                                                   *)
Chained(t) == \A p \in Live(t) : \E d \in 0 .. t.m - 1 :
    /\ t.map[Probe(t, t.omap[p], d)] = p
    /\ \A e \in 0 .. d - 1 : t.map[Probe(t, t.omap[p], e)] # MISS

(* It meets only entries at lower positions: so the rebuild leaves it. *)
InOrder(t) == \A p \in Live(t) : \E d \in 0 .. t.m - 1 :
    /\ t.map[Probe(t, t.omap[p], d)] = p
    /\ \A e \in 0 .. d - 1 : \E q \in Live(t) :
          q < p /\ t.map[Probe(t, t.omap[p], e)] = q

(* Every entry is in its home slot, and no two entries share theirs. *)
Home(t, key) == Probe(t, key, 0)
AtHome(t) == \A p \in Live(t) : t.map[Home(t, t.omap[p])] = p
HomesApart(t) == \A p, q \in Live(t) :
    Home(t, t.omap[p]) = Home(t, t.omap[q]) => p = q

(* the fields of a table, as facts *)
LEMMA Fields ==
    ASSUME NEW t, Typed(t)
    PROVE  /\ t.m \in Nat /\ t.m > 1
           /\ t.n \in Nat
           /\ t.map \in [Slots(t) -> Nat \cup {MISS}]
           /\ t.omap \in [Slots(t) -> Keys \cup {NULL}]
           /\ t.vals \in [Slots(t) -> Vals \cup {NULL}]
           /\ t.idm \in Manager
           /\ t.idm.last \in Nat
           /\ t.dirty \in BOOLEAN
           /\ t.kind \in Kind
           /\ t.kind.nogrow \in BOOLEAN
           /\ t.kind.hash \in [Keys -> Nat]
  BY DEF Typed, Manager, Kind

(* a table is the record of its fields *)
LEMMA Eta ==
    ASSUME NEW t, Typed(t)
    PROVE  t = [m |-> t.m, n |-> t.n, map |-> t.map, omap |-> t.omap,
                vals |-> t.vals, idm |-> t.idm, dirty |-> t.dirty, kind |-> t.kind]
<1> DEFINE A == Nat \ {0, 1}
           B == [Slots(t) -> Nat \cup {MISS}]
           C == [Slots(t) -> Keys \cup {NULL}]
           D == [Slots(t) -> Vals \cup {NULL}]
           E == [free : Seq(Nat), last : Nat]
<1>1. t \in [m : A, n : Nat, map : B, omap : C, vals : D, idm : E,
              dirty : BOOLEAN, kind : Kind]
  BY DEF Typed
<1> HIDE DEF A, B, C, D, E
<1> QED
  BY <1>1

LEMMA Sentinels ==
    /\ NULL \notin Keys /\ NULL \notin Vals /\ MISS \notin Nat
    /\ \A k \in Keys : k # NULL
  BY TableAssumption DEF NULL, MISS

LEMMA ProbeInSlots ==
    ASSUME NEW t, Typed(t), NEW key \in Keys, NEW d \in Nat
    PROVE  Probe(t, key, d) \in Slots(t)
<1>1. t.kind.hash[key] + d \in Nat /\ t.m \in Nat /\ t.m > 0
  BY TableAssumption, Fields
<1> QED
  BY <1>1 DEF Probe, Slots

(* qmap_id_hash returns a slot that is empty or holds the key, or QM_MISS. *)
LEMMA LookupStops ==
    ASSUME NEW t, Typed(t), NEW key \in Keys, Lookup(t, key) # MISS
    PROVE  LET id == Lookup(t, key)
           IN  /\ id \in Slots(t)
               /\ t.map[id] = MISS \/ t.omap[t.map[id]] = key
<1> DEFINE stops == {d \in 0 .. t.m - 1 : Stops(t, key, d)}
<1>1. stops # {} /\ stops \subseteq Nat
  BY DEF Lookup
<1>2. Min(stops) \in stops
  BY <1>1, MinIsLeast
<1>3. Lookup(t, key) = Probe(t, key, Min(stops))
  BY <1>1 DEF Lookup
<1> HIDE DEF stops
<1>4. Min(stops) \in Nat /\ Stops(t, key, Min(stops))
  BY <1>2 DEF stops
<1> QED
  BY <1>3, <1>4, ProbeInSlots DEF Stops

LEMMA SlotsFinite ==
    ASSUME NEW t, Typed(t)
    PROVE  IsFiniteSet(Slots(t)) /\ Cardinality(Slots(t)) = t.m
<1> DEFINE m == t.m
<1>1. m \in Nat
  BY Fields
<1> HIDE DEF m
<1>2. IsFiniteSet(0 .. m - 1) /\ Cardinality(0 .. m - 1) = m
  BY <1>1, FS_Interval
<1> QED
  BY <1>2 DEF Slots, m

LEMMA LiveFinite ==
    ASSUME NEW t, Typed(t)
    PROVE  /\ Live(t) \subseteq 0 .. t.idm.last - 1
           /\ Live(t) \subseteq Slots(t)
           /\ IsFiniteSet(Live(t))
           /\ Cardinality(Live(t)) \in Nat
<1>1. Live(t) \subseteq 0 .. t.idm.last - 1 /\ Live(t) \subseteq Slots(t)
  BY Fields DEF Live, Slots
<1>2. IsFiniteSet(0 .. t.idm.last - 1)
  <2> DEFINE last == t.idm.last
  <2>1. last \in Nat
    BY Fields
  <2> HIDE DEF last
  <2>2. IsFiniteSet(0 .. last - 1)
    BY <2>1, FS_Interval
  <2> QED
    BY <2>2 DEF last
<1>3. IsFiniteSet(Live(t))
  BY <1>1, <1>2, FS_Subset
<1> QED
  BY <1>1, <1>3, FS_CardinalityType

-----------------------------------------------------------------------------
(* Probe sequences visit every slot. *)

LEMMA ModUnique ==
    ASSUME NEW m \in Nat, m > 0, NEW q \in Int, NEW r \in 0 .. m - 1
    PROVE  (q * m + r) % m = r
  OBVIOUS

LEMMA DivMod ==
    ASSUME NEW m \in Nat, m > 0, NEW h \in Nat
    PROVE  /\ h \div m \in Int
           /\ h % m \in 0 .. m - 1
           /\ h = (h \div m) * m + (h % m)
  OBVIOUS

LEMMA ProbeReaches ==
    ASSUME NEW m \in Nat, m > 0, NEW h \in Nat, NEW i \in 0 .. m - 1
    PROVE  \E d \in 0 .. m - 1 : (h + d) % m = i
<1> DEFINE r == h % m
           q == h \div m
<1>1. q \in Int /\ r \in 0 .. m - 1 /\ h = q * m + r
  BY DivMod
<1> HIDE DEF q, r
<1>2. CASE i >= r
  <2>1. i - r \in 0 .. m - 1 /\ h + (i - r) = q * m + i
    BY <1>1, <1>2
  <2>2. (h + (i - r)) % m = i
    BY <1>1, <2>1, ModUnique
  <2> QED
    BY <2>1, <2>2
<1>3. CASE i < r
  <2>1. /\ i - r + m \in 0 .. m - 1
        /\ q + 1 \in Int
        /\ h + (i - r + m) = (q + 1) * m + i
    BY <1>1, <1>3
  <2>2. ((q + 1) * m + i) % m = i
    BY <2>1, ModUnique
  <2> QED
    BY <2>1, <2>2
<1> QED
  BY <1>1, <1>2, <1>3

-----------------------------------------------------------------------------
(* The rebuild of the slots, a recursion over the positions. *)

(* what the rebuild needs to know of a table *)
Shaped(t) ==
    /\ t.m \in Nat /\ t.m > 1
    /\ t.omap \in [Slots(t) -> Keys \cup {NULL}]
    /\ t.kind.hash \in [Keys -> Nat]
    /\ t.idm.last \in Nat

LEMMA ShapedFacts ==
    ASSUME NEW t, Shaped(t)
    PROVE  /\ Live(t) \subseteq Slots(t) /\ Live(t) \subseteq 0 .. t.idm.last - 1
           /\ IsFiniteSet(Slots(t)) /\ Cardinality(Slots(t)) = t.m
           /\ IsFiniteSet(Live(t))
           /\ \A p \in Live(t) : t.omap[p] \in Keys
           /\ \A key \in Keys, d \in Nat : Probe(t, key, d) \in Slots(t)
<1>1. Live(t) \subseteq Slots(t) /\ Live(t) \subseteq 0 .. t.idm.last - 1
  BY DEF Live, Slots, Shaped
<1>2. IsFiniteSet(Slots(t)) /\ Cardinality(Slots(t)) = t.m
  <2> DEFINE m == t.m
  <2>1. m \in Nat
    BY DEF Shaped
  <2> HIDE DEF m
  <2>2. IsFiniteSet(0 .. m - 1) /\ Cardinality(0 .. m - 1) = m
    BY <2>1, FS_Interval
  <2> QED
    BY <2>2 DEF Slots, m
<1>3. IsFiniteSet(Live(t))
  BY <1>1, <1>2, FS_Subset
<1>4. \A p \in Live(t) : t.omap[p] \in Keys
  BY <1>1 DEF Shaped, Live
<1>5. ASSUME NEW key \in Keys, NEW d \in Nat PROVE Probe(t, key, d) \in Slots(t)
  <2>1. t.kind.hash[key] + d \in Nat /\ t.m \in Nat /\ t.m > 0
    BY DEF Shaped
  <2> QED
    BY <2>1 DEF Probe, Slots
<1> QED
  BY <1>1, <1>2, <1>3, <1>4, <1>5

(* What is true of the slots given to the positions below n: they are the  *)
(* first ones free in their probe sequences when their turn came.          *)
Given(t, n, slot) ==
    /\ slot \in [0 .. t.idm.last - 1 -> Slots(t) \cup {MISS}]
    /\ \A p \in 0 .. t.idm.last - 1 : slot[p] # MISS <=> p < n /\ p \in Live(t)
    /\ \A p, q \in Live(t) : p < n /\ slot[p] = slot[q] => p = q
    /\ \A p \in Live(t) : p < n =>
          \E d \in 0 .. t.m - 1 :
              /\ slot[p] = Probe(t, t.omap[p], d)
              /\ \A e \in 0 .. d - 1 : \E q \in Live(t) :
                    q < p /\ slot[q] = Probe(t, t.omap[p], e)

NextGiven(t, n, slot) ==
    IF n - 1 \notin Live(t) THEN slot
    ELSE [slot EXCEPT ![n - 1] = FirstFree(t, t.omap[n - 1], Range(slot))]

LEMMA FreeSlotLeft ==
    ASSUME NEW t, Shaped(t), NEW n \in 1 .. t.idm.last, NEW slot,
           Given(t, n - 1, slot), n - 1 \in Live(t)
    PROVE  \E d \in 0 .. t.m - 1 : Probe(t, t.omap[n - 1], d) \notin Range(slot)
<1> DEFINE p == n - 1
           at == [i \in Slots(t) |-> CHOOSE q \in Live(t) \ {p} : slot[q] = i]
<1> SUFFICES ASSUME \A d \in 0 .. t.m - 1 : Probe(t, t.omap[p], d) \in Range(slot)
             PROVE  FALSE
  OBVIOUS
<1>1. p \in Nat /\ t.omap[p] \in Keys /\ t.m \in Nat /\ t.m > 1
      /\ t.kind.hash[t.omap[p]] \in Nat
  BY ShapedFacts DEF Shaped
<1>2. p \in 0 .. t.idm.last - 1 /\ slot[p] = MISS
  BY <1>1 DEF Given, Shaped
<1>3. ASSUME NEW i \in Slots(t) PROVE \E q \in Live(t) \ {p} : slot[q] = i
  <2>1. PICK d \in 0 .. t.m - 1 : (t.kind.hash[t.omap[p]] + d) % t.m = i
    <3> DEFINE h == t.kind.hash[t.omap[p]]
               m == t.m
    <3>1. h \in Nat /\ m \in Nat /\ m > 0 /\ i \in 0 .. m - 1
      BY <1>1 DEF Slots
    <3> HIDE DEF h, m
    <3>2. \E d \in 0 .. m - 1 : (h + d) % m = i
      BY <3>1, ProbeReaches
    <3> QED
      BY <3>2 DEF h, m
  <2>2. i \in Range(slot)
    BY <2>1 DEF Probe
  <2>3. PICK q \in 0 .. t.idm.last - 1 : slot[q] = i
    BY <2>2 DEF Range, Given
  <2>4. i # MISS
    BY DEF Slots, MISS
  <2> QED
    BY <1>2, <2>3, <2>4 DEF Given
<1>4. /\ at \in [Slots(t) -> Live(t) \ {p}]
      /\ \A i \in Slots(t) : slot[at[i]] = i
  BY <1>3
<1> HIDE DEF at
<1>5. /\ IsFiniteSet(Live(t) \ {p})
      /\ Cardinality(Live(t) \ {p}) < Cardinality(Slots(t))
  <2>1. /\ IsFiniteSet(Live(t) \ {p})
        /\ Cardinality(Live(t) \ {p}) = Cardinality(Live(t)) - 1
    BY ShapedFacts, FS_RemoveElement
  <2>2. Cardinality(Live(t)) <= Cardinality(Slots(t))
    BY ShapedFacts, FS_Subset
  <2> QED
    BY <2>1, <2>2, <1>1, ShapedFacts, FS_CardinalityType
<1>6. PICK i, j \in Slots(t) : i # j /\ at[i] = at[j]
  BY <1>4, <1>5, ShapedFacts, FS_PigeonHole
<1> QED
  BY <1>4, <1>6

LEMMA FreeSlotTaken ==
    ASSUME NEW t, Shaped(t), NEW n \in 1 .. t.idm.last, NEW slot,
           Given(t, n - 1, slot)
    PROVE  Given(t, n, NextGiven(t, n, slot))
<1>1. CASE n - 1 \notin Live(t)
  <2>1. NextGiven(t, n, slot) = slot
    BY <1>1 DEF NextGiven
  <2>2. \A p \in 0 .. t.idm.last - 1 :
            p < n /\ p \in Live(t) <=> p < n - 1 /\ p \in Live(t)
    BY <1>1
  <2>3. \A p \in Live(t) : p \in 0 .. t.idm.last - 1 /\ p \in Nat
    BY ShapedFacts
  <2>4. \A p \in Live(t) : p < n <=> p < n - 1
    BY <2>2, <2>3
  <2> QED
    BY <2>1, <2>2, <2>4 DEF Given
<1>2. CASE n - 1 \in Live(t)
  <2> DEFINE p == n - 1
             key == t.omap[p]
             free == {d \in 0 .. t.m - 1 : Probe(t, key, d) \notin Range(slot)}
             d == Min(free)
             new == [slot EXCEPT ![p] = Probe(t, key, d)]
  <2>1. p \in Live(t) /\ key \in Keys /\ t.m \in Nat /\ p \in 0 .. t.idm.last - 1
    BY <1>2, ShapedFacts DEF Shaped
  <2>2. NextGiven(t, n, slot) = new
    BY <1>2 DEF NextGiven, FirstFree
  <2>3. d \in free /\ \A e \in free : d <= e
    <3>1. free # {}
      BY <1>2, FreeSlotLeft
    <3>2. free \subseteq Nat
      BY <2>1
    <3> HIDE DEF free
    <3> QED
      BY <3>1, <3>2, MinIsLeast
  <2>4. d \in 0 .. t.m - 1 /\ Probe(t, key, d) \notin Range(slot)
    BY <2>3
  <2>5. ASSUME NEW e \in 0 .. d - 1 PROVE Probe(t, key, e) \in Range(slot)
    <3>1. e \in 0 .. t.m - 1 /\ ~(d <= e)
      BY <2>1, <2>4
    <3>2. e \notin free
      BY <2>3, <3>1
    <3> QED
      BY <3>1, <3>2
  <2>6. Probe(t, key, d) \in Slots(t) /\ \A e \in 0 .. d - 1 : Probe(t, key, e) \in Slots(t)
    BY <2>1, <2>4, ShapedFacts
  <2> HIDE DEF key, d, free
  <2>7. /\ new \in [0 .. t.idm.last - 1 -> Slots(t) \cup {MISS}]
        /\ new[p] = Probe(t, key, d)
        /\ \A q \in 0 .. t.idm.last - 1 : q # p => new[q] = slot[q]
    BY <2>1, <2>6 DEF Given
  <2> HIDE DEF new
  <2>8. \A i \in Slots(t) : i # MISS
    BY DEF Slots, MISS
  <2>9. \A q \in 0 .. t.idm.last - 1 : new[q] # MISS <=> q < n /\ q \in Live(t)
    <3>1. \A q \in 0 .. t.idm.last - 1 : q # p => (q < n <=> q < n - 1)
      OBVIOUS
    <3> QED
      BY <2>1, <2>6, <2>7, <2>8, <3>1 DEF Given
  <2>10. \A q \in Live(t) : q \in 0 .. t.idm.last - 1 /\ (q # p => new[q] = slot[q])
    BY <2>7, ShapedFacts
  <2>11. \A q \in 0 .. t.idm.last - 1 : slot[q] \in Range(slot)
    BY DEF Range, Given
  <2>12. ASSUME NEW q \in Live(t), NEW r \in Live(t), q < n, new[q] = new[r] PROVE q = r
    <3>1. r < n
      BY <2>9, <2>10, <2>12
    <3>2. \A x \in Live(t) : x # p => new[x] # new[p]
      BY <2>4, <2>7, <2>10, <2>11
    <3>3. CASE q # p /\ r # p
      <4>1. q < n - 1 /\ slot[q] = slot[r]
        BY <2>10, <2>12, <3>3
      <4> QED
        BY <4>1 DEF Given
    <3> QED
      BY <2>12, <3>2, <3>3
  <2>13. ASSUME NEW q \in Live(t), q < n
         PROVE  \E f \in 0 .. t.m - 1 :
                    /\ new[q] = Probe(t, t.omap[q], f)
                    /\ \A e \in 0 .. f - 1 : \E r \in Live(t) :
                          r < q /\ new[r] = Probe(t, t.omap[q], e)
    <3>1. CASE q = p
      <4>1. ASSUME NEW e \in 0 .. d - 1
            PROVE  \E r \in Live(t) : r < p /\ new[r] = Probe(t, key, e)
        <5>1. PICK r \in 0 .. t.idm.last - 1 : slot[r] = Probe(t, key, e)
          BY <2>5 DEF Range, Given
        <5>2. slot[r] # MISS
          BY <2>6, <2>8, <5>1
        <5>3. r < n - 1 /\ r \in Live(t)
          BY <5>1, <5>2 DEF Given
        <5> QED
          BY <2>10, <5>1, <5>3
      <4> QED
        BY <2>4, <2>7, <3>1, <4>1 DEF key
    <3>2. CASE q # p
      <4>1. q < n - 1
        BY <2>10, <2>13, <3>2
      <4>2. PICK f \in 0 .. t.m - 1 :
                /\ slot[q] = Probe(t, t.omap[q], f)
                /\ \A e \in 0 .. f - 1 : \E r \in Live(t) :
                      r < q /\ slot[r] = Probe(t, t.omap[q], e)
        BY <4>1 DEF Given
      <4>3. \A r \in Live(t) : r < q => new[r] = slot[r]
        BY <2>10, <4>1
      <4> QED
        BY <2>10, <3>2, <4>2, <4>3
    <3> QED
      BY <3>1, <3>2
  <2> QED
    BY <2>2, <2>7, <2>9, <2>12, <2>13 DEF Given
<1> QED
  BY <1>1, <1>2

(* Every entry gets a slot in a rebuild. *)
LEMMA SlotsGiven ==
    ASSUME NEW t, Shaped(t)
    PROVE  Given(t, t.idm.last, SlotsAssigned(t))
<1> DEFINE N == t.idm.last
           first == [p \in 0 .. N - 1 |-> MISS]
           A == [0 .. N - 1 -> Slots(t) \cup {MISS}]
           step == [n \in 1 .. N |-> [given \in A |->
                      IF Given(t, n, NextGiven(t, n, given))
                        THEN NextGiven(t, n, given) ELSE given]]
           Rule(f) == [n \in 0 .. N |->
                        LET given == f[n - 1]
                        IN  CASE n = 0 -> first
                              [] n > 0 /\ n - 1 \notin Live(t) -> given
                              [] OTHER -> [given EXCEPT ![n - 1] =
                                  FirstFree(t, t.omap[n - 1], Range(given))]]
           slot == CHOOSE f : f = Rule(f)
<1>1. SlotsAssigned(t) = slot[N]
  BY DEF SlotsAssigned
<1>2. N \in Nat /\ first \in A
  BY DEF Shaped
<1>3. step \in Steps(N, A)
  BY DEF Given, Steps
<1>4. Given(t, 0, first)
  BY <1>2, ShapedFacts DEF Given
<1>5. \A f : Rule(f) = [n \in 0 .. N |-> IF n = 0 THEN first ELSE NextGiven(t, n, f[n - 1])]
  BY DEF NextGiven
<1> HIDE DEF step, first, A, Rule, N
<1>6. PICK g \in [0 .. N -> A] :
          g[0] = first /\ \A n \in 1 .. N : g[n] = step[n][g[n - 1]]
  BY <1>2, <1>3, Recursion DEF Iterations
<1> DEFINE T == {n \in 0 .. N : Given(t, n, g[n])}
<1>7. \A n \in 0 .. N : n \in T
  <2>1. 0 \in T
    BY <1>2, <1>4, <1>6
  <2>2. ASSUME NEW n \in 1 .. N, n - 1 \in T PROVE n \in T
    <3>1. Given(t, n, NextGiven(t, n, g[n - 1]))
      BY <2>2, FreeSlotTaken DEF N
    <3>2. g[n - 1] \in A
      BY <1>2, <1>6
    <3>3. g[n] = NextGiven(t, n, g[n - 1])
      BY <1>6, <3>1, <3>2 DEF step
    <3> QED
      BY <3>1, <3>3
  <2> HIDE DEF T
  <2> QED
    BY <1>2, <2>1, <2>2, Induction
<1>8. \A n \in 1 .. N : g[n] = NextGiven(t, n, g[n - 1])
  <2> SUFFICES ASSUME NEW n \in 1 .. N PROVE g[n] = NextGiven(t, n, g[n - 1])
    OBVIOUS
  <2>1. n - 1 \in T
    BY <1>2, <1>7
  <2>2. Given(t, n, NextGiven(t, n, g[n - 1]))
    BY <2>1, FreeSlotTaken DEF N
  <2>3. g[n - 1] \in A
    BY <1>2, <1>6
  <2> QED
    BY <1>6, <2>2, <2>3 DEF step
<1>9. g = Rule(g)
  <2> DEFINE h == [n \in 0 .. N |-> IF n = 0 THEN first ELSE NextGiven(t, n, g[n - 1])]
  <2>1. \A n \in 0 .. N : g[n] = h[n]
    BY <1>6, <1>8
  <2>2. g = h
    BY <1>6, <2>1
  <2> QED
    BY <1>5, <2>2
<1>10. slot = Rule(slot)
  BY <1>9
<1> HIDE DEF slot
<1> DEFINE U == {n \in 0 .. N : slot[n] = g[n]}
<1>11. \A n \in 0 .. N : n \in U
  <2>0. \A n \in 0 .. N : slot[n] = IF n = 0 THEN first ELSE NextGiven(t, n, slot[n - 1])
    BY <1>5, <1>10
  <2>1. 0 \in U
    BY <1>2, <1>6, <2>0
  <2>2. ASSUME NEW n \in 1 .. N, n - 1 \in U PROVE n \in U
    BY <1>8, <2>0, <2>2
  <2> HIDE DEF U
  <2> QED
    BY <1>2, <2>1, <2>2, Induction
<1>12. N \in T /\ N \in U
  BY <1>2, <1>7, <1>11
<1> QED
  BY <1>1, <1>12 DEF N

(* qmap_rebuild_map leaves no slot that points to anything but an entry    *)
(* and no two slots that point to the same one; every entry gets one.      *)
LEMMA RebuildSound ==
    ASSUME NEW t, Shaped(t)
    PROVE  LET map == Rebuild(t)
           IN  /\ map \in [Slots(t) -> Live(t) \cup {MISS}]
               /\ \A i, j \in Slots(t) :
                     map[i] = map[j] /\ map[i] # MISS => i = j
               /\ \A p \in Live(t) : \E d \in 0 .. t.m - 1 :
                     /\ map[Probe(t, t.omap[p], d)] = p
                     /\ \A e \in 0 .. d - 1 : \E q \in Live(t) :
                           q < p /\ map[Probe(t, t.omap[p], e)] = q
<1> DEFINE slot == SlotsAssigned(t)
<1>0. Given(t, t.idm.last, slot)
  BY SlotsGiven
<1> HIDE DEF slot
<1>1. Rebuild(t) = [i \in Slots(t) |->
                      IF \E p \in Live(t) : slot[p] = i
                        THEN CHOOSE p \in Live(t) : slot[p] = i
                        ELSE MISS]
  BY DEF Rebuild, Slots, slot
<1>2. \A i \in Slots(t) : Rebuild(t)[i] # MISS =>
        Rebuild(t)[i] \in Live(t) /\ slot[Rebuild(t)[i]] = i
  BY <1>1
<1>3. Rebuild(t) \in [Slots(t) -> Live(t) \cup {MISS}]
  BY <1>1
<1>4. \A p \in Live(t) : p \in 0 .. t.idm.last - 1 /\ p < t.idm.last
  BY ShapedFacts DEF Shaped
<1>5. \A p \in Live(t) : slot[p] \in Slots(t)
  BY <1>0, <1>4 DEF Given
<1>6. \A p \in Live(t) : Rebuild(t)[slot[p]] = p
  BY <1>0, <1>1, <1>4, <1>5 DEF Given
<1> DEFINE map == Rebuild(t)
<1> HIDE DEF map
<1>7. ASSUME NEW p \in Live(t)
      PROVE  \E d \in 0 .. t.m - 1 :
                 /\ map[Probe(t, t.omap[p], d)] = p
                 /\ \A e \in 0 .. d - 1 : \E q \in Live(t) :
                       q < p /\ map[Probe(t, t.omap[p], e)] = q
  <2>1. PICK d \in 0 .. t.m - 1 :
            /\ slot[p] = Probe(t, t.omap[p], d)
            /\ \A e \in 0 .. d - 1 : \E q \in Live(t) :
                  q < p /\ slot[q] = Probe(t, t.omap[p], e)
    BY <1>0, <1>4 DEF Given
  <2>2. \A q \in Live(t) : map[slot[q]] = q
    BY <1>6 DEF map
  <2> QED
    BY <2>1, <2>2
<1> QED
  BY <1>2, <1>3, <1>7 DEF map

(* After a rebuild a lookup finds every entry. *)
LEMMA InOrderChained ==
    ASSUME NEW t, InOrder(t)
    PROVE  Chained(t)
<1> SUFFICES ASSUME NEW p \in Live(t)
             PROVE  \E d \in 0 .. t.m - 1 :
                        /\ t.map[Probe(t, t.omap[p], d)] = p
                        /\ \A e \in 0 .. d - 1 : t.map[Probe(t, t.omap[p], e)] # MISS
  BY DEF Chained
<1>1. \A q \in Live(t) : q # MISS
  BY DEF Live, MISS
<1>2. PICK d \in 0 .. t.m - 1 :
          /\ t.map[Probe(t, t.omap[p], d)] = p
          /\ \A e \in 0 .. d - 1 : \E q \in Live(t) :
                q < p /\ t.map[Probe(t, t.omap[p], e)] = q
  BY DEF InOrder
<1> QED
  BY <1>1, <1>2

(* A rebuild puts entries that do not share home slots there. *)
LEMMA InOrderAtHome ==
    ASSUME NEW t, Shaped(t), SlotsPoint(t), InOrder(t), HomesApart(t)
    PROVE  AtHome(t)
<1> DEFINE N == t.idm.last
           T == {n \in 0 .. N : \A p \in Live(t) :
                    p < n => t.map[Home(t, t.omap[p])] = p}
<1>1. \A p \in Live(t) : p \in 0 .. N - 1
  BY ShapedFacts
<1>2. N \in Nat
  BY DEF Shaped
<1>3. 0 \in T
  BY <1>1, <1>2
<1>4. ASSUME NEW n \in 1 .. N, n - 1 \in T PROVE n \in T
  <2> SUFFICES ASSUME NEW p \in Live(t), p < n
               PROVE  t.map[Home(t, t.omap[p])] = p
    BY <1>2
  <2>1. CASE p < n - 1
    BY <1>4, <2>1
  <2>2. CASE p = n - 1
    <3>1. PICK d \in 0 .. t.m - 1 :
              /\ t.map[Probe(t, t.omap[p], d)] = p
              /\ \A e \in 0 .. d - 1 : \E q \in Live(t) :
                    q < p /\ t.map[Probe(t, t.omap[p], e)] = q
      BY DEF InOrder
    <3>2. CASE d = 0
      BY <3>1, <3>2 DEF Home
    <3>3. CASE d # 0
      <4>1. 0 \in 0 .. d - 1
        BY <3>3 DEF Shaped
      <4>2. PICK q \in Live(t) : q < p /\ t.map[Home(t, t.omap[p])] = q
        BY <3>1, <4>1 DEF Home
      <4>3. t.map[Home(t, t.omap[q])] = q
        BY <1>4, <2>2, <4>2
      <4>4. Home(t, t.omap[q]) \in Slots(t) /\ Home(t, t.omap[p]) \in Slots(t)
        BY ShapedFacts DEF Home
      <4>5. q # MISS /\ q # p
        BY <1>1, <4>2 DEF MISS
      <4>6. Home(t, t.omap[q]) = Home(t, t.omap[p])
        BY <4>2, <4>3, <4>4, <4>5 DEF SlotsPoint
      <4> QED
        BY <4>5, <4>6 DEF HomesApart
    <3> QED
      BY <3>2, <3>3
  <2> QED
    BY <1>1, <2>1, <2>2
<1>5. \A n \in 0 .. N : n \in T
  <2> HIDE DEF T, N
  <2> QED
    BY <1>2, <1>3, <1>4, Induction
<1> QED
  BY <1>1, <1>2, <1>5 DEF AtHome

(* A cell with a key is that of an entry. *)
NoStrays(t) == \A p \in Slots(t) : t.omap[p] # NULL => p \in Live(t)

(* qmap_grow doubles the capacity and keeps every entry. *)
LEMMA GrowTyped ==
    ASSUME NEW t, Typed(t), WithinCapacity(t)
    PROVE  LET g == Grow(t)
           IN  /\ Typed(g) /\ WithinCapacity(g) /\ SlotsPoint(g)
               /\ g.m = 2 * t.m /\ g.n = t.n /\ g.idm = t.idm
               /\ g.kind = t.kind
               /\ Live(g) = Live(t)
               /\ Retains(t, g) /\ SameEntries(t, g)
               /\ InOrder(g) /\ EntriesSlotted(g)
               /\ NoStrays(t) => NoStrays(g)
<1>1. Typed(t) /\ WithinCapacity(t)
  OBVIOUS
<1> DEFINE t2 == [t EXCEPT !.m = 2 * t.m,
                           !.omap = Doubled(t.omap, t.m),
                           !.vals = Doubled(t.vals, t.m)]
           g == [t2 EXCEPT !.map = Rebuild(t2)]
<1>2. Grow(t) = g
  BY DEF Grow
<1>3. /\ t2.m = 2 * t.m /\ t2.n = t.n /\ t2.idm = t.idm /\ t2.kind = t.kind
      /\ t2.omap = Doubled(t.omap, t.m)
      /\ t2.vals = Doubled(t.vals, t.m)
  BY <1>1 DEF Typed
<1>4. g = [m |-> 2 * t.m, n |-> t.n, map |-> Rebuild(t2),
           omap |-> Doubled(t.omap, t.m), vals |-> Doubled(t.vals, t.m),
           idm |-> t.idm, dirty |-> t.dirty, kind |-> t.kind]
  <2>1. t2 = [m |-> 2 * t.m, n |-> t.n, map |-> t.map,
              omap |-> Doubled(t.omap, t.m), vals |-> Doubled(t.vals, t.m),
              idm |-> t.idm, dirty |-> t.dirty, kind |-> t.kind]
    <3> DEFINE a == Doubled(t.omap, t.m)
               b == Doubled(t.vals, t.m)
    <3> HIDE DEF a, b
    <3>1. t2 = [t EXCEPT !.m = 2 * t.m, !.omap = a, !.vals = b]
      BY DEF a, b
    <3> HIDE DEF t2
    <3>2. t = [m |-> t.m, n |-> t.n, map |-> t.map, omap |-> t.omap,
               vals |-> t.vals, idm |-> t.idm, dirty |-> t.dirty, kind |-> t.kind]
      BY <1>1, Eta, Zenon
    <3>3. t2 = [m |-> 2 * t.m, n |-> t.n, map |-> t.map, omap |-> a,
                vals |-> b, idm |-> t.idm, dirty |-> t.dirty, kind |-> t.kind]
      BY <3>1, <3>2
    <3> QED
      BY <3>3 DEF a, b
  <2> HIDE DEF t2
  <2> QED
    BY <2>1
<1> HIDE DEF t2, g
<1>5. /\ g.m = 2 * t.m /\ g.n = t.n /\ g.idm = t.idm /\ g.map = Rebuild(t2)
      /\ g.kind = t.kind
      /\ g.omap = Doubled(t.omap, t.m) /\ g.vals = Doubled(t.vals, t.m)
  BY <1>4
<1>6. /\ Slots(t2) = 0 .. 2 * t.m - 1
      /\ Slots(g) = 0 .. 2 * t.m - 1
      /\ 2 * t.m \in Nat \ {0, 1}
  BY <1>1, <1>3, <1>5, Fields DEF Slots
<1>7. /\ Doubled(t.omap, t.m) \in [Slots(g) -> Keys \cup {NULL}]
      /\ Doubled(t.vals, t.m) \in [Slots(g) -> Vals \cup {NULL}]
      /\ \A p \in Slots(t) : /\ Doubled(t.omap, t.m)[p] = t.omap[p]
                            /\ Doubled(t.vals, t.m)[p] = t.vals[p]
      /\ \A p \in 0 .. 2 * t.m - 1 : p < t.m => p \in Slots(t)
      /\ \A p \in Slots(t) : p \in 0 .. 2 * t.m - 1 /\ p < t.m
  BY <1>1, <1>6, Fields, SMTT(30) DEF Doubled, Slots
<1>8. Live(t2) = Live(t) /\ Live(g) = Live(t)
  <2>1. t.idm.last <= t.m /\ t.idm.last \in Nat /\ t.m \in Nat
    BY <1>1, Fields DEF WithinCapacity
  <2>2. \A p \in 0 .. t.idm.last - 1 : p \in Slots(t) /\ p < 2 * t.m /\ p < t.m
    BY <2>1 DEF Slots
  <2> QED
    BY <1>3, <1>5, <1>7, <2>2 DEF Live
<1>9. /\ g.map \in [Slots(g) -> Live(g) \cup {MISS}]
      /\ \A i, j \in Slots(g) : g.map[i] = g.map[j] /\ g.map[i] # MISS => i = j
      /\ InOrder(g)
  <2>1. Shaped(t2)
    BY <1>1, <1>3, <1>6, <1>7, Fields DEF Shaped
  <2>2. \A key, d : Probe(t2, key, d) = Probe(g, key, d)
    BY <1>3, <1>5 DEF Probe
  <2>3. \A p \in Live(g) : \E d \in 0 .. g.m - 1 :
            /\ g.map[Probe(t2, g.omap[p], d)] = p
            /\ \A e \in 0 .. d - 1 : \E q \in Live(g) :
                  q < p /\ g.map[Probe(t2, g.omap[p], e)] = q
    BY <1>3, <1>5, <1>8, <2>1, RebuildSound
  <2>4. \A p \in Live(g) : \E d \in 0 .. g.m - 1 :
            /\ g.map[Probe(g, g.omap[p], d)] = p
            /\ \A e \in 0 .. d - 1 : \E q \in Live(g) :
                  q < p /\ g.map[Probe(g, g.omap[p], e)] = q
    <3> SUFFICES ASSUME NEW p \in Live(g)
                 PROVE  \E d \in 0 .. g.m - 1 :
                            /\ g.map[Probe(g, g.omap[p], d)] = p
                            /\ \A e \in 0 .. d - 1 : \E q \in Live(g) :
                                  q < p /\ g.map[Probe(g, g.omap[p], e)] = q
      OBVIOUS
    <3>1. PICK d \in 0 .. g.m - 1 :
              /\ g.map[Probe(t2, g.omap[p], d)] = p
              /\ \A e \in 0 .. d - 1 : \E q \in Live(g) :
                    q < p /\ g.map[Probe(t2, g.omap[p], e)] = q
      BY <2>3
    <3>2. /\ Probe(g, g.omap[p], d) = Probe(t2, g.omap[p], d)
          /\ \A e \in 0 .. d - 1 : Probe(g, g.omap[p], e) = Probe(t2, g.omap[p], e)
      BY <2>2
    <3> QED
      BY <3>1, <3>2
  <2>5. /\ g.map \in [Slots(g) -> Live(g) \cup {MISS}]
        /\ \A i, j \in Slots(g) : g.map[i] = g.map[j] /\ g.map[i] # MISS => i = j
    BY <1>5, <1>6, <1>8, <2>1, RebuildSound
  <2> QED
    BY <2>4, <2>5 DEF InOrder
<1>10. Live(g) \subseteq Nat
  BY <1>1, <1>8, LiveFinite, Fields DEF Slots
<1>11. Typed(g)
  <2>1. g.map \in [Slots(g) -> Nat \cup {MISS}]
    BY <1>9, <1>10
  <2> QED
    BY <1>1, <1>4, <1>5, <1>6, <1>7, <2>1, Fields DEF Typed, Manager
<1>12. SlotsPoint(g)
  BY <1>9 DEF SlotsPoint
<1>13. WithinCapacity(g)
  BY <1>1, <1>5, Fields DEF WithinCapacity
<1>14. Retains(t, g)
  BY <1>1, <1>5, <1>7, <1>8, LiveFinite DEF Retains
<1>15. SameEntries(t, g)
  BY <1>1, <1>5, <1>7, <1>8, LiveFinite DEF SameEntries
<1>16. EntriesSlotted(g)
  <2>1. \A p \in Live(g), d \in Nat : Probe(g, g.omap[p], d) \in Slots(g)
    <3>1. \A p \in Live(g) : g.omap[p] \in Keys
      <4>1. Live(g) \subseteq Slots(g) /\ g.omap \in [Slots(g) -> Keys \cup {NULL}]
        BY <1>11, LiveFinite, Fields
      <4>2. \A p \in Live(g) : g.omap[p] # NULL
        BY DEF Live
      <4> QED
        BY <4>1, <4>2
    <3> QED
      BY <1>11, <3>1, ProbeInSlots
  <2> QED
    BY <1>5, <1>9, <2>1 DEF InOrder, EntriesSlotted
<1>17. ASSUME NoStrays(t) PROVE NoStrays(g)
  <2>1. /\ \A p \in Slots(g) : p >= t.m => g.omap[p] = NULL
        /\ \A p \in Slots(g) : p < t.m => p \in Slots(t)
    BY <1>1, <1>5, <1>6, Fields DEF Doubled, Slots
  <2>2. \A p \in Slots(g) : p < t.m \/ p >= t.m
    BY <1>1, <1>6, Fields
  <2> QED
    BY <1>5, <1>7, <1>8, <1>17, <2>1, <2>2 DEF NoStrays
<1> QED
  BY <1>2, <1>5, <1>8, <1>9, <1>11, <1>12, <1>13, <1>14, <1>15, <1>16, <1>17

LEMMA GrowSound ==
    ASSUME NEW t, Counted(t)
    PROVE  LET g == Grow(t)
           IN  /\ Sound(g)
               /\ g.m = 2 * t.m /\ g.n = t.n /\ g.idm = t.idm
               /\ g.kind = t.kind
               /\ Live(g) = Live(t)
               /\ Retains(t, g) /\ SameEntries(t, g)
               /\ InOrder(g) /\ EntriesSlotted(g)
<1>1. Typed(t) /\ WithinCapacity(t)
  BY DEF Counted
<1> DEFINE g == Grow(t)
<1>2. /\ Typed(g) /\ WithinCapacity(g) /\ SlotsPoint(g)
      /\ g.m = 2 * t.m /\ g.n = t.n /\ g.idm = t.idm /\ g.kind = t.kind
      /\ Live(g) = Live(t) /\ Retains(t, g) /\ SameEntries(t, g)
      /\ InOrder(g) /\ EntriesSlotted(g)
  BY <1>1, GrowTyped
<1> HIDE DEF g
<1>3. Sound(g)
  BY <1>2 DEF Sound, Counted
<1> QED
  BY <1>2, <1>3 DEF g

(* The load test at the start of a put: afterwards a map that may grow has *)
(* room for one more entry within its load, any other is as it was.        *)
LEMMA MakeRoomSound ==
    ASSUME NEW t, Sound(t), ~t.kind.nogrow => LoadBounded(t)
    PROVE  LET u == MakeRoom(t)
           IN  /\ Sound(u)
               /\ u.n = t.n /\ u.idm = t.idm /\ Live(u) = Live(t)
               /\ u.kind = t.kind /\ Retains(t, u) /\ SameEntries(t, u)
               /\ EntriesSlotted(t) => EntriesSlotted(u)
               /\ u = t \/ (InOrder(u) /\ u.m = 2 * t.m)
               /\ t.kind.nogrow => u = t
               /\ ~t.kind.nogrow => (u.n + 1) * 4 < u.m * 3
<1>1. t.n \in Nat /\ t.m \in Nat /\ t.m > 1
  BY Fields DEF Sound
<1>2. CASE ~t.kind.nogrow /\ (t.n + 1) * 4 >= t.m * 3
  <2>1. MakeRoom(t) = Grow(t)
    BY <1>2 DEF MakeRoom
  <2> DEFINE g == Grow(t)
  <2>2. /\ Sound(g) /\ g.m = 2 * t.m /\ g.n = t.n /\ g.idm = t.idm
        /\ g.kind = t.kind /\ Live(g) = Live(t) /\ Retains(t, g)
        /\ SameEntries(t, g) /\ InOrder(g) /\ EntriesSlotted(g)
    <3>1. Counted(t)
      BY DEF Sound, Counted
    <3> QED
      BY <3>1, GrowSound
  <2> HIDE DEF g
  <2>3. (g.n + 1) * 4 < g.m * 3
    BY <1>1, <1>2, <2>2 DEF LoadBounded
  <2> QED
    BY <1>2, <2>1, <2>2, <2>3 DEF g
<1>3. CASE ~(~t.kind.nogrow /\ (t.n + 1) * 4 >= t.m * 3)
  <2>1. MakeRoom(t) = t
    BY <1>3 DEF MakeRoom
  <2>2. Retains(t, t) /\ SameEntries(t, t)
    BY DEF Retains, SameEntries
  <2> QED
    BY <1>1, <1>3, <2>1, <2>2
<1> QED
  BY <1>2, <1>3

(* While there is room, the next position lies within the arrays. *)
LEMMA NextPositionFits ==
    ASSUME NEW t, Counted(t), t.n < t.m
    PROVE  IdmNewId(t.idm) \in Slots(t)
<1>1. /\ t.idm \in Manager /\ t.idm.last \in Nat /\ t.m \in Nat
      /\ t.idm.last <= t.m
      /\ t.n = Cardinality(Live(t))
  BY Fields DEF Counted, WithinCapacity
<1> DEFINE p == IdmNewId(t.idm)
<1>2. /\ p \in Nat
      /\ p < IdmNew(t.idm).last
      /\ t.idm.free = <<>> => Live(t) = 0 .. t.idm.last - 1 /\ p = t.idm.last
      /\ t.idm.free # <<>> => IdmNew(t.idm).last = t.idm.last
  BY <1>1, NewAccounts DEF Counted
<1> HIDE DEF p
<1>3. Cardinality(0 .. t.idm.last - 1) = t.idm.last
  <2> DEFINE last == t.idm.last
  <2>1. last \in Nat
    BY <1>1
  <2> HIDE DEF last
  <2>2. Cardinality(0 .. last - 1) = last
    BY <2>1, FS_Interval
  <2> QED
    BY <2>2 DEF last
<1>4. p < t.m
  BY <1>1, <1>2, <1>3
<1> QED
  BY <1>1, <1>2, <1>4 DEF p, Slots

-----------------------------------------------------------------------------
(* A probe sequence fails only in a full table.                            *)

(* A table with fewer entries than slots has an empty slot. *)
LEMMA EmptySlotExists ==
    ASSUME NEW t, Sound(t), t.n < t.m
    PROVE  \E i \in Slots(t) : t.map[i] = MISS
<1> SUFFICES ASSUME \A i \in Slots(t) : t.map[i] # MISS
             PROVE  FALSE
  OBVIOUS
<1>1. t.m \in Nat /\ t.n = Cardinality(Live(t)) /\ IsFiniteSet(Live(t))
  BY Fields, LiveFinite DEF Sound
<1>2. IsFiniteSet(Slots(t)) /\ Cardinality(Slots(t)) = t.m
  BY SlotsFinite DEF Sound
<1>3. t.map \in [Slots(t) -> Live(t)]
  <2>1. \A i \in Slots(t) : t.map[i] \in Live(t)
    BY DEF Sound, SlotsPoint
  <2> QED
    BY <2>1, Fields DEF Sound
<1>4. PICK i, j \in Slots(t) : i # j /\ t.map[i] = t.map[j]
  BY <1>1, <1>2, <1>3, FS_PigeonHole
<1> QED
  BY <1>4 DEF Sound, SlotsPoint

(* With an empty slot the probe sequence stops. *)
LEMMA LookupStopsAt ==
    ASSUME NEW t, Typed(t), NEW key \in Keys, NEW i \in Slots(t), t.map[i] = MISS
    PROVE  Lookup(t, key) # MISS
<1>2. t.m \in Nat /\ t.m > 0 /\ t.kind.hash[key] \in Nat
  BY Fields, TableAssumption
<1>3. PICK d \in 0 .. t.m - 1 : (t.kind.hash[key] + d) % t.m = i
  BY <1>2, ProbeReaches DEF Slots
<1> DEFINE stops == {e \in 0 .. t.m - 1 : Stops(t, key, e)}
<1>4. d \in stops
  BY <1>3 DEF Stops, Probe
<1>5. Min(stops) \in stops
  <2>1. stops \subseteq Nat /\ stops # {}
    BY <1>4
  <2> HIDE DEF stops
  <2> QED
    BY <2>1, MinIsLeast
<1>6. Lookup(t, key) = Probe(t, key, Min(stops))
  BY <1>4 DEF Lookup
<1>7. Probe(t, key, Min(stops)) \in Slots(t)
  BY <1>5, ProbeInSlots
<1> QED
  BY <1>6, <1>7 DEF Slots, MISS

LEMMA LookupFinds ==
    ASSUME NEW t, Sound(t), t.n < t.m, NEW key \in Keys
    PROVE  Lookup(t, key) # MISS
<1>1. \E i \in Slots(t) : t.map[i] = MISS
  BY EmptySlotExists
<1> QED
  BY <1>1, LookupStopsAt DEF Sound

(* A key whose home slot ends its probe sequence is looked up there. *)
LEMMA LookupAtHome ==
    ASSUME NEW t, Typed(t), NEW key \in Keys, Stops(t, key, 0)
    PROVE  Lookup(t, key) = Home(t, key)
<1> DEFINE stops == {d \in 0 .. t.m - 1 : Stops(t, key, d)}
<1>1. 0 \in stops /\ stops \subseteq Nat
  BY Fields
<1>2. Lookup(t, key) = Probe(t, key, Min(stops))
  BY <1>1 DEF Lookup
<1> HIDE DEF stops
<1>3. Min(stops) \in stops /\ Min(stops) <= 0
  BY <1>1, MinIsLeast
<1>4. ASSUME NEW x \in stops, x <= 0 PROVE x = 0
  BY <1>1, <1>4
<1>5. Min(stops) = 0
  BY <1>3, <1>4
<1> QED
  BY <1>2, <1>5 DEF Home

-----------------------------------------------------------------------------
(* The end of _qmap_put, unless the primary's position is given.           *)

(* the value that is stored at p: a secondary has none of its own *)
Stored(t, val, p) == IF t.kind.shared THEN t.vals[p] ELSE val

(* the slot points to the position, but for an equal key's that is kept *)
Placed(t, u, p, id) ==
    u.map = IF ~t.kind.multi \/ t.map[id] \in {MISS, p}
              THEN [t.map EXCEPT ![id] = p] ELSE t.map

LEMMA StoreAny ==
    ASSUME NEW t, Typed(t), NEW pn, t.kind.shared => pn = MISS,
           NEW key \in Keys, NEW val, t.kind.shared \/ val \in Vals,
           NEW p \in Slots(t), NEW id \in Slots(t),
           NEW u, u = Store(t, key, val, p, pn, id)
    PROVE  /\ Typed(u) /\ Written(t, u, key, Stored(t, val, p), p)
           /\ Placed(t, u, p, id)
<1> DEFINE A == IF ~t.kind.multi \/ t.map[id] \in {MISS, p}
                  THEN [t.map EXCEPT ![id] = p] ELSE t.map
           B == [t.omap EXCEPT ![p] = key]
           C == [t.vals EXCEPT ![p] = Stored(t, val, p)]
<1>1. /\ A \in [Slots(t) -> Nat \cup {MISS}]
      /\ B \in [Slots(t) -> Keys \cup {NULL}]
      /\ C \in [Slots(t) -> Vals \cup {NULL}]
  BY Fields DEF Slots, Stored
<1>2. u = [t EXCEPT !.omap = B, !.vals = C, !.map = A, !.dirty = TRUE]
  BY DEF Store, Stored
<1> HIDE DEF A, B, C
<1>4. t = [m |-> t.m, n |-> t.n, map |-> t.map, omap |-> t.omap,
           vals |-> t.vals, idm |-> t.idm, dirty |-> t.dirty, kind |-> t.kind]
  BY Eta, Zenon
<1>5. /\ u = [m |-> t.m, n |-> t.n, map |-> A, omap |-> B, vals |-> C,
              idm |-> t.idm, dirty |-> TRUE, kind |-> t.kind]
      /\ u.m = t.m /\ u.n = t.n /\ u.idm = t.idm /\ u.kind = t.kind /\ u.map = A /\ u.omap = B
      /\ u.vals = C /\ u.dirty = TRUE
  BY <1>2, <1>4
<1>6. Slots(u) = Slots(t)
  BY <1>5 DEF Slots
<1>7. Typed(u)
  BY <1>1, <1>5, <1>6, Fields DEF Typed, Manager
<1>8. Written(t, u, key, Stored(t, val, p), p)
  BY <1>5 DEF B, C, Written
<1>9. Placed(t, u, p, id)
  BY <1>5 DEF A, Placed
<1> QED
  BY <1>7, <1>8, <1>9

LEMMA StoreFields ==
    ASSUME NEW t, Typed(t), ~t.kind.shared,
           NEW key \in Keys, NEW val \in Vals, NEW pn,
           NEW p \in Slots(t), NEW id \in Slots(t),
           NEW u, u = Store(t, key, val, p, pn, id)
    PROVE  /\ Typed(u) /\ Written(t, u, key, val, p)
           /\ ~t.kind.multi => Pointed(t, u, p, id)
<1>1. /\ Typed(u) /\ Written(t, u, key, Stored(t, val, p), p)
      /\ Placed(t, u, p, id)
  BY StoreAny
<1>2. Stored(t, val, p) = val
  BY DEF Stored
<1> QED
  BY <1>1, <1>2 DEF Placed, Pointed

(* A new entry: its position is the next one of the manager. *)
LEMMA EnterAny ==
    ASSUME NEW t, Counted(t), t.n < t.m, NEW pn, t.kind.shared => pn = MISS,
           NEW key \in Keys, NEW val, t.kind.shared \/ val \in Vals,
           NEW id \in Slots(t)
    PROVE  LET p == IdmNewId(t.idm)
               e == Enter([t EXCEPT !.idm = IdmNew(t.idm), !.n = @ + 1],
                          key, val, p, pn, id)
               u == e.tab
           IN  /\ e.id = id /\ u.idm = IdmNew(t.idm)
               /\ Counted(u) /\ Added(t, u, key, Stored(t, val, p), p)
               /\ Placed(t, u, p, id)
<1> DEFINE p == IdmNewId(t.idm)
           c == [t EXCEPT !.idm = IdmNew(t.idm), !.n = @ + 1]
           u == Store(c, key, val, p, pn, id)
<1>1. /\ Typed(t) /\ t.idm \in Manager /\ t.idm.last \in Nat
      /\ t.m \in Nat /\ t.n \in Nat
      /\ t.idm.last <= t.m /\ Accounts(t.idm, Live(t))
      /\ t.n = Cardinality(Live(t))
  BY Fields DEF Counted, WithinCapacity
<1>2. p \in Slots(t) /\ p \in Nat /\ p < t.m
  BY <1>1, NextPositionFits DEF Slots
<1>3. /\ IdmNew(t.idm) \in Manager
      /\ p \notin Live(t)
      /\ Accounts(IdmNew(t.idm), Live(t) \cup {p})
      /\ IdmNew(t.idm).last \in {t.idm.last, t.idm.last + 1}
      /\ p < IdmNew(t.idm).last
      /\ t.idm.free = <<>> => p = t.idm.last
      /\ t.idm.free # <<>> => IdmNew(t.idm).last = t.idm.last
  BY <1>1, NewAccounts
<1> HIDE DEF p
<1>4. /\ Typed(c)
      /\ c.m = t.m /\ c.n = t.n + 1 /\ c.idm = IdmNew(t.idm)
      /\ c.map = t.map /\ c.omap = t.omap /\ c.vals = t.vals /\ Slots(c) = Slots(t)
      /\ c.kind = t.kind
  <2> DEFINE i == IdmNew(t.idm)
  <2>1. i \in Manager /\ c = [t EXCEPT !.idm = i, !.n = t.n + 1]
    BY <1>1, <1>3 DEF Typed
  <2> HIDE DEF i, c
  <2>2. t = [m |-> t.m, n |-> t.n, map |-> t.map, omap |-> t.omap,
             vals |-> t.vals, idm |-> t.idm, dirty |-> t.dirty, kind |-> t.kind]
    BY <1>1, Eta, Zenon
  <2>3. c = [m |-> t.m, n |-> t.n + 1, map |-> t.map, omap |-> t.omap,
             vals |-> t.vals, idm |-> i, dirty |-> t.dirty, kind |-> t.kind]
    BY <2>1, <2>2
  <2>4. /\ c.m = t.m /\ c.n = t.n + 1 /\ c.idm = i
        /\ c.map = t.map /\ c.omap = t.omap /\ c.vals = t.vals
    BY <2>3
  <2>7. c.kind = t.kind
    BY <2>3
  <2>5. Slots(c) = Slots(t)
    BY <2>4 DEF Slots
  <2>6. Typed(c)
    BY <1>1, <2>1, <2>3, <2>5, Fields DEF Typed, Manager
  <2> QED
    BY <2>4, <2>5, <2>6, <2>7 DEF i
<1> HIDE DEF c
<1>5. /\ Typed(u) /\ u.dirty = TRUE
      /\ u.m = t.m /\ u.n = t.n + 1 /\ u.idm = IdmNew(t.idm) /\ u.kind = t.kind
      /\ u.omap = [t.omap EXCEPT ![p] = key]
      /\ u.vals = [t.vals EXCEPT ![p] = Stored(t, val, p)]
      /\ Placed(t, u, p, id)
  <2>1. /\ p \in Slots(c) /\ id \in Slots(c) /\ Typed(c)
        /\ c.kind.shared => pn = MISS
        /\ c.kind.shared \/ val \in Vals
        /\ u = Store(c, key, val, p, pn, id)
    BY <1>2, <1>4
  <2> HIDE DEF u
  <2>2. /\ Typed(u) /\ Written(c, u, key, Stored(c, val, p), p)
        /\ Placed(c, u, p, id)
    BY <2>1, StoreAny
  <2>3. Stored(c, val, p) = Stored(t, val, p)
    BY <1>4 DEF Stored
  <2> QED
    BY <1>4, <2>2, <2>3 DEF Written, Placed
<1>6. Enter(c, key, val, p, pn, id) = [tab |-> u, id |-> id]
  BY <1>2, <1>4 DEF Enter
<1> HIDE DEF u
<1>7. Slots(u) = Slots(t)
  BY <1>5 DEF Slots
<1>8. Live(u) = Live(t) \cup {p}
  <2>1. /\ t.omap \in [Slots(t) -> Keys \cup {NULL}]
        /\ u.omap[p] = key /\ key # NULL
        /\ \A q \in Slots(t) : q # p => u.omap[q] = t.omap[q]
    BY <1>1, <1>2, <1>5, Fields, Sentinels
  <2>2. ASSUME NEW q \in Nat, q # p
        PROVE  q \in Live(u) <=> q \in Live(t)
    <3>1. q < u.idm.last <=> q < t.idm.last
      BY <1>1, <1>3, <1>5, <2>2
    <3>2. q < t.m => q \in Slots(t)
      BY <1>1 DEF Slots
    <3>3. u.idm.last \in Nat
      BY <1>1, <1>3, <1>5
    <3> QED
      BY <1>1, <1>5, <2>1, <2>2, <3>1, <3>2, <3>3 DEF Live
  <2>3. p \in Live(u)
    <3>1. p \in 0 .. u.idm.last - 1
      BY <1>1, <1>2, <1>3, <1>5
    <3> QED
      BY <1>2, <1>5, <2>1, <3>1 DEF Live
  <2>4. Live(u) \subseteq Nat /\ Live(t) \subseteq Nat
    BY DEF Live
  <2> QED
    BY <1>2, <2>2, <2>3, <2>4
<1>9. Cardinality(Live(u)) = t.n + 1
  <2>1. IsFiniteSet(Live(t)) /\ p \notin Live(t)
    BY <1>1, <1>3, LiveFinite
  <2>2. Cardinality(Live(t) \cup {p}) = Cardinality(Live(t)) + 1
    BY <2>1, FS_AddElement
  <2> QED
    BY <1>1, <1>8, <2>2
<1>10. WithinCapacity(u)
  BY <1>1, <1>2, <1>3, <1>5 DEF WithinCapacity
<1>11. Counted(u)
  BY <1>3, <1>5, <1>8, <1>9, <1>10 DEF Counted
<1>12. Added(t, u, key, Stored(t, val, p), p)
  BY <1>2, <1>3, <1>5, <1>8 DEF Added
<1> QED
  BY <1>5, <1>6, <1>11, <1>12 DEF c, p

LEMMA EnterCounted ==
    ASSUME NEW t, Counted(t), t.n < t.m, ~t.kind.shared,
           NEW key \in Keys, NEW val \in Vals, NEW pn, NEW id \in Slots(t)
    PROVE  LET p == IdmNewId(t.idm)
               e == Enter([t EXCEPT !.idm = IdmNew(t.idm), !.n = @ + 1],
                          key, val, p, pn, id)
               u == e.tab
           IN  /\ e.id = id /\ u.idm = IdmNew(t.idm)
               /\ Counted(u) /\ Added(t, u, key, val, p)
               /\ ~t.kind.multi => Pointed(t, u, p, id)
<1> DEFINE p == IdmNewId(t.idm)
           e == Enter([t EXCEPT !.idm = IdmNew(t.idm), !.n = @ + 1],
                      key, val, p, pn, id)
           u == e.tab
<1>1. /\ e.id = id /\ u.idm = IdmNew(t.idm)
      /\ Counted(u) /\ Added(t, u, key, Stored(t, val, p), p)
      /\ Placed(t, u, p, id)
  BY EnterAny
<1> HIDE DEF p, e
<1>2. Stored(t, val, p) = val
  BY DEF Stored
<1> QED
  BY <1>1, <1>2 DEF Placed, Pointed, e, p

LEMMA EnterSound ==
    ASSUME NEW t, Sound(t), t.n < t.m,
           ~t.kind.multi, ~t.kind.shared,
           NEW key \in Keys, NEW val \in Vals, NEW pn, NEW id \in Slots(t)
    PROVE  LET p == IdmNewId(t.idm)
               e == Enter([t EXCEPT !.idm = IdmNew(t.idm), !.n = @ + 1],
                          key, val, p, pn, id)
           IN  /\ e.id = id
               /\ Sound(e.tab)
               /\ e.tab.n = t.n + 1 /\ e.tab.m = t.m /\ e.tab.kind = t.kind
               /\ t.map[id] = MISS /\ EntriesSlotted(t) => EntriesSlotted(e.tab)
               /\ Retains(t, e.tab)
               /\ Entered(t, e.tab, key, val, p, id)
<1> DEFINE p == IdmNewId(t.idm)
           e == Enter([t EXCEPT !.idm = IdmNew(t.idm), !.n = @ + 1],
                      key, val, p, pn, id)
           u == e.tab
<1>1. Typed(t) /\ Counted(t) /\ t.m \in Nat
  BY Fields DEF Sound, Counted
<1>2. /\ e.id = id /\ u.idm = IdmNew(t.idm)
      /\ Counted(u) /\ Typed(u)
      /\ u.n = t.n + 1 /\ u.m = t.m /\ u.kind = t.kind
      /\ p \in Slots(t) /\ p \notin Live(t)
      /\ Live(u) = Live(t) \cup {p}
      /\ u.omap = [t.omap EXCEPT ![p] = key]
      /\ u.vals = [t.vals EXCEPT ![p] = val]
      /\ u.map = [t.map EXCEPT ![id] = p]
  <2>1. /\ e.id = id /\ u.idm = IdmNew(t.idm)
        /\ Counted(u) /\ Added(t, u, key, val, p)
        /\ ~t.kind.multi => Pointed(t, u, p, id)
    BY <1>1, EnterCounted
  <2> HIDE DEF e, p
  <2> QED
    BY <2>1 DEF Counted, Added, Pointed
<1> HIDE DEF e, p
<1>3. Slots(u) = Slots(t)
  BY <1>2 DEF Slots
<1>4. /\ u.map[id] = p
      /\ \A i \in Slots(t) : i # id => u.map[i] = t.map[i]
  BY <1>1, <1>2, Fields
<1>5. SlotsPoint(u)
  <2>1. \A i \in Slots(t) : t.map[i] # p
    BY <1>1, <1>2, Sentinels DEF Slots, Sound, SlotsPoint, MISS
  <2> QED
    BY <1>2, <1>3, <1>4, <2>1 DEF Sound, SlotsPoint
<1>6. ASSUME t.map[id] = MISS, EntriesSlotted(t)
      PROVE  EntriesSlotted(u)
  <2>1. \A q \in Live(t) : q # MISS
    BY DEF Live, MISS
  <2> QED
    BY <1>2, <1>3, <1>4, <1>6, <2>1 DEF EntriesSlotted
<1>7. Sound(u)
  BY <1>2, <1>5 DEF Sound, Counted
<1>8. Retains(t, u)
  BY <1>1, <1>2, Fields, LiveFinite DEF Retains
<1>9. Entered(t, u, key, val, p, id)
  BY <1>2 DEF Entered
<1> QED
  BY <1>2, <1>6, <1>7, <1>8, <1>9 DEF e, p

(* A put of a key that is found: the value is replaced where it is. *)
LEMMA ReplaceSound ==
    ASSUME NEW t, Sound(t),
           ~t.kind.multi, ~t.kind.shared,
           NEW key \in Keys, NEW val \in Vals, NEW pn,
           NEW id \in Slots(t), t.map[id] # MISS
    PROVE  LET u == Store(t, key, val, t.map[id], pn, id)
           IN  /\ Sound(u)
               /\ u.n = t.n /\ u.m = t.m /\ u.kind = t.kind
               /\ EntriesSlotted(t) => EntriesSlotted(u)
               /\ t.omap[t.map[id]] = key =>
                     Retains(t, u) /\ Replaced(t, u, val, id)
<1> DEFINE p == t.map[id]
           u == Store(t, key, val, p, pn, id)
<1>1. Typed(t) /\ p \in Live(t) /\ p \in Slots(t)
  BY LiveFinite DEF Sound, SlotsPoint
<1> HIDE DEF p
<1>2. /\ Typed(u)
      /\ u.m = t.m /\ u.n = t.n /\ u.idm = t.idm /\ u.kind = t.kind
      /\ u.map = [t.map EXCEPT ![id] = p]
      /\ u.omap = [t.omap EXCEPT ![p] = key]
      /\ u.vals = [t.vals EXCEPT ![p] = val]
  <2>1. u = Store(t, key, val, p, pn, id)
    OBVIOUS
  <2> HIDE DEF u
  <2>2. /\ Typed(u) /\ Written(t, u, key, val, p)
        /\ Pointed(t, u, p, id)
    BY <1>1, <2>1, StoreFields
  <2> QED
    BY <2>2 DEF Written, Pointed
<1> HIDE DEF u
<1>3. Slots(u) = Slots(t)
  BY <1>2 DEF Slots
<1>4. u.map = t.map
  BY <1>1, <1>2, Fields DEF p
<1>5. Live(u) = Live(t)
  <2>1. /\ u.omap[p] = key /\ key # NULL
        /\ \A q \in Slots(t) : q # p => u.omap[q] = t.omap[q]
    BY <1>1, <1>2, Fields, Sentinels
  <2>2. \A q \in 0 .. t.idm.last - 1 : q < t.m => q \in Slots(t)
    BY <1>1, Fields DEF Slots
  <2> QED
    BY <1>1, <1>2, <2>1, <2>2 DEF Live
<1>6. Sound(u)
  BY <1>2, <1>3, <1>4, <1>5 DEF Sound, WithinCapacity, SlotsPoint
<1>7. EntriesSlotted(t) => EntriesSlotted(u)
  BY <1>3, <1>4, <1>5 DEF EntriesSlotted
<1>8. t.omap[p] = key => Retains(t, u)
  BY <1>1, <1>2, <1>5, Fields, LiveFinite DEF Retains
<1>9. t.omap[p] = key => Replaced(t, u, val, id)
  <2> SUFFICES ASSUME t.omap[p] = key PROVE u.omap = t.omap
    BY <1>2, <1>4, <1>5 DEF Replaced, p
  <2> QED
    BY <1>1, <1>2, Fields
<1> QED
  BY <1>2, <1>6, <1>7, <1>8, <1>9 DEF u, p

(* An entry is taken out, and its position given back. *)
LEMMA RemoveCounted ==
    ASSUME NEW t, Counted(t), NEW p \in Live(t),
           NEW A \in [Slots(t) -> Nat \cup {MISS}], NEW u,
           u = [m |-> t.m, n |-> t.n - 1, map |-> A,
                omap |-> [t.omap EXCEPT ![p] = NULL],
                vals |-> [t.vals EXCEPT ![p] = NULL],
                idm |-> IdmDel(t.idm, p), dirty |-> TRUE, kind |-> t.kind]
    PROVE  Counted(u) /\ Removed(t, u, p) /\ u.map = A
<1> DEFINE B == [t.omap EXCEPT ![p] = NULL]
           C == [t.vals EXCEPT ![p] = NULL]
           i == IdmDel(t.idm, p)
<1>1. /\ Typed(t) /\ p \in Slots(t)
      /\ t.idm \in Manager /\ Accounts(t.idm, Live(t))
      /\ t.m \in Nat /\ t.n \in Nat /\ t.n = Cardinality(Live(t))
      /\ t.idm.last \in Nat /\ t.idm.last <= t.m
  BY LiveFinite, Fields DEF Counted, WithinCapacity
<1>2. /\ i \in Manager
      /\ Accounts(i, Live(t) \ {p})
      /\ i.last <= t.idm.last
  BY <1>1, DelAccounts
<1>3. Cardinality(Live(t) \ {p}) = t.n - 1 /\ t.n - 1 \in Nat
  <2>1. /\ IsFiniteSet(Live(t) \ {p})
        /\ Cardinality(Live(t) \ {p}) = Cardinality(Live(t)) - 1
    BY <1>1, LiveFinite, FS_RemoveElement
  <2> QED
    BY <1>1, <2>1, FS_CardinalityType
<1>4. /\ B \in [Slots(t) -> Keys \cup {NULL}]
      /\ C \in [Slots(t) -> Vals \cup {NULL}]
  BY <1>1, Fields
<1>5. u = [m |-> t.m, n |-> t.n - 1, map |-> A, omap |-> B, vals |-> C,
           idm |-> i, dirty |-> TRUE, kind |-> t.kind]
  OBVIOUS
<1> HIDE DEF i, B, C
<1>6. /\ u.m = t.m /\ u.n = t.n - 1 /\ u.idm = i /\ u.map = A /\ u.omap = B
      /\ u.kind = t.kind /\ u.vals = C /\ u.dirty = TRUE
      /\ Slots(u) = Slots(t)
  BY <1>5 DEF Slots
<1>7. Typed(u)
  <2>1. /\ t.m \in Nat \ {0, 1} /\ t.kind \in Kind
        /\ A \in [Slots(t) -> Nat \cup {MISS}]
        /\ i \in [free : Seq(Nat), last : Nat] /\ TRUE \in BOOLEAN
    BY <1>1, <1>2 DEF Typed, Manager
  <2> QED
    BY <1>3, <1>4, <1>5, <1>6, <2>1, Zenon DEF Typed
<1>8. /\ \A q \in Slots(t) : u.omap[q] = IF q = p THEN NULL ELSE t.omap[q]
      /\ \A q \in Slots(t) : q # p => u.vals[q] = t.vals[q]
  BY <1>1, <1>6, Fields DEF B, C
<1>9. Live(u) = Live(t) \ {p}
  <2>1. i.last \in Nat
    BY <1>2 DEF Manager
  <2>2. \A q \in 0 .. t.idm.last - 1 : q < t.m => q \in Slots(t)
    BY <1>1 DEF Slots
  <2>3. ASSUME NEW q \in Live(u) PROVE q \in Live(t) \ {p}
    <3>1. q \in 0 .. i.last - 1 /\ q < t.m /\ u.omap[q] # NULL
      BY <1>6 DEF Live
    <3>2. q \in 0 .. t.idm.last - 1 /\ q \in Slots(t)
      BY <1>1, <1>2, <2>1, <2>2, <3>1
    <3> QED
      BY <1>8, <3>1, <3>2 DEF Live
  <2>4. ASSUME NEW q \in Live(t) \ {p} PROVE q \in Live(u)
    <3>1. q \in 0 .. t.idm.last - 1 /\ q < t.m /\ t.omap[q] # NULL
      BY DEF Live
    <3>2. q \in Slots(t) /\ u.omap[q] # NULL
      BY <1>8, <2>2, <3>1
    <3>3. q \in 0 .. i.last - 1
      BY <1>2 DEF Accounts
    <3> QED
      BY <1>6, <3>1, <3>2, <3>3 DEF Live
  <2> QED
    BY <2>3, <2>4
<1>10. WithinCapacity(u)
  BY <1>1, <1>2, <1>6 DEF WithinCapacity, Manager
<1>11. Counted(u)
  BY <1>2, <1>3, <1>6, <1>7, <1>9, <1>10 DEF Counted
<1>12. \A q \in Live(t) \ {p} : u.omap[q] = t.omap[q] /\ u.vals[q] = t.vals[q]
  BY <1>1, <1>8, LiveFinite
<1> QED
  BY <1>6, <1>9, <1>11, <1>12 DEF Removed, i

(* qmap_del of a key that is found. *)
LEMMA DeleteSound ==
    ASSUME NEW t, Sound(t), NEW id \in Slots(t), t.map[id] # MISS,
           id = Lookup(t, t.omap[t.map[id]])
    PROVE  LET u == DeleteAt(t, t.map[id])
           IN  /\ Sound(u)
               /\ u.n = t.n - 1 /\ u.m = t.m /\ u.kind = t.kind
               /\ EntriesSlotted(t) => EntriesSlotted(u)
               /\ \A q \in Live(t) \ {t.map[id]} :
                      q \in Live(u) /\ u.omap[q] = t.omap[q]
               /\ Deleted(t, u, id)
<1> DEFINE p == t.map[id]
           A == [t.map EXCEPT ![id] = MISS]
           u == DeleteAt(t, p)
<1>1. /\ Typed(t) /\ Counted(t) /\ p \in Live(t) /\ t.n \in Nat
      /\ A \in [Slots(t) -> Nat \cup {MISS}]
  BY Fields DEF Sound, SlotsPoint, Counted
<1>2. u = [m |-> t.m, n |-> t.n - 1, map |-> A,
           omap |-> [t.omap EXCEPT ![p] = NULL],
           vals |-> [t.vals EXCEPT ![p] = NULL],
           idm |-> IdmDel(t.idm, p), dirty |-> TRUE, kind |-> t.kind]
  <2> DEFINE B == [t.omap EXCEPT ![p] = NULL]
             C == [t.vals EXCEPT ![p] = NULL]
             i == IdmDel(t.idm, p)
  <2>1. t = [m |-> t.m, n |-> t.n, map |-> t.map, omap |-> t.omap,
             vals |-> t.vals, idm |-> t.idm, dirty |-> t.dirty, kind |-> t.kind]
    BY <1>1, Eta, Zenon
  <2>2. u = [t EXCEPT !.map = A, !.omap = B, !.vals = C, !.idm = i,
                      !.n = t.n - 1, !.dirty = TRUE]
    <3>1. Lookup(t, t.omap[p]) = id /\ id # MISS
      BY <1>1 DEF Slots, MISS
    <3> QED
      BY <1>1, <3>1 DEF DeleteAt, Typed
  <2> HIDE DEF A, B, C, i, p, u
  <2>3. u = [m |-> t.m, n |-> t.n - 1, map |-> A, omap |-> B, vals |-> C,
             idm |-> i, dirty |-> TRUE, kind |-> t.kind]
    BY <2>1, <2>2
  <2> QED
    BY <2>3 DEF B, C, i
<1> HIDE DEF u, A
<1>3. Counted(u) /\ Removed(t, u, p) /\ u.map = A
  BY <1>1, <1>2, RemoveCounted
<1> HIDE DEF p
<1>4. /\ u.m = t.m /\ u.n = t.n - 1 /\ u.kind = t.kind
      /\ u.idm = IdmDel(t.idm, p)
      /\ Live(u) = Live(t) \ {p}
      /\ \A q \in Live(u) : u.omap[q] = t.omap[q] /\ u.vals[q] = t.vals[q]
      /\ Slots(u) = Slots(t)
  BY <1>3 DEF Removed, Slots
<1>5. \A j \in Slots(t) : u.map[j] = IF j = id THEN MISS ELSE t.map[j]
  BY <1>1, <1>3, Fields DEF A
<1>6. \A j \in Slots(t) : t.map[j] = p => j = id
  BY DEF Sound, SlotsPoint, p
<1>7. SlotsPoint(u)
  BY <1>4, <1>5, <1>6 DEF Sound, SlotsPoint
<1>8. EntriesSlotted(t) => EntriesSlotted(u)
  <2> SUFFICES ASSUME EntriesSlotted(t), NEW q \in Live(t) \ {p}
               PROVE  \E j \in Slots(u) : u.map[j] = q
    BY <1>4 DEF EntriesSlotted
  <2>1. PICK j \in Slots(t) : t.map[j] = q
    BY DEF EntriesSlotted
  <2>2. j # id
    BY <2>1 DEF p
  <2> QED
    BY <1>4, <1>5, <2>1, <2>2
<1>9. Sound(u)
  BY <1>3, <1>7 DEF Sound, Counted
<1>10. Deleted(t, u, id)
  BY <1>3, <1>4 DEF Deleted, A, p
<1> QED
  BY <1>4, <1>8, <1>9, <1>10 DEF u, p

(* A table just opened, and one just emptied. *)
LEMMA EmptySound ==
    ASSUME NEW m \in Nat, m > 1, NEW kind \in Kind
    PROVE  /\ Sound(EmptyTable(m, kind))
           /\ EntriesSlotted(EmptyTable(m, kind))
           /\ EmptyTable(m, kind).n = 0 /\ EmptyTable(m, kind).m = m
           /\ EmptyTable(m, kind).kind = kind
<1> DEFINE t == EmptyTable(m, kind)
<1>1. /\ t.m = m /\ t.n = 0 /\ t.idm = IdmInit /\ t.dirty = TRUE
      /\ t.map = [i \in 0 .. m - 1 |-> MISS]
      /\ t.omap = [i \in 0 .. m - 1 |-> NULL]
      /\ t.vals = [i \in 0 .. m - 1 |-> NULL]
      /\ Slots(t) = 0 .. m - 1
      /\ t.kind = kind
  BY DEF EmptyTable, Slots
<1>2. IdmInit \in Manager /\ IdmInit.last = 0 /\ IdmInit.free = <<>>
  BY EmptySeq DEF IdmInit, Manager
<1>3. Typed(t)
  BY <1>1, <1>2 DEF Typed, EmptyTable, Manager
<1> HIDE DEF t
<1>4. Live(t) = {} /\ Listed(IdmInit) = {}
  BY <1>1, <1>2 DEF Live, Listed
<1>5. Accounts(t.idm, Live(t))
  BY <1>1, <1>2, <1>4 DEF Accounts
<1>6. Cardinality(Live(t)) = 0
  BY <1>4, FS_EmptySet
<1> QED
  BY <1>1, <1>2, <1>3, <1>4, <1>5, <1>6
  DEF t, Sound, WithinCapacity, SlotsPoint, EntriesSlotted

-----------------------------------------------------------------------------
(* Whole calls.  A map that may grow keeps its load bounded; about one     *)
(* that may not, whose slots are never rebuilt, more is known: every entry *)
(* has a slot, so an empty slot means an unused position.                  *)

Healthy(t) ==
    /\ Sound(t)
    /\ ~t.kind.nogrow => LoadBounded(t)
    /\ t.kind.nogrow => EntriesSlotted(t)

LEMMA EmptySlotMeansRoom ==
    ASSUME NEW t, Sound(t), EntriesSlotted(t),
           NEW id \in Slots(t), t.map[id] = MISS
    PROVE  t.n < t.m
<1>1. /\ t.m \in Nat /\ t.n = Cardinality(Live(t)) /\ t.n \in Nat
      /\ IsFiniteSet(Live(t))
  BY Fields, LiveFinite DEF Sound
<1>2. IsFiniteSet(Slots(t)) /\ Cardinality(Slots(t)) = t.m
  BY SlotsFinite DEF Sound
<1>3. /\ IsFiniteSet(Slots(t) \ {id})
      /\ Cardinality(Slots(t) \ {id}) = t.m - 1
  BY <1>2, FS_RemoveElement
<1> DEFINE f == [p \in Live(t) |-> CHOOSE i \in Slots(t) : t.map[i] = p]
<1>4. \A p \in Live(t) : f[p] \in Slots(t) /\ t.map[f[p]] = p
  BY DEF EntriesSlotted
<1>5. f \in [Live(t) -> Slots(t) \ {id}]
  <2>1. \A p \in Live(t) : p # MISS
    BY DEF Live, MISS
  <2>2. \A p \in Live(t) : f[p] \in Slots(t) \ {id}
    BY <1>4, <2>1
  <2> QED
    BY <2>2
<1> HIDE DEF f
<1>6. ~(t.m - 1 < t.n)
  <2> SUFFICES ASSUME t.m - 1 < t.n PROVE FALSE
    OBVIOUS
  <2>1. PICK p, q \in Live(t) : p # q /\ f[p] = f[q]
    BY <1>1, <1>3, <1>5, FS_PigeonHole
  <2> QED
    BY <1>4, <2>1
<1> QED
  BY <1>1, <1>6

(* How a put with a key ends, from the table with room for one more entry. *)
PutCases(t, key, val, u) ==
    LET id == Lookup(t, key)
    IN  \/ id = MISS /\ u = t
        \/ /\ id # MISS /\ t.map[id] = MISS
           /\ Entered(t, u, key, val, IdmNewId(t.idm), id)
        \/ /\ id # MISS /\ t.map[id] # MISS /\ t.omap[t.map[id]] = key
           /\ Replaced(t, u, val, id)

(* qmap_put with a key: the table stays sound, and the put is refused only *)
(* by a full table that may not grow.                                      *)
LEMMA PutKeySound ==
    ASSUME NEW t0, ~t0.kind.multi, ~t0.kind.shared,
           Healthy(t0), NEW key \in Keys, NEW val \in Vals
    PROVE  LET e == PutKey(t0, key, val, MISS)
           IN  /\ Healthy(e.tab) /\ e.tab.kind = t0.kind
               /\ Retains(t0, e.tab)
               /\ e.id = MISS =>
                     t0.kind.nogrow /\ t0.n = t0.m /\ Get(t0, key) = NULL
               /\ EntriesSlotted(t0) => EntriesSlotted(e.tab)
               /\ PutCases(MakeRoom(t0), key, val, e.tab)
               /\ e.id = Lookup(MakeRoom(t0), key)
<1> DEFINE t == MakeRoom(t0)
           id == Lookup(t, key)
           e == PutKey(t0, key, val, MISS)
<1>1. /\ Sound(t) /\ t.n = t0.n /\ Live(t) = Live(t0) /\ t.kind = t0.kind
      /\ t0.kind.nogrow => t = t0
      /\ ~t0.kind.nogrow => (t.n + 1) * 4 < t.m * 3
      /\ Retains(t0, t)
      /\ EntriesSlotted(t0) => EntriesSlotted(t)
      /\ t = MakeRoom(t0)
  BY MakeRoomSound DEF Healthy
<1> HIDE DEF t
<1>0. ASSUME NEW u, Retains(t, u) PROVE Retains(t0, u)
  BY <1>0, <1>1 DEF Retains
<1>2. /\ Typed(t) /\ t.n \in Nat /\ t.m \in Nat /\ t.m > 1
      /\ t.n <= t.m
  <2>1. Typed(t) /\ t.n = Cardinality(Live(t))
    BY <1>1 DEF Sound
  <2>2. Cardinality(Live(t)) <= Cardinality(Slots(t))
    BY <2>1, SlotsFinite, LiveFinite, FS_Subset
  <2> QED
    BY <2>1, <2>2, SlotsFinite, Fields
<1>3. ~t0.kind.nogrow => t.n < t.m
  BY <1>1, <1>2
<1>4. t0.kind.nogrow => EntriesSlotted(t)
  BY <1>1 DEF Healthy
<1>5. CASE id = MISS
  <2>1. e = [tab |-> t, id |-> MISS]
    BY <1>5 DEF PutKey, t
  <2>2. ~(t.n < t.m)
    BY <1>1, <1>5, LookupFinds
  <2>3. t0.kind.nogrow /\ t0.n = t0.m
    BY <1>1, <1>2, <1>3, <2>2
  <2>4. Get(t0, key) = NULL
    BY <1>1, <1>5, <2>3 DEF Get
  <2>5. Healthy(e.tab) /\ e.tab.kind = t0.kind
    BY <1>1, <1>4, <2>1, <2>3 DEF Healthy
  <2>6. Retains(t0, e.tab)
    BY <1>1, <2>1
  <2>7. PutCases(t, key, val, e.tab) /\ (EntriesSlotted(t0) => EntriesSlotted(e.tab))
    BY <1>1, <1>5, <2>1 DEF PutCases
  <2> QED
    BY <1>1, <1>5, <2>1, <2>3, <2>4, <2>5, <2>6, <2>7
<1>6. CASE id # MISS
  <2>1. /\ id \in Slots(t)
        /\ t.map[id] = MISS \/ t.omap[t.map[id]] = key
    BY <1>2, <1>6, LookupStops
  <2>2. id # MISS
    BY <1>6
  <2>3. CASE t.map[id] = MISS
    <3>1. t.n < t.m
      BY <1>1, <1>3, <1>4, <2>1, <2>3, EmptySlotMeansRoom
    <3> DEFINE en == Enter([t EXCEPT !.idm = IdmNew(t.idm), !.n = @ + 1],
                           key, val, IdmNewId(t.idm), MISS, id)
    <3>2. e = en
      BY <2>2, <2>3 DEF PutKey, t
    <3>3. /\ en.id = id
          /\ Sound(en.tab)
          /\ en.tab.n = t.n + 1 /\ en.tab.m = t.m /\ en.tab.kind = t.kind
          /\ t.map[id] = MISS /\ EntriesSlotted(t) => EntriesSlotted(en.tab)
          /\ Retains(t, en.tab)
          /\ Entered(t, en.tab, key, val, IdmNewId(t.idm), id)
      <4>1. Sound(t) /\ ~t.kind.multi /\ ~t.kind.shared /\ id \in Slots(t)
        BY <1>1, <2>1
      <4> HIDE DEF id, e
      <4> QED
        BY <3>1, <4>1, EnterSound
    <3> HIDE DEF en, e, id
    <3>4. ~t0.kind.nogrow => LoadBounded(e.tab)
      BY <1>1, <3>2, <3>3 DEF LoadBounded
    <3>5. Healthy(e.tab) /\ e.tab.kind = t0.kind /\ e.id # MISS
      BY <1>1, <1>4, <2>2, <2>3, <3>2, <3>3, <3>4 DEF Healthy
    <3>6. Retains(t0, e.tab)
      BY <1>0, <3>2, <3>3
    <3>7. PutCases(t, key, val, e.tab) /\ (EntriesSlotted(t0) => EntriesSlotted(e.tab))
      BY <1>1, <2>2, <2>3, <3>2, <3>3 DEF PutCases, id
    <3>8. e.id = id
      BY <3>2, <3>3
    <3> QED
      BY <1>1, <3>5, <3>6, <3>7, <3>8 DEF e, id
  <2>4. CASE t.map[id] # MISS
    <3> DEFINE u == Store(t, key, val, t.map[id], MISS, id)
    <3>1. e = [tab |-> u, id |-> id]
      <4>1. ~t.kind.multi
        BY <1>1
      <4> QED
        BY <2>2, <2>4, <4>1 DEF PutKey, t
    <3>2. /\ Sound(u)
          /\ u.n = t.n /\ u.m = t.m /\ u.kind = t.kind
          /\ EntriesSlotted(t) => EntriesSlotted(u)
          /\ Retains(t, u) /\ Replaced(t, u, val, id)
      BY <1>1, <2>1, <2>4, ReplaceSound
    <3> HIDE DEF u, e, id
    <3>3. LoadBounded(u) \/ t0.kind.nogrow
      BY <1>1, <1>2, <3>2 DEF LoadBounded
    <3>4. Healthy(e.tab) /\ e.tab.kind = t0.kind /\ e.id # MISS
      BY <1>1, <1>4, <2>2, <3>1, <3>2, <3>3 DEF Healthy
    <3>5. Retains(t0, e.tab)
      BY <1>0, <3>1, <3>2
    <3>6. PutCases(t, key, val, e.tab) /\ (EntriesSlotted(t0) => EntriesSlotted(e.tab))
      BY <1>1, <2>1, <2>2, <2>4, <3>1, <3>2 DEF PutCases, id
    <3>7. e.id = id
      BY <3>1
    <3> QED
      BY <1>1, <3>4, <3>5, <3>6, <3>7 DEF e, id
  <2> QED
    BY <2>3, <2>4
<1> QED
  BY <1>5, <1>6

(* qmap_put without a key, on a map that may grow *)
LEMMA PutAutoSound ==
    ASSUME NEW t0, ~t0.kind.nogrow, ~t0.kind.multi, ~t0.kind.shared,
           Healthy(t0), IdmNewId(t0.idm) \in Keys, NEW val \in Vals
    PROVE  LET t == MakeRoom(t0)
               p == IdmNewId(t0.idm)
               e == PutAuto(t0, val)
           IN  /\ Healthy(e.tab) /\ e.tab.kind = t0.kind
               /\ Retains(t0, e.tab)
               /\ e.id = Lookup(t, p)
               /\ Entered(t, e.tab, p, val, p, e.id)
               /\ EntriesSlotted(t) /\ t.map[e.id] = MISS
                     => EntriesSlotted(e.tab)
<1> DEFINE t == MakeRoom(t0)
           p == IdmNewId(t.idm)
           e == PutAuto(t0, val)
<1>1. /\ Sound(t) /\ t.n = t0.n /\ t.idm = t0.idm /\ t.kind = t0.kind
      /\ (t.n + 1) * 4 < t.m * 3
      /\ Retains(t0, t) /\ Live(t) = Live(t0) /\ t = MakeRoom(t0)
  BY MakeRoomSound DEF Healthy
<1> HIDE DEF t
<1>0. ASSUME NEW u, Retains(t, u) PROVE Retains(t0, u)
  BY <1>0, <1>1 DEF Retains
<1>2. Typed(t) /\ t.n \in Nat /\ t.m \in Nat
  BY <1>1, Fields DEF Sound
<1>3. t.n < t.m
  BY <1>1, <1>2
<1>4. p \in Keys
  BY <1>1
<1>5. Lookup(t, p) \in Slots(t)
  BY <1>1, <1>2, <1>3, <1>4, LookupFinds, LookupStops
<1> DEFINE en == Enter([t EXCEPT !.idm = IdmNew(t.idm), !.n = @ + 1],
                       p, val, p, MISS, Lookup(t, p))
<1>6. e = en
  BY DEF PutAuto, t
<1>7. /\ Sound(en.tab)
      /\ en.tab.n = t.n + 1 /\ en.tab.m = t.m /\ en.tab.kind = t.kind
      /\ en.id = Lookup(t, p) /\ Retains(t, en.tab)
      /\ Entered(t, en.tab, p, val, p, en.id)
      /\ EntriesSlotted(t) /\ t.map[en.id] = MISS => EntriesSlotted(en.tab)
  <2> DEFINE key == p
             id == Lookup(t, p)
             en2 == Enter([t EXCEPT !.idm = IdmNew(t.idm), !.n = @ + 1],
                          key, val, IdmNewId(t.idm), MISS, id)
  <2>1. key \in Keys /\ id \in Slots(t) /\ en = en2
    BY <1>4, <1>5
  <2> HIDE DEF key, id, en, e, p
  <2>2. /\ en2.id = id
        /\ Sound(en2.tab)
        /\ en2.tab.n = t.n + 1 /\ en2.tab.m = t.m /\ en2.tab.kind = t.kind
        /\ t.map[id] = MISS /\ EntriesSlotted(t) => EntriesSlotted(en2.tab)
        /\ Retains(t, en2.tab)
        /\ Entered(t, en2.tab, key, val, IdmNewId(t.idm), id)
    <3>1. Sound(t) /\ t.n < t.m /\ ~t.kind.multi /\ ~t.kind.shared
      BY <1>1, <1>3
    <3> QED
      BY <2>1, <3>1, EnterSound
  <2>3. key = p /\ id = Lookup(t, p) /\ IdmNewId(t.idm) = p
    BY DEF key, id, p
  <2> HIDE DEF en2
  <2> QED
    BY <2>1, <2>2, <2>3
<1>8. IdmNewId(t0.idm) = p
  BY <1>1
<1> HIDE DEF en, e, p
<1>9. Healthy(e.tab) /\ e.tab.kind = t0.kind
  BY <1>1, <1>6, <1>7 DEF Healthy, LoadBounded
<1>10. Retains(t0, e.tab)
  BY <1>0, <1>6, <1>7
<1> QED
  BY <1>1, <1>6, <1>7, <1>8, <1>9, <1>10 DEF e

-----------------------------------------------------------------------------
(* What a lookup finds, as long as no probe sequence is broken.            *)

(* no two entries have the same key *)
KeyedOnce(t) == \A p, q \in Live(t) : t.omap[p] = t.omap[q] => p = q

Findable(t) == Sound(t) /\ Chained(t) /\ KeyedOnce(t)

(* The slot is the first of the probe sequence that ends it. *)
LEMMA LookupFirst ==
    ASSUME NEW t, Typed(t), NEW key \in Keys, Lookup(t, key) # MISS
    PROVE  \E d \in 0 .. t.m - 1 :
              /\ Lookup(t, key) = Probe(t, key, d)
              /\ Stops(t, key, d)
              /\ \A e \in 0 .. d - 1 : ~Stops(t, key, e)
<1> DEFINE stops == {d \in 0 .. t.m - 1 : Stops(t, key, d)}
           d == Min(stops)
<1>1. stops # {} /\ stops \subseteq Nat
  BY DEF Lookup
<1>2. d \in stops /\ \A e \in stops : d <= e
  BY <1>1, MinIsLeast
<1>3. Lookup(t, key) = Probe(t, key, d)
  BY <1>1 DEF Lookup
<1> HIDE DEF d
<1>4. t.m \in Nat
  BY Fields
<1>5. ASSUME NEW e \in 0 .. d - 1 PROVE ~Stops(t, key, e)
  BY <1>2, <1>4, <1>5
<1> QED
  BY <1>2, <1>3, <1>5

(* A lookup of the key of an entry ends at the entry's slot. *)
LEMMA LookupReaches ==
    ASSUME NEW t, Findable(t), NEW q \in Live(t)
    PROVE  LET id == Lookup(t, t.omap[q])
           IN  id # MISS /\ id \in Slots(t) /\ t.map[id] = q
<1> DEFINE key == t.omap[q]
<1>1. Typed(t) /\ SlotsPoint(t) /\ q \in Slots(t) /\ key \in Keys /\ t.m \in Nat
  <2>1. Typed(t)
    BY DEF Findable, Sound
  <2>2. q \in Slots(t) /\ key # NULL
    BY <2>1, LiveFinite DEF Live
  <2> QED
    BY <2>1, <2>2, Fields DEF Findable, Sound
<1>2. PICK d \in 0 .. t.m - 1 :
          /\ t.map[Probe(t, key, d)] = q
          /\ \A e \in 0 .. d - 1 : t.map[Probe(t, key, e)] # MISS
  BY DEF Findable, Chained
<1>3. Stops(t, key, d)
  BY <1>2 DEF Stops
<1>4. Lookup(t, key) # MISS
  <2> DEFINE stops == {e \in 0 .. t.m - 1 : Stops(t, key, e)}
  <2>1. d \in stops /\ stops \subseteq Nat /\ stops # {}
    BY <1>3
  <2>2. Lookup(t, key) = Probe(t, key, Min(stops)) /\ Min(stops) \in stops
    BY <2>1, MinIsLeast DEF Lookup
  <2> QED
    BY <1>1, <2>2, ProbeInSlots DEF Slots, MISS
<1>5. PICK c \in 0 .. t.m - 1 :
          /\ Lookup(t, key) = Probe(t, key, c)
          /\ Stops(t, key, c)
          /\ \A e \in 0 .. c - 1 : ~Stops(t, key, e)
  BY <1>1, <1>4, LookupFirst
<1>6. c <= d
  BY <1>1, <1>3, <1>5
<1>7. CASE c = d
  BY <1>1, <1>2, <1>4, <1>5, <1>7, LookupStops
<1>8. CASE c < d
  <2>1. Lookup(t, key) \in Slots(t)
    BY <1>1, <1>4, LookupStops
  <2>2. t.map[Lookup(t, key)] # MISS
    BY <1>2, <1>5, <1>8
  <2>3. t.map[Lookup(t, key)] \in Live(t) /\ t.omap[t.map[Lookup(t, key)]] = key
    BY <1>1, <1>5, <2>1, <2>2 DEF Stops, SlotsPoint
  <2> QED
    BY <1>4, <2>1, <2>3 DEF Findable, KeyedOnce
<1> QED
  BY <1>1, <1>6, <1>7, <1>8

LEMMA GetFinds ==
    ASSUME NEW t, Findable(t), NEW q \in Live(t)
    PROVE  Get(t, t.omap[q]) = t.vals[q]
<1>1. /\ Lookup(t, t.omap[q]) # MISS
      /\ t.map[Lookup(t, t.omap[q])] = q
  BY LookupReaches
<1>2. q # MISS
  BY DEF Live, MISS
<1> QED
  BY <1>1, <1>2 DEF Get

LEMMA GetMisses ==
    ASSUME NEW t, Sound(t), NEW key \in Keys,
           \A q \in Live(t) : t.omap[q] # key
    PROVE  Get(t, key) = NULL
<1> SUFFICES ASSUME Lookup(t, key) # MISS, t.map[Lookup(t, key)] # MISS
             PROVE  FALSE
  BY DEF Get
<1>1. /\ Lookup(t, key) \in Slots(t)
      /\ t.omap[t.map[Lookup(t, key)]] = key
  BY LookupStops DEF Sound
<1> QED
  BY <1>1 DEF Sound, SlotsPoint

(* Two tables with the same entry for a key, or none, agree on the key. *)
LEMMA GetAgrees ==
    ASSUME NEW t, NEW u, Findable(t), Findable(u), NEW key \in Keys,
           \A q \in Live(t) : t.omap[q] = key =>
               q \in Live(u) /\ u.omap[q] = key /\ u.vals[q] = t.vals[q],
           \A q \in Live(u) : u.omap[q] = key =>
               q \in Live(t) /\ t.omap[q] = key
    PROVE  Get(u, key) = Get(t, key)
<1>1. CASE \E q \in Live(t) : t.omap[q] = key
  <2> PICK q \in Live(t) : t.omap[q] = key
    BY <1>1
  <2>1. q \in Live(u) /\ u.omap[q] = key /\ u.vals[q] = t.vals[q]
    OBVIOUS
  <2>2. Get(t, key) = t.vals[q] /\ Get(u, key) = u.vals[q]
    BY <2>1, GetFinds
  <2> QED
    BY <2>1, <2>2
<1>2. CASE ~\E q \in Live(t) : t.omap[q] = key
  <2>1. Get(t, key) = NULL
    BY <1>2, GetMisses DEF Findable
  <2>2. Get(u, key) = NULL
    BY <1>2, GetMisses DEF Findable
  <2> QED
    BY <2>1, <2>2
<1> QED
  BY <1>1, <1>2

(* Growth keeps what a lookup finds. *)
LEMMA MakeRoomFindable ==
    ASSUME NEW t, Findable(t), ~t.kind.nogrow => LoadBounded(t)
    PROVE  /\ Findable(MakeRoom(t))
           /\ \A key \in Keys : Get(MakeRoom(t), key) = Get(t, key)
<1> DEFINE u == MakeRoom(t)
<1>1. Sound(u) /\ SameEntries(t, u) /\ (u = t \/ InOrder(u))
  BY MakeRoomSound DEF Findable
<1> HIDE DEF u
<1>2. Chained(u) /\ KeyedOnce(u)
  BY <1>1, InOrderChained DEF Findable, SameEntries, KeyedOnce
<1>3. Findable(u)
  BY <1>1, <1>2 DEF Findable
<1>4. ASSUME NEW key \in Keys PROVE Get(u, key) = Get(t, key)
  BY <1>1, <1>3, GetAgrees DEF SameEntries
<1> QED
  BY <1>3, <1>4 DEF u

(* A new entry in the slot where the lookup of its key ended. *)
LEMMA EnteredFindable ==
    ASSUME NEW t, NEW u, Findable(t), Sound(u), NEW key \in Keys, NEW val, NEW p,
           Lookup(t, key) # MISS, t.map[Lookup(t, key)] = MISS,
           Entered(t, u, key, val, p, Lookup(t, key))
    PROVE  /\ Findable(u)
           /\ \A q \in Live(t) : t.omap[q] # key
           /\ Get(u, key) = val
           /\ \A k \in Keys : k # key => Get(u, k) = Get(t, k)
<1> DEFINE id == Lookup(t, key)
<1>1. /\ Typed(t) /\ p \in Slots(t) /\ p \notin Live(t) /\ id \in Slots(t)
      /\ u.m = t.m /\ u.kind = t.kind /\ Live(u) = Live(t) \cup {p}
      /\ u.map = [t.map EXCEPT ![id] = p]
      /\ u.omap = [t.omap EXCEPT ![p] = key]
      /\ u.vals = [t.vals EXCEPT ![p] = val]
      /\ Live(t) \subseteq Slots(t)
  BY LiveFinite DEF Entered, Findable, Sound
<1>2. \A q \in Live(t) : q # p /\ u.omap[q] = t.omap[q] /\ u.vals[q] = t.vals[q]
  BY <1>1, Fields
<1>3. u.omap[p] = key /\ u.vals[p] = val /\ u.map[id] = p /\ p # MISS
  BY <1>1, Fields DEF Slots, MISS
<1>4. ASSUME NEW q \in Live(t) PROVE t.omap[q] # key
  <2>1. q # MISS
    BY DEF Live, MISS
  <2> QED
    BY <2>1, LookupReaches
<1>5. KeyedOnce(u)
  BY <1>1, <1>2, <1>3, <1>4 DEF KeyedOnce, Findable
<1>6. \A k \in Keys : \A d : Probe(u, k, d) = Probe(t, k, d)
  BY <1>1 DEF Probe
<1>7. \A i \in Slots(t) : t.map[i] # MISS => u.map[i] = t.map[i]
  BY <1>1, Fields
<1>8. \A i \in Slots(t) : t.map[i] # MISS => u.map[i] # MISS
  BY <1>7
<1>9. ASSUME NEW q \in Live(u)
      PROVE  \E d \in 0 .. u.m - 1 :
                /\ u.map[Probe(u, u.omap[q], d)] = q
                /\ \A e \in 0 .. d - 1 : u.map[Probe(u, u.omap[q], e)] # MISS
  <2>1. CASE q \in Live(t)
    <3>1. t.omap[q] \in Keys /\ q # MISS
      BY <2>1, <1>1, Fields DEF Live, MISS
    <3>2. PICK d \in 0 .. t.m - 1 :
              /\ t.map[Probe(t, t.omap[q], d)] = q
              /\ \A e \in 0 .. d - 1 : t.map[Probe(t, t.omap[q], e)] # MISS
      BY <2>1 DEF Findable, Chained
    <3>3. \A e \in 0 .. d : Probe(t, t.omap[q], e) \in Slots(t)
      BY <1>1, <3>1, ProbeInSlots
    <3>4. u.map[Probe(u, u.omap[q], d)] = q
      BY <1>2, <1>6, <1>7, <2>1, <3>1, <3>2, <3>3
    <3>5. \A e \in 0 .. d - 1 : u.map[Probe(u, u.omap[q], e)] # MISS
      BY <1>2, <1>6, <1>8, <2>1, <3>1, <3>2, <3>3
    <3> QED
      BY <1>1, <3>4, <3>5
  <2>2. CASE q = p
    <3>1. PICK d \in 0 .. t.m - 1 :
              /\ id = Probe(t, key, d)
              /\ \A e \in 0 .. d - 1 : ~Stops(t, key, e)
      BY <1>1, LookupFirst
    <3>2. \A e \in 0 .. d - 1 : Probe(t, key, e) \in Slots(t)
      BY <1>1, ProbeInSlots
    <3>3. \A e \in 0 .. d - 1 : t.map[Probe(t, key, e)] # MISS
      BY <3>1 DEF Stops
    <3>4. \A e \in 0 .. d - 1 : u.map[Probe(u, u.omap[p], e)] # MISS
      BY <1>3, <1>6, <1>8, <3>2, <3>3
    <3>5. u.map[Probe(u, u.omap[p], d)] = p
      BY <1>3, <1>6, <3>1
    <3> QED
      BY <1>1, <2>2, <3>4, <3>5
  <2> QED
    BY <1>1, <2>1, <2>2
<1>10. Findable(u)
  BY <1>5, <1>9 DEF Findable, Chained
<1>11. Get(u, key) = val
  <2>1. p \in Live(u)
    BY <1>1
  <2>2. Get(u, u.omap[p]) = u.vals[p]
    BY <1>10, <2>1, GetFinds
  <2> QED
    BY <1>3, <2>2
<1>12. ASSUME NEW k \in Keys, k # key PROVE Get(u, k) = Get(t, k)
  <2>1. \A q \in Live(t) : t.omap[q] = k =>
            q \in Live(u) /\ u.omap[q] = k /\ u.vals[q] = t.vals[q]
    BY <1>1, <1>2
  <2>2. \A q \in Live(u) : u.omap[q] = k => q \in Live(t) /\ t.omap[q] = k
    BY <1>1, <1>2, <1>3, <1>12
  <2> QED
    BY <1>10, <2>1, <2>2, GetAgrees
<1> QED
  BY <1>4, <1>10, <1>11, <1>12

(* Another value for the entry that the lookup of its key found. *)
LEMMA ReplacedFindable ==
    ASSUME NEW t, NEW u, Findable(t), Sound(u), NEW key \in Keys, NEW val,
           Lookup(t, key) # MISS, t.map[Lookup(t, key)] # MISS,
           Replaced(t, u, val, Lookup(t, key))
    PROVE  /\ Findable(u)
           /\ Get(u, key) = val
           /\ \A k \in Keys : k # key => Get(u, k) = Get(t, k)
<1> DEFINE p == t.map[Lookup(t, key)]
<1>1. /\ Typed(t) /\ p \in Live(t) /\ p \in Slots(t) /\ t.omap[p] = key
      /\ Live(t) \subseteq Slots(t)
  BY LookupStops, LiveFinite DEF Findable, Sound, SlotsPoint
<1>2. /\ u.m = t.m /\ u.kind = t.kind /\ Live(u) = Live(t)
      /\ u.map = t.map /\ u.omap = t.omap
      /\ u.vals = [t.vals EXCEPT ![p] = val]
  BY DEF Replaced
<1>3. u.vals[p] = val /\ \A q \in Live(t) : q # p => u.vals[q] = t.vals[q]
  BY <1>1, <1>2, Fields
<1>4. Findable(u)
  <2>1. Sound(u) /\ KeyedOnce(u)
    BY <1>2 DEF Findable, KeyedOnce
  <2>2. \A k, d : Probe(u, k, d) = Probe(t, k, d)
    BY <1>2 DEF Probe
  <2>3. Chained(u)
    BY <1>2, <2>2 DEF Findable, Chained
  <2> QED
    BY <2>1, <2>3 DEF Findable
<1> HIDE DEF p
<1>5. Get(u, key) = val
  <2>1. p \in Live(u) /\ u.omap[p] = key
    BY <1>1, <1>2
  <2>2. Get(u, u.omap[p]) = u.vals[p]
    BY <1>4, <2>1, GetFinds
  <2> QED
    BY <1>3, <2>1, <2>2
<1>6. ASSUME NEW k \in Keys, k # key PROVE Get(u, k) = Get(t, k)
  <2>1. \A q \in Live(t) : t.omap[q] = k =>
            q \in Live(u) /\ u.omap[q] = k /\ u.vals[q] = t.vals[q]
    BY <1>1, <1>2, <1>3, <1>6
  <2>2. \A q \in Live(u) : u.omap[q] = k => q \in Live(t) /\ t.omap[q] = k
    BY <1>2
  <2> QED
    BY <1>4, <2>1, <2>2, GetAgrees
<1> QED
  BY <1>4, <1>5, <1>6

-----------------------------------------------------------------------------
(* Where no two keys of entries share a home slot, every entry is in its   *)
(* home, and a deletion breaks no probe sequence.                          *)

LEMMA AtHomeChained ==
    ASSUME NEW t, Typed(t), AtHome(t)
    PROVE  Chained(t)
<1>1. t.m \in Nat /\ t.m > 1
  BY Fields
<1>2. 0 \in 0 .. t.m - 1 /\ \A e \in 0 .. 0 - 1 : FALSE
  BY <1>1
<1> QED
  BY <1>2 DEF AtHome, Chained, Home

LEMMA MakeRoomAtHome ==
    ASSUME NEW t, Sound(t), ~t.kind.nogrow => LoadBounded(t),
           AtHome(t), HomesApart(MakeRoom(t))
    PROVE  AtHome(MakeRoom(t))
<1> DEFINE u == MakeRoom(t)
<1>1. Sound(u) /\ (u = t \/ InOrder(u))
  BY MakeRoomSound
<1>2. HomesApart(u)
  OBVIOUS
<1> HIDE DEF u
<1>3. SlotsPoint(u) /\ Typed(u)
  BY <1>1 DEF Sound
<1>4. Shaped(u)
  BY <1>1, <1>3, Fields DEF Shaped, Sound, WithinCapacity
<1>5. InOrder(u) => AtHome(u)
  BY <1>2, <1>3, <1>4, InOrderAtHome
<1> QED
  BY <1>1, <1>5 DEF u

(* A key whose home slot no entry shares is entered there. *)
LEMMA LookupHomes ==
    ASSUME NEW t, Sound(t), AtHome(t), NEW key \in Keys, Lookup(t, key) # MISS,
           \A q \in Live(t) : Home(t, t.omap[q]) # Home(t, key)
    PROVE  Lookup(t, key) = Home(t, key) /\ t.map[Home(t, key)] = MISS
<1>1. Typed(t) /\ Home(t, key) \in Slots(t) /\ t.m \in Nat
  BY ProbeInSlots, Fields DEF Sound, Home
<1>2. t.map[Home(t, key)] = MISS
  <2> SUFFICES ASSUME t.map[Home(t, key)] # MISS PROVE FALSE
    OBVIOUS
  <2> DEFINE q == t.map[Home(t, key)]
  <2>1. q \in Live(t) /\ t.omap[q] \in Keys
    BY <1>1, LiveFinite, Fields DEF Sound, SlotsPoint, Live
  <2>2. t.map[Home(t, t.omap[q])] = q /\ Home(t, t.omap[q]) \in Slots(t)
    BY <1>1, <2>1, ProbeInSlots DEF AtHome, Home
  <2> QED
    BY <1>1, <2>1, <2>2 DEF Sound, SlotsPoint
<1>3. Stops(t, key, 0)
  BY <1>2 DEF Stops, Home
<1>4. PICK d \in 0 .. t.m - 1 :
          /\ Lookup(t, key) = Probe(t, key, d)
          /\ \A e \in 0 .. d - 1 : ~Stops(t, key, e)
  BY <1>1, LookupFirst
<1>5. d = 0
  BY <1>1, <1>3, <1>4
<1> QED
  BY <1>2, <1>4, <1>5 DEF Home

LEMMA EnteredAtHome ==
    ASSUME NEW t, NEW u, Sound(t), AtHome(t), NEW key \in Keys, NEW val, NEW p,
           Entered(t, u, key, val, p, Home(t, key)), t.map[Home(t, key)] = MISS
    PROVE  AtHome(u)
<1>1. /\ Typed(t) /\ p \in Slots(t) /\ p \notin Live(t)
      /\ u.m = t.m /\ u.kind = t.kind /\ Live(u) = Live(t) \cup {p}
      /\ u.map = [t.map EXCEPT ![Home(t, key)] = p]
      /\ u.omap = [t.omap EXCEPT ![p] = key]
      /\ Live(t) \subseteq Slots(t) /\ Home(t, key) \in Slots(t)
  BY LiveFinite DEF Entered, Sound
<1>2. \A k \in Keys : Home(u, k) = Home(t, k)
  BY <1>1 DEF Probe, Home
<1>3. u.omap[p] = key /\ u.map[Home(u, key)] = p
  BY <1>1, <1>2, Fields
<1>4. ASSUME NEW q \in Live(t) PROVE u.map[Home(u, u.omap[q])] = q
  <2>1. q # p /\ q # MISS /\ t.omap[q] \in Keys
    BY <1>1, Fields DEF Live, MISS
  <2>2. u.omap[q] = t.omap[q]
    BY <1>1, <2>1, Fields
  <2>3. t.map[Home(t, t.omap[q])] = q /\ Home(t, t.omap[q]) \in Slots(t)
    BY <1>1, <2>1, ProbeInSlots DEF AtHome, Home
  <2>4. u.map[Home(t, t.omap[q])] = q
    BY <1>1, <2>1, <2>3, Fields
  <2> QED
    BY <1>2, <2>1, <2>2, <2>4
<1> QED
  BY <1>1, <1>3, <1>4 DEF AtHome

LEMMA ReplacedAtHome ==
    ASSUME NEW t, NEW u, AtHome(t), NEW val, NEW id, Replaced(t, u, val, id)
    PROVE  AtHome(u)
  BY DEF Replaced, AtHome, Home, Probe

(* The entry that the lookup of its key found is taken out. *)
LEMMA DeletedFindable ==
    ASSUME NEW t, NEW u, Findable(t), AtHome(t), Sound(u), NEW key \in Keys,
           Lookup(t, key) # MISS, t.map[Lookup(t, key)] # MISS,
           Deleted(t, u, Lookup(t, key))
    PROVE  /\ Findable(u) /\ AtHome(u)
           /\ Get(u, key) = NULL
           /\ \A k \in Keys : k # key => Get(u, k) = Get(t, k)
<1> DEFINE id == Lookup(t, key)
           p == t.map[id]
<1>1. /\ Typed(t) /\ p \in Live(t) /\ t.omap[p] = key /\ id \in Slots(t)
      /\ Live(t) \subseteq Slots(t)
  BY LookupStops, LiveFinite DEF Findable, Sound, SlotsPoint
<1>2. /\ u.m = t.m /\ u.kind = t.kind /\ Live(u) = Live(t) \ {p}
      /\ u.map = [t.map EXCEPT ![id] = MISS]
      /\ \A q \in Live(u) : u.omap[q] = t.omap[q] /\ u.vals[q] = t.vals[q]
  BY DEF Deleted
<1> HIDE DEF id, p
<1>3. AtHome(u)
  <2> SUFFICES ASSUME NEW q \in Live(u)
               PROVE  u.map[Home(u, u.omap[q])] = q
    BY DEF AtHome
  <2>1. q \in Live(t) /\ q # p /\ t.omap[q] \in Keys
    BY <1>1, <1>2, Fields DEF Live
  <2>2. /\ t.map[Home(t, t.omap[q])] = q /\ Home(t, t.omap[q]) \in Slots(t)
        /\ Home(u, u.omap[q]) = Home(t, t.omap[q])
    BY <1>1, <1>2, <2>1, ProbeInSlots DEF AtHome, Home, Probe
  <2>3. Home(t, t.omap[q]) # id
    BY <2>1, <2>2 DEF p
  <2> QED
    BY <1>1, <1>2, <2>2, <2>3, Fields
<1>4. Typed(u) /\ KeyedOnce(u)
  BY <1>2 DEF Sound, Findable, KeyedOnce
<1>5. Findable(u)
  BY <1>3, <1>4, AtHomeChained DEF Findable
<1>6. Get(u, key) = NULL
  <2>1. \A q \in Live(u) : u.omap[q] # key
    BY <1>1, <1>2 DEF Findable, KeyedOnce
  <2> QED
    BY <2>1, GetMisses
<1>7. ASSUME NEW k \in Keys, k # key PROVE Get(u, k) = Get(t, k)
  <2>1. \A q \in Live(t) : t.omap[q] = k =>
            q \in Live(u) /\ u.omap[q] = k /\ u.vals[q] = t.vals[q]
    BY <1>1, <1>2, <1>7
  <2>2. \A q \in Live(u) : u.omap[q] = k => q \in Live(t) /\ t.omap[q] = k
    BY <1>2
  <2> QED
    BY <1>5, <2>1, <2>2, GetAgrees
<1> QED
  BY <1>3, <1>5, <1>6, <1>7

-----------------------------------------------------------------------------

(* The binary search, of the keys that the places 1 .. n of the index have *)

Ascending(n, at) == \A i, j \in 1 .. n : i < j => at[i] <= at[j]

(* x is the first, or the last, of the places low .. high that has the key *)
IsPlace(at, key, last, low, high, x) ==
    \/ /\ x = NoEntry
       /\ \A i \in low .. high : at[i] # key
    \/ /\ x \in low .. high /\ at[x] = key
       /\ \A i \in low .. high : at[i] = key => IF last THEN i <= x ELSE x <= i

LEMMA PlaceUnique ==
    ASSUME NEW n \in Nat, NEW at, NEW key, NEW last,
           NEW low \in 1 .. n + 1, NEW high \in 0 .. n, NEW x, NEW y,
           IsPlace(at, key, last, low, high, x),
           IsPlace(at, key, last, low, high, y)
    PROVE  x = y
BY DEF IsPlace, NoEntry

(* one round of the search *)
Half(last, at, key, mid) == at[mid] < key \/ (last /\ at[mid] = key)

(* next is the place in the half that the round goes on with *)
Narrowed(at, key, last, low, high, mid, next) ==
    IF Half(last, at, key, mid)
      THEN IsPlace(at, key, last, mid + 1, high, next)
      ELSE IsPlace(at, key, last, low, mid - 1, next)

LEMMA SearchStep ==
    ASSUME NEW n \in Nat, NEW at \in [1 .. n -> Nat], Ascending(n, at),
           NEW key \in Nat, NEW last \in BOOLEAN,
           NEW low \in 1 .. n + 1, NEW high \in 0 .. n,
           NEW mid \in low .. high, NEW next,
           Narrowed(at, key, last, low, high, mid, next)
    PROVE  IsPlace(at, key, last, low, high,
                   IF at[mid] = key /\ next = NoEntry THEN mid ELSE next)
<1>1. mid \in low .. high /\ low \in Int /\ high \in Int /\ mid \in 1 .. n
  OBVIOUS
<1>2. \A i \in low .. high : i \in 1 .. n /\ at[i] \in Nat
  OBVIOUS
<1>3. \A i \in low .. high : (i < mid => at[i] <= at[mid])
                          /\ (i > mid => at[mid] <= at[i])
  BY <1>1, <1>2 DEF Ascending
<1> DEFINE x == IF at[mid] = key /\ next = NoEntry THEN mid ELSE next
<1>4. CASE at[mid] < key
  <2>1. IsPlace(at, key, last, mid + 1, high, next)
    BY <1>4 DEF Narrowed, Half
  <2>2. \A i \in low .. mid : at[i] # key
    BY <1>1, <1>2, <1>3, <1>4, SMTT(30)
  <2>3. x = next
    BY <1>2, <1>1, <1>4
  <2>4. IsPlace(at, key, last, low, high, next)
    BY <1>1, <2>1, <2>2 DEF IsPlace, NoEntry
  <2> QED
    BY <1>1, <2>3, <2>4
<1>5. CASE key < at[mid]
  <2>1. IsPlace(at, key, last, low, mid - 1, next)
    BY <1>1, <1>2, <1>5 DEF Narrowed, Half
  <2>2. \A i \in mid .. high : at[i] # key
    BY <1>1, <1>2, <1>3, <1>5
  <2>3. x = next
    BY <1>2, <1>1, <1>5
  <2>4. IsPlace(at, key, last, low, high, next)
    BY <1>1, <2>1, <2>2 DEF IsPlace, NoEntry
  <2> QED
    BY <1>1, <2>3, <2>4
<1>6. CASE at[mid] = key /\ last
  <2>1. IsPlace(at, key, last, mid + 1, high, next)
    BY <1>6 DEF Narrowed, Half
  <2>2. CASE next = NoEntry
    <3>1. \A i \in mid + 1 .. high : at[i] # key
      BY <1>1, <2>1, <2>2 DEF IsPlace, NoEntry
    <3>2. IsPlace(at, key, last, low, high, mid)
      BY <1>1, <1>6, <3>1 DEF IsPlace
    <3> QED
      BY <1>1, <1>6, <2>2, <3>2
  <2>3. CASE next # NoEntry
    <3>1. IsPlace(at, key, last, low, high, next)
      BY <1>1, <1>6, <2>1, <2>3 DEF IsPlace
    <3> QED
      BY <1>1, <2>3, <3>1
  <2> QED
    BY <2>2, <2>3
<1>7. CASE at[mid] = key /\ ~last
  <2>1. IsPlace(at, key, last, low, mid - 1, next)
    BY <1>7, <1>1 DEF Narrowed, Half
  <2>2. CASE next = NoEntry
    <3>1. \A i \in low .. mid - 1 : at[i] # key
      BY <1>1, <2>1, <2>2 DEF IsPlace, NoEntry
    <3>2. IsPlace(at, key, last, low, high, mid)
      BY <1>1, <1>7, <3>1 DEF IsPlace
    <3> QED
      BY <1>1, <1>7, <2>2, <3>2
  <2>3. CASE next # NoEntry
    <3>1. IsPlace(at, key, last, low, high, next)
      BY <1>1, <1>7, <2>1, <2>3 DEF IsPlace
    <3> QED
      BY <1>1, <2>3, <3>1
  <2> QED
    BY <2>2, <2>3
<1> QED
  BY <1>1, <1>2, <1>4, <1>5, <1>6, <1>7

(* Every part of an ascending index has the place that the search is for. *)
LEMMA PlaceExists ==
    ASSUME NEW n \in Nat, NEW at \in [1 .. n -> Nat], Ascending(n, at),
           NEW key \in Nat, NEW last \in BOOLEAN
    PROVE  \A low \in 1 .. n + 1, high \in 0 .. n :
               \E x \in Nat : IsPlace(at, key, last, low, high, x)
<1> DEFINE N == n + 1
           Within(k) == \A low \in 1 .. n + 1, high \in 0 .. n :
               high - low < k - 1 =>
                   \E x \in Nat : IsPlace(at, key, last, low, high, x)
           T == {k \in 0 .. N : Within(k)}
<1>0. N \in Nat
  OBVIOUS
<1>1. Within(0)
  <2>1. ASSUME NEW low \in 1 .. n + 1, NEW high \in 0 .. n, high - low < 0 - 1
        PROVE  IsPlace(at, key, last, low, high, NoEntry)
    BY <2>1 DEF IsPlace
  <2> QED
    BY <2>1 DEF NoEntry
<1>2. ASSUME NEW k \in 1 .. N, Within(k - 1) PROVE Within(k)
  <2>1. SUFFICES ASSUME NEW low \in 1 .. n + 1, NEW high \in 0 .. n,
                        high - low < k - 1
                 PROVE  \E x \in Nat : IsPlace(at, key, last, low, high, x)
    BY <1>2
  <2>2. CASE high < low
    <3>1. IsPlace(at, key, last, low, high, NoEntry)
      BY <2>2 DEF IsPlace
    <3> QED
      BY <3>1 DEF NoEntry
  <2>3. CASE low <= high
    <3> DEFINE mid == low + (high - low) \div 2
    <3>1. mid \in low .. high
      <4>1. (high - low) \div 2 \in 0 .. high - low
        BY <2>3
      <4> QED
        BY <4>1
    <3> HIDE DEF mid
    <3>2. /\ mid + 1 \in 1 .. n + 1 /\ high - (mid + 1) < (k - 1) - 1
          /\ mid - 1 \in 0 .. n /\ (mid - 1) - low < (k - 1) - 1
      BY <2>1, <3>1
    <3>3. /\ \E x \in Nat : IsPlace(at, key, last, mid + 1, high, x)
          /\ \E x \in Nat : IsPlace(at, key, last, low, mid - 1, x)
      BY <1>2, <3>2
    <3>4. PICK next \in Nat : Narrowed(at, key, last, low, high, mid, next)
      BY <3>3 DEF Narrowed
    <3>5. IsPlace(at, key, last, low, high,
                  IF at[mid] = key /\ next = NoEntry THEN mid ELSE next)
      BY <3>1, <3>4, SearchStep
    <3>6. (IF at[mid] = key /\ next = NoEntry THEN mid ELSE next) \in Nat
      BY <3>1
    <3> QED
      BY <3>5, <3>6
  <2> QED
    BY <2>2, <2>3
<1>3. Within(N)
  <2>1. 0 \in T /\ \A k \in 1 .. N : k - 1 \in T => k \in T
    <3> HIDE DEF Within
    <3> QED
      BY <1>0, <1>1, <1>2
  <2>2. \A k \in 0 .. N : k \in T
    <3> HIDE DEF T, N
    <3> QED
      BY <1>0, <2>1, Induction
  <2>3. N \in T
    <3> HIDE DEF T, N
    <3> QED
      BY <1>0, <2>2
  <2> QED
    BY <2>3
<1>4. \A low \in 1 .. n + 1, high \in 0 .. n : high - low < N - 1
  OBVIOUS
<1> QED
  BY <1>3, <1>4

(* qmap_bsearch_ex as the function of the part that is left to search *)
Round(last, at, key, s, low, high) ==
    LET mid  == low + (high - low) \div 2
        next == IF Half(last, at, key, mid)
                  THEN s[<<mid + 1, high>>] ELSE s[<<low, mid - 1>>]
    IN  IF low > high THEN NoEntry
        ELSE IF at[mid] = key /\ next = NoEntry THEN mid ELSE next

LEMMA RoundFinds ==
    ASSUME NEW n \in Nat, NEW at \in [1 .. n -> Nat], Ascending(n, at),
           NEW key \in Nat, NEW last \in BOOLEAN, NEW s,
           NEW low \in 1 .. n + 1, NEW high \in 0 .. n,
           \A l \in 1 .. n + 1, h \in 0 .. n :
               h - l < high - low => IsPlace(at, key, last, l, h, s[<<l, h>>])
    PROVE  IsPlace(at, key, last, low, high, Round(last, at, key, s, low, high))
<1>1. CASE low > high
  BY <1>1 DEF Round, IsPlace
<1>2. CASE low <= high
  <2> DEFINE mid == low + (high - low) \div 2
  <2>1. mid \in low .. high
    <3>1. (high - low) \div 2 \in 0 .. high - low
      BY <1>2
    <3> QED
      BY <3>1
  <2> HIDE DEF mid
  <2>2. /\ mid + 1 \in 1 .. n + 1 /\ high - (mid + 1) < high - low
        /\ mid - 1 \in 0 .. n /\ (mid - 1) - low < high - low
    BY <2>1
  <2> DEFINE next == IF Half(last, at, key, mid)
                       THEN s[<<mid + 1, high>>] ELSE s[<<low, mid - 1>>]
  <2>3. Narrowed(at, key, last, low, high, mid, next)
    BY <2>2 DEF Narrowed
  <2>4. Round(last, at, key, s, low, high) =
            IF at[mid] = key /\ next = NoEntry THEN mid ELSE next
    BY <1>2 DEF Round, mid
  <2> HIDE DEF next
  <2> QED
    BY <2>1, <2>3, <2>4, SearchStep
<1> QED
  BY <1>1, <1>2

Rounds(n, last, at, key, s) ==
    [part \in (1 .. n + 1) \X (0 .. n) |->
        Round(last, at, key, s, part[1], part[2])]

(* The rounds have a result. *)
LEMMA RoundsEnd ==
    ASSUME NEW n \in Nat, NEW at \in [1 .. n -> Nat], Ascending(n, at),
           NEW key \in Nat, NEW last \in BOOLEAN
    PROVE  \E s : s = Rounds(n, last, at, key, s)
<1> DEFINE D == (1 .. n + 1) \X (0 .. n)
           g == [part \in D |-> CHOOSE x \in Nat :
                    IsPlace(at, key, last, part[1], part[2], x)]
<1>1. \A low \in 1 .. n + 1, high \in 0 .. n :
          IsPlace(at, key, last, low, high, g[<<low, high>>])
  <2>1. ASSUME NEW low \in 1 .. n + 1, NEW high \in 0 .. n
        PROVE  IsPlace(at, key, last, low, high, g[<<low, high>>])
    <3>1. g[<<low, high>>] =
              CHOOSE x \in Nat : IsPlace(at, key, last, low, high, x)
      OBVIOUS
    <3>2. \E x \in Nat : IsPlace(at, key, last, low, high, x)
      BY PlaceExists
    <3> HIDE DEF g
    <3> QED
      BY <3>1, <3>2, Zenon
  <2> QED
    BY <2>1
<1>2. g = Rounds(n, last, at, key, g)
  <2> DEFINE r == Rounds(n, last, at, key, g)
  <2>1. ASSUME NEW part \in D PROVE g[part] = r[part]
    <3>1. PICK low \in 1 .. n + 1, high \in 0 .. n : part = <<low, high>>
      OBVIOUS
    <3>2. r[part] = Round(last, at, key, g, low, high)
      BY <3>1 DEF Rounds
    <3>3. IsPlace(at, key, last, low, high, Round(last, at, key, g, low, high))
      <4> HIDE DEF g
      <4> QED
        BY <1>1, RoundFinds
    <3>4. IsPlace(at, key, last, low, high, g[part])
      BY <1>1, <3>1
    <3> DEFINE x == g[part]
               y == Round(last, at, key, g, low, high)
    <3> HIDE DEF x, y
    <3>5. IsPlace(at, key, last, low, high, x) /\ IsPlace(at, key, last, low, high, y)
      BY <3>3, <3>4 DEF x, y
    <3>6. x = y
      BY <3>5, PlaceUnique
    <3> HIDE DEF g, r
    <3> QED
      BY <3>2, <3>6 DEF x, y
  <2>2. r = [part \in D |-> r[part]]
    BY DEF Rounds
  <2>3. g = [part \in D |-> g[part]]
    OBVIOUS
  <2> HIDE DEF g, r
  <2>4. g = r
    BY <2>1, <2>2, <2>3
  <2> QED
    BY <2>4 DEF r
<1> QED
  <2> HIDE DEF g
  <2> QED
    BY <1>2, Zenon

(* The result is the place, in every part. *)
LEMMA RoundsFind ==
    ASSUME NEW n \in Nat, NEW at \in [1 .. n -> Nat], Ascending(n, at),
           NEW key \in Nat, NEW last \in BOOLEAN, NEW s,
           s = Rounds(n, last, at, key, s)
    PROVE  IsPlace(at, key, last, 1, n, s[<<1, n>>])
<1>1. \A low \in 1 .. n + 1, high \in 0 .. n :
          s[<<low, high>>] = Round(last, at, key, s, low, high)
  <2>1. ASSUME NEW low \in 1 .. n + 1, NEW high \in 0 .. n
        PROVE  Rounds(n, last, at, key, s)[<<low, high>>]
                  = Round(last, at, key, s, low, high)
    BY DEF Rounds
  <2> QED
    BY <2>1, Zenon
<1> DEFINE N == n + 1
           Within(k) == \A low \in 1 .. n + 1, high \in 0 .. n :
               high - low < k - 1 =>
                   IsPlace(at, key, last, low, high, s[<<low, high>>])
           T == {k \in 0 .. N : Within(k)}
<1>0. N \in Nat
  OBVIOUS
<1>2. Within(0)
  <2>1. ASSUME NEW low \in 1 .. n + 1, NEW high \in 0 .. n, high - low < 0 - 1
        PROVE  IsPlace(at, key, last, low, high, s[<<low, high>>])
    <3>1. Round(last, at, key, s, low, high) = NoEntry
      BY <2>1 DEF Round
    <3>2. s[<<low, high>>] = NoEntry
      BY <1>1, <3>1
    <3>3. low .. high = {}
      BY <2>1
    <3> QED
      BY <3>2, <3>3 DEF IsPlace
  <2> QED
    BY <2>1
<1>3. ASSUME NEW k \in 1 .. N, Within(k - 1) PROVE Within(k)
  <2>1. ASSUME NEW low \in 1 .. n + 1, NEW high \in 0 .. n, high - low < k - 1
        PROVE  IsPlace(at, key, last, low, high, s[<<low, high>>])
    <3>0. \A l \in 1 .. n + 1, h \in 0 .. n :
              h - l < high - low => h - l < (k - 1) - 1
      BY <2>1
    <3>1. \A l \in 1 .. n + 1, h \in 0 .. n :
              h - l < high - low => IsPlace(at, key, last, l, h, s[<<l, h>>])
      BY <1>3, <3>0
    <3>2. IsPlace(at, key, last, low, high, Round(last, at, key, s, low, high))
      BY <3>1, RoundFinds
    <3>3. s[<<low, high>>] = Round(last, at, key, s, low, high)
      BY <1>1
    <3> QED
      BY <3>2, <3>3
  <2> QED
    BY <2>1
<1>4. Within(N)
  <2>1. 0 \in T /\ \A k \in 1 .. N : k - 1 \in T => k \in T
    <3> HIDE DEF Within
    <3> QED
      BY <1>0, <1>2, <1>3
  <2>2. \A k \in 0 .. N : k \in T
    <3> HIDE DEF T, N
    <3> QED
      BY <1>0, <2>1, Induction
  <2>3. N \in T
    <3> HIDE DEF T, N
    <3> QED
      BY <1>0, <2>2
  <2> QED
    BY <2>3
<1>5. 1 \in 1 .. n + 1 /\ n \in 0 .. n /\ n - 1 < N - 1
  OBVIOUS
<1> QED
  BY <1>4, <1>5

(* The index lists every entry once, keys ascending. *)
Lists(t, read) ==
    /\ read \in Seq(Nat)
    /\ Len(read) = Cardinality(Live(t))
    /\ \A i \in 1 .. Len(read) : read[i] \in Live(t)
    /\ \A i, j \in 1 .. Len(read) : read[i] = read[j] => i = j
    /\ \A p \in Live(t) : \E i \in 1 .. Len(read) : read[i] = p
    /\ \A i, j \in 1 .. Len(read) :
          i < j => t.omap[read[i]] <= t.omap[read[j]]

KeysAlong(t, read) == [i \in 1 .. Len(read) |-> t.omap[read[i]]]

LEMMA KeysAscend ==
    ASSUME NEW t, Typed(t), NEW read, Lists(t, read)
    PROVE  /\ Len(read) \in Nat
           /\ KeysAlong(t, read) \in [1 .. Len(read) -> Nat]
           /\ Ascending(Len(read), KeysAlong(t, read))
           /\ \A i \in 1 .. Len(read) :
                 read[i] \in Live(t) /\ KeysAlong(t, read)[i] = t.omap[read[i]]
<1>1. Len(read) \in Nat
  BY DEF Lists
<1>2. \A p \in Live(t) : t.omap[p] \in Nat
  <2>1. \A p \in Live(t) : p \in Slots(t) /\ t.omap[p] # NULL
    BY LiveFinite DEF Live
  <2>2. t.omap \in [Slots(t) -> Keys \cup {NULL}]
    BY Fields
  <2> QED
    BY <2>1, <2>2, TableAssumption
<1>3. \A i \in 1 .. Len(read) : read[i] \in Live(t)
  BY DEF Lists
<1>4. \A i, j \in 1 .. Len(read) : i < j => t.omap[read[i]] <= t.omap[read[j]]
  BY DEF Lists
<1> QED
  BY <1>1, <1>2, <1>3, <1>4 DEF KeysAlong, Ascending

(* qmap_bsearch_ex finds the first, or the last, place of the key. *)
LEMMA BsearchFinds ==
    ASSUME NEW t, Typed(t), NEW read, Lists(t, read),
           NEW key \in Keys, NEW last \in BOOLEAN
    PROVE  IsPlace(KeysAlong(t, read), key, last, 1, Len(read),
                   Bsearch(t, read, key, last))
<1> DEFINE n == Len(read)
           at == KeysAlong(t, read)
           Step(s, low, high) ==
               LET mid  == low + (high - low) \div 2
                   next == IF t.omap[read[mid]] < key \/ (last /\ t.omap[read[mid]] = key)
                             THEN s[<<mid + 1, high>>] ELSE s[<<low, mid - 1>>]
               IN  IF low > high THEN NoEntry
                   ELSE IF t.omap[read[mid]] = key /\ next = NoEntry THEN mid ELSE next
           Rule(s) == [part \in Parts(read) |-> Step(s, part[1], part[2])]
           search == CHOOSE s : s = Rule(s)
<1>1. Bsearch(t, read, key, last) = search[<<1, n>>]
  BY DEF Bsearch
<1>2. /\ n \in Nat /\ at \in [1 .. n -> Nat] /\ Ascending(n, at) /\ key \in Nat
      /\ \A i \in 1 .. n : at[i] = t.omap[read[i]]
  BY KeysAscend, TableAssumption
<1>3. ASSUME NEW s PROVE Rule(s) = Rounds(n, last, at, key, s)
  <2>1. ASSUME NEW low \in 1 .. n + 1, NEW high \in 0 .. n
        PROVE  Step(s, low, high) = Round(last, at, key, s, low, high)
    <3>1. CASE low > high
      BY <3>1 DEF Round
    <3>2. CASE low <= high
      <4>1. low + (high - low) \div 2 \in 1 .. n
        <5>1. (high - low) \div 2 \in 0 .. high - low
          BY <3>2
        <5> QED
          BY <5>1
      <4>2. at[low + (high - low) \div 2] = t.omap[read[low + (high - low) \div 2]]
        BY <1>2, <4>1
      <4> HIDE DEF at
      <4> QED
        BY <4>2, Zenon DEF Round, Half
    <3> QED
      BY <1>2, <3>1, <3>2
  <2>2. Parts(read) = (1 .. n + 1) \X (0 .. n)
    BY DEF Parts
  <2>3. ASSUME NEW part \in (1 .. n + 1) \X (0 .. n)
        PROVE  Step(s, part[1], part[2])
                  = Round(last, at, key, s, part[1], part[2])
    <3>1. part[1] \in 1 .. n + 1 /\ part[2] \in 0 .. n
      OBVIOUS
    <3> HIDE DEF Step, n, at
    <3> QED
      BY <2>1, <3>1
  <2> HIDE DEF Step, n, at
  <2> QED
    BY <2>2, <2>3, Zenon DEF Rounds
<1> HIDE DEF n, at
<1>4. \E s : s = Rounds(n, last, at, key, s)
  BY <1>2, RoundsEnd
<1> HIDE DEF Rule
<1>5. \E s : s = Rule(s)
  BY <1>3, <1>4, Zenon
<1>6. search = Rule(search)
  BY <1>5, Zenon
<1> HIDE DEF search
<1>7. search = Rounds(n, last, at, key, search)
  BY <1>3, <1>6, Zenon
<1>8. IsPlace(at, key, last, 1, n, search[<<1, n>>])
  BY <1>2, <1>7, RoundsFind
<1> QED
  BY <1>1, <1>8 DEF n, at

(* s lists S: each of its members once. *)
Enumerates(s, n, S) ==
    /\ \A i \in 1 .. n : s[i] \in S
    /\ \A i, j \in 1 .. n : s[i] = s[j] => i = j
    /\ \A x \in S : \E i \in 1 .. n : s[i] = x

LEMMA EnumeratedCount ==
    ASSUME NEW n \in Nat, NEW s, NEW S, Enumerates(s, n, S)
    PROVE  IsFiniteSet(S) /\ Cardinality(S) = n
<1> DEFINE f == [i \in 1 .. n |-> s[i]]
<1>1. /\ f \in [1 .. n -> S]
      /\ \A i, j \in 1 .. n : f[i] = f[j] => i = j
      /\ \A x \in S : \E i \in 1 .. n : f[i] = x
  BY DEF Enumerates
<1> HIDE DEF f
<1>2. f \in Bijection(1 .. n, S)
  BY <1>1, Fun_IsBij, Zenon
<1>3. ExistsBijection(1 .. n, S)
  BY <1>2, Fun_ExistsBij, Zenon
<1> QED
  BY <1>3, FS_CountingElements, FS_NatBijection, Zenon

EntriesOf(t, key) == {p \in Live(t) : t.omap[p] = key}

(* The places f to l of the index are those of the entries in E. *)
Enclosed(read, E, f, l) ==
    \/ f = NoEntry /\ E = {}
    \/ /\ f \in 1 .. Len(read) /\ l \in f .. Len(read)
       /\ \A i \in f .. l : read[i] \in E
       /\ \A p \in E : \E i \in f .. l : read[i] = p

LEMMA SearchesEnclose ==
    ASSUME NEW t, Typed(t), NEW read, Lists(t, read), NEW key \in Keys
    PROVE  Enclosed(read, EntriesOf(t, key),
                    FirstOf(t, read, key), LastOf(t, read, key))
<1> DEFINE f == FirstOf(t, read, key)
           l == LastOf(t, read, key)
           n == Len(read)
           at == KeysAlong(t, read)
<1>1. IsPlace(at, key, FALSE, 1, n, f) /\ IsPlace(at, key, TRUE, 1, n, l)
  BY BsearchFinds DEF FirstOf, LastOf
<1>2. /\ n \in Nat /\ at \in [1 .. n -> Nat] /\ Ascending(n, at) /\ key \in Nat
      /\ \A i \in 1 .. n : read[i] \in Live(t) /\ at[i] = t.omap[read[i]]
  BY KeysAscend, TableAssumption
<1>3. \A p \in EntriesOf(t, key) : \E i \in 1 .. n : read[i] = p /\ at[i] = key
  BY <1>2 DEF Lists, EntriesOf
<1> HIDE DEF f, l, n, at
<1>4. CASE f = NoEntry
  <2>1. \A i \in 1 .. n : at[i] # key
    BY <1>1, <1>2, <1>4 DEF IsPlace, NoEntry
  <2>2. EntriesOf(t, key) = {}
    BY <1>3, <2>1
  <2> QED
    BY <1>4, <2>2 DEF f, Enclosed
<1>5. CASE f # NoEntry
  <2>1. /\ f \in 1 .. n /\ at[f] = key
        /\ \A i \in 1 .. n : at[i] = key => f <= i
    BY <1>1, <1>2, <1>5 DEF IsPlace
  <2>2. /\ l \in 1 .. n /\ at[l] = key
        /\ \A i \in 1 .. n : at[i] = key => i <= l
    BY <1>1, <1>2, <2>1 DEF IsPlace
  <2>3. l \in f .. n
    BY <2>1, <2>2
  <2>4. ASSUME NEW i \in f .. l PROVE read[i] \in EntriesOf(t, key)
    <3>1. i \in 1 .. n
      BY <1>2, <2>1, <2>2
    <3>2. at[f] <= at[i] /\ at[i] <= at[l]
      BY <1>2, <2>1, <2>2, <3>1 DEF Ascending
    <3>3. at[i] = key
      BY <1>2, <2>1, <2>2, <3>1, <3>2
    <3> QED
      BY <1>2, <3>1, <3>3 DEF EntriesOf
  <2>5. ASSUME NEW p \in EntriesOf(t, key) PROVE \E i \in f .. l : read[i] = p
    <3>1. PICK i \in 1 .. n : read[i] = p /\ at[i] = key
      BY <1>3
    <3>2. i \in f .. l
      BY <2>1, <2>2, <3>1
    <3> QED
      BY <3>1, <3>2
  <2> QED
    BY <2>1, <2>3, <2>4, <2>5 DEF f, l, n, Enclosed
<1> QED
  BY <1>4, <1>5

(* What a cursor on the key returns, and what qmap_count does. *)
LEMMA MatchesExact ==
    ASSUME NEW t, Typed(t), NEW read, Lists(t, read), NEW key \in Keys
    PROVE  LET of == Matches(t, read, key)
               f  == FirstOf(t, read, key)
           IN  /\ of \in Seq(Nat) /\ Len(of) \in Nat
               /\ Enumerates(of, Len(of), EntriesOf(t, key))
               /\ of = <<>> => EntriesOf(t, key) = {}
               /\ Range(of) = EntriesOf(t, key)
               /\ Len(of) = Cardinality(EntriesOf(t, key))
               /\ CountKey(t, read, key) = Cardinality(EntriesOf(t, key))
               /\ f = NoEntry => EntriesOf(t, key) = {}
               /\ f # NoEntry => read[f] \in EntriesOf(t, key)
<1> DEFINE f == FirstOf(t, read, key)
           l == LastOf(t, read, key)
           of == Matches(t, read, key)
           E == EntriesOf(t, key)
<1>1. CASE f = NoEntry /\ E = {}
  <2>1. of = <<>> /\ CountKey(t, read, key) = 0
    BY <1>1 DEF Matches, CountKey
  <2>2. of \in Seq(Nat) /\ Len(of) = 0
    BY <2>1, EmptySeq
  <2>3. Enumerates(of, Len(of), E)
    BY <1>1, <2>2 DEF Enumerates
  <2>4. Cardinality(E) = 0
    BY <1>1, FS_EmptySet
  <2>5. Range(of) = {of[i] : i \in 1 .. Len(of)}
    BY <2>2, RangeEquality, Zenon
  <2>6. Range(of) = {}
    BY <2>2, <2>5
  <2> QED
    BY <1>1, <2>1, <2>2, <2>3, <2>4, <2>6
<1>2. CASE /\ f \in 1 .. Len(read) /\ l \in f .. Len(read)
           /\ \A i \in f .. l : read[i] \in E
           /\ \A p \in E : \E i \in f .. l : read[i] = p
  <2>0. f \in Nat /\ l \in Nat /\ 1 <= f /\ f <= l /\ f # NoEntry
    BY <1>2 DEF NoEntry
  <2>1. of = SubSeq(read, f, l) /\ CountKey(t, read, key) = l - f + 1
    BY <2>0 DEF Matches, CountKey
  <2>2. /\ read \in Seq(Nat)
        /\ \A i, j \in 1 .. Len(read) : read[i] = read[j] => i = j
    BY DEF Lists
  <2>3. \A i \in f .. l : i \in 1 .. Len(read) /\ read[i] \in Nat
    BY <1>2, <2>2, ElementOfSeq
  <2> HIDE DEF f, l, of, E
  <2>4. /\ of \in Seq(Nat)
        /\ Len(of) = l - f + 1
        /\ \A i \in 1 .. l - f + 1 : of[i] = read[f + i - 1]
    <3>1. /\ SubSeq(read, f, l) \in Seq(Nat)
          /\ Len(SubSeq(read, f, l)) = IF f <= l THEN l - f + 1 ELSE 0
          /\ \A i \in 1 .. l - f + 1 : SubSeq(read, f, l)[i] = read[f + i - 1]
      <4>1. f \in Int /\ l \in Int /\ \A i \in f .. l : read[i] \in Nat
        BY <2>0, <2>3
      <4> QED
        BY <4>1, SubSeqProperties
    <3> QED
      BY <2>0, <2>1, <3>1
  <2>5. Enumerates(of, l - f + 1, E)
    <3>1. \A i \in 1 .. l - f + 1 : f + i - 1 \in f .. l
      BY <2>0
    <3>2. ASSUME NEW i \in 1 .. l - f + 1 PROVE of[i] \in E
      BY <1>2, <2>4, <3>1
    <3>3. ASSUME NEW i \in 1 .. l - f + 1, NEW j \in 1 .. l - f + 1, of[i] = of[j]
          PROVE  i = j
      <4>1. read[f + i - 1] = read[f + j - 1]
        BY <2>4, <3>3
      <4>2. f + i - 1 = f + j - 1
        BY <2>2, <2>3, <3>1, <4>1
      <4> QED
        BY <2>0, <4>2
    <3>4. ASSUME NEW p \in E PROVE \E i \in 1 .. l - f + 1 : of[i] = p
      <4>1. PICK i \in f .. l : read[i] = p
        BY <1>2
      <4>2. i - f + 1 \in 1 .. l - f + 1 /\ f + (i - f + 1) - 1 = i
        BY <2>0
      <4> QED
        BY <2>4, <4>1, <4>2
    <3> QED
      BY <3>2, <3>3, <3>4 DEF Enumerates
  <2>6. Len(of) \in Nat /\ Len(of) = l - f + 1 /\ l - f + 1 # 0
    BY <2>0, <2>4
  <2>7. Cardinality(E) = l - f + 1
    BY <2>5, <2>6, EnumeratedCount
  <2>8. of # <<>>
    BY <2>4, <2>6, EmptySeq
  <2>9. Range(of) = E
    <3>1. Range(of) = {of[i] : i \in 1 .. Len(of)}
      BY <2>4, RangeEquality, Zenon
    <3>2. \A x \in {of[i] : i \in 1 .. Len(of)} : x \in E
      BY <2>5, <2>6 DEF Enumerates
    <3>3. \A x \in E : x \in {of[i] : i \in 1 .. Len(of)}
      BY <2>5, <2>6 DEF Enumerates
    <3> QED
      BY <3>1, <3>2, <3>3, Zenon
  <2>10. read[f] \in E
    BY <1>2, <2>0
  <2>11. CountKey(t, read, key) = Cardinality(E)
    BY <2>1, <2>7
  <2>12. Enumerates(of, Len(of), E) /\ Len(of) = Cardinality(E)
    BY <2>5, <2>6, <2>7
  <2> QED
    BY <2>0, <2>4, <2>6, <2>8, <2>9, <2>10, <2>11, <2>12 DEF f, of, E
<1>3. Enclosed(read, E, f, l)
  BY SearchesEnclose
<1> QED
  <2> HIDE DEF f, l, of, E
  <2>1. \/ f = NoEntry /\ E = {}
        \/ /\ f \in 1 .. Len(read) /\ l \in f .. Len(read)
           /\ \A i \in f .. l : read[i] \in E
           /\ \A p \in E : \E i \in f .. l : read[i] = p
    BY <1>3 DEF Enclosed
  <2> USE DEF f, l, of, E
  <2> QED
    BY <1>1, <1>2, <2>1

-----------------------------------------------------------------------------

LEMMA LiveKeys ==
    ASSUME NEW t, Typed(t)
    PROVE  \A p \in Live(t) : p \in Nat /\ p \in Slots(t) /\ t.omap[p] \in Keys
                              /\ t.omap[p] \in Nat
<1>1. t.idm.last \in Nat /\ t.omap \in [Slots(t) -> Keys \cup {NULL}]
  BY Fields
<1>2. \A p \in Live(t) : p \in Slots(t) /\ t.omap[p] # NULL /\ p \in 0 .. t.idm.last - 1
  BY LiveFinite DEF Live
<1>3. \A p \in Live(t) : p \in Nat
  BY <1>1, <1>2
<1>4. \A p \in Live(t) : t.omap[p] \in Keys
  BY <1>1, <1>2
<1> QED
  BY <1>2, <1>3, <1>4, TableAssumption

(* As many places as entries, each with an entry of its own: the index     *)
(* lists them all.                                                         *)
LEMMA InjectiveLists ==
    ASSUME NEW t, Typed(t), NEW f \in [1 .. Cardinality(Live(t)) -> Live(t)],
           \A i, j \in 1 .. Cardinality(Live(t)) : f[i] = f[j] => i = j,
           \A i, j \in 1 .. Cardinality(Live(t)) :
               i < j => t.omap[f[i]] <= t.omap[f[j]]
    PROVE  Lists(t, f)
<1> DEFINE C == Cardinality(Live(t))
<1>1. C \in Nat /\ IsFiniteSet(Live(t))
  BY LiveFinite
<1>2. Cardinality(1 .. C) = C
  BY <1>1, FS_Interval
<1>3. \A i, j \in 1 .. C : f[i] = f[j] => i = j
  OBVIOUS
<1>4. \A i, j \in 1 .. C : i < j => t.omap[f[i]] <= t.omap[f[j]]
  OBVIOUS
<1>5. f \in [1 .. C -> Live(t)]
  OBVIOUS
<1> HIDE DEF C
<1>6. f \in Injection(1 .. C, Live(t))
  BY <1>3, <1>5, Fun_IsInj, Zenon
<1>7. f \in Surjection(1 .. C, Live(t))
  BY <1>1, <1>2, <1>6, FS_Injection DEF C
<1>8. \A p \in Live(t) : \E i \in 1 .. C : f[i] = p
  BY <1>7, Zenon DEF Surjection
<1>9. f \in Seq(Nat) /\ Len(f) = C
  <2>1. Live(t) \subseteq Nat
    BY LiveKeys
  <2>2. f \in [1 .. C -> Nat]
    BY <1>5, <2>1
  <2>3. f \in Seq(Nat)
    <3>1. f \in UNION {[1 .. k -> Nat] : k \in Nat}
      BY <1>1, <2>2
    <3> QED
      BY <3>1, SeqDef, Zenon
  <2> QED
    BY <1>1, <2>2, <2>3, LenProperties
<1>10. \A i \in 1 .. C : f[i] \in Live(t)
  BY <1>5
<1> QED
  BY <1>3, <1>4, <1>8, <1>9, <1>10 DEF Lists, C

(* An order in which no two neighbours are the wrong way round is sorted. *)
LEMMA NeighboursSorted ==
    ASSUME NEW n \in Nat, NEW at \in [1 .. n -> Nat],
           \A i \in 1 .. n - 1 : at[i] <= at[i + 1]
    PROVE  \A i, j \in 1 .. n : i < j => at[i] <= at[j]
<1> SUFFICES ASSUME NEW i \in 1 .. n
             PROVE  \A j \in 1 .. n : i < j => at[i] <= at[j]
  OBVIOUS
<1> DEFINE T == {j \in 0 .. n : i < j => at[i] <= at[j]}
<1>1. 0 \in T
  OBVIOUS
<1>2. ASSUME NEW j \in 1 .. n, j - 1 \in T PROVE j \in T
  <2>1. CASE i < j - 1
    <3>1. j - 1 \in 1 .. n - 1 /\ (j - 1) + 1 = j
      BY <2>1
    <3>2. at[j - 1] <= at[j]
      BY <3>1
    <3>3. at[i] <= at[j - 1]
      BY <1>2, <2>1
    <3>4. at[i] \in Nat /\ at[j - 1] \in Nat /\ at[j] \in Nat
      BY <3>1
    <3> QED
      BY <3>2, <3>3, <3>4
  <2>2. CASE i = j - 1
    <3>1. j - 1 \in 1 .. n - 1 /\ (j - 1) + 1 = j
      BY <2>2
    <3>2. at[j - 1] <= at[j]
      BY <3>1
    <3> QED
      BY <2>2, <3>2
  <2>3. CASE ~(i <= j - 1)
    BY <2>3
  <2> QED
    BY <2>1, <2>2, <2>3
<1>3. \A j \in 0 .. n : j \in T
  <2> HIDE DEF T
  <2> QED
    BY <1>1, <1>2, Induction
<1> QED
  BY <1>3

(* qmap_rebuild_sorted lists the entries, whatever qsort does with equal   *)
(* keys.                                                                  *)
LEMMA OrdersList ==
    ASSUME NEW t, Typed(t), NEW f \in IndexOrders(t)
    PROVE  Lists(t, f)
<1> DEFINE C == Cardinality(Live(t))
           at == [i \in 1 .. C |-> t.omap[f[i]]]
<1>1. C \in Nat
  BY LiveFinite
<1>2. f \in SetToSeqs(Live(t)) /\ \A i \in 1 .. Len(f) - 1 : Before(t, f[i], f[i + 1])
  BY DEF IndexOrders
<1>3. f \in [1 .. C -> Live(t)] /\ \A i, j \in 1 .. C : i # j => f[i] # f[j]
  BY <1>2 DEF SetToSeqs
<1>4. Len(f) = C
  <2>1. f \in Seq(Live(t))
    <3>1. f \in UNION {[1 .. k -> Live(t)] : k \in Nat}
      <4> HIDE DEF C
      <4> QED
        BY <1>1, <1>3
    <3> QED
      BY <3>1, SeqDef, Zenon
  <2> HIDE DEF C
  <2> QED
    BY <1>1, <1>3, <2>1, LenProperties
<1>5. at \in [1 .. C -> Nat] /\ \A i \in 1 .. C : at[i] = t.omap[f[i]]
  BY <1>3, LiveKeys
<1>6. ASSUME NEW i \in 1 .. C - 1 PROVE at[i] <= at[i + 1]
  <2>1. i \in 1 .. C /\ i + 1 \in 1 .. C
    BY <1>1
  <2>2. Before(t, f[i], f[i + 1])
    BY <1>2, <1>4
  <2>3. t.omap[f[i]] <= t.omap[f[i + 1]]
    BY <1>3, <2>1, <2>2, LiveKeys DEF Before
  <2> QED
    BY <1>5, <2>1, <2>3
<1> HIDE DEF at
<1>7. \A i, j \in 1 .. C : i < j => at[i] <= at[j]
  <2> HIDE DEF C
  <2> QED
    BY <1>1, <1>5, <1>6, NeighboursSorted
<1>8. \A i, j \in 1 .. C : i < j => t.omap[f[i]] <= t.omap[f[j]]
  BY <1>5, <1>7
<1> QED
  BY <1>3, <1>8, InjectiveLists

(* qmap_ndel_topdown on a QM_MULTIVALUE map takes out the entry it names. *)
LEMMA DeleteListedCounted ==
    ASSUME NEW t, Counted(t), NEW read, Lists(t, read), NEW p \in Live(t)
    PROVE  LET u == DeleteListed(t, read, p)
           IN  Counted(u) /\ Removed(t, u, p)
<1> DEFINE id == Lookup(t, t.omap[p])
           of == Matches(t, read, t.omap[p])
           next == Successor(t, read, p)
           A == IF id = MISS THEN t.map ELSE [t.map EXCEPT ![id] = next]
           u == DeleteListed(t, read, p)
<1>1. /\ Counted(t) /\ Typed(t) /\ t.n \in Nat /\ t.m \in Nat
      /\ t.map \in [Slots(t) -> Nat \cup {MISS}]
      /\ t.omap[p] \in Keys
  BY Fields, LiveKeys DEF Counted
<1>2. next \in Nat \cup {MISS}
  <2>1. of \in Seq(Nat)
    BY <1>1, MatchesExact
  <2>2. of # <<>> => of[1] \in Nat
    <3>1. of # <<>> => 1 \in 1 .. Len(of)
      BY <2>1, EmptySeq
    <3> QED
      BY <2>1, <3>1, ElementOfSeq
  <2>3. Len(of) > 1 => of[2] \in Nat
    <3>1. Len(of) > 1 => 2 \in 1 .. Len(of)
      BY <2>1
    <3> QED
      BY <2>1, <3>1, ElementOfSeq
  <2>4. next = CASE of # <<>> /\ of[1] # p -> of[1]
                 [] Len(of) > 1 /\ of[1] = p -> of[2]
                 [] OTHER -> MISS
    BY DEF Successor
  <2> HIDE DEF next, of
  <2>5. CASE of # <<>> /\ of[1] # p
    BY <2>2, <2>4, <2>5
  <2>6. CASE Len(of) > 1 /\ of[1] = p
    BY <2>3, <2>4, <2>6
  <2>7. CASE ~(of # <<>> /\ of[1] # p) /\ ~(Len(of) > 1 /\ of[1] = p)
    BY <2>4, <2>7
  <2> QED
    BY <2>5, <2>6, <2>7
<1>3. A \in [Slots(t) -> Nat \cup {MISS}]
  <2> HIDE DEF next, id
  <2> QED
    BY <1>1, <1>2
<1>4. u = [m |-> t.m, n |-> t.n - 1, map |-> A,
           omap |-> [t.omap EXCEPT ![p] = NULL],
           vals |-> [t.vals EXCEPT ![p] = NULL],
           idm |-> IdmDel(t.idm, p), dirty |-> TRUE, kind |-> t.kind]
  <2> DEFINE B == [t.omap EXCEPT ![p] = NULL]
             C == [t.vals EXCEPT ![p] = NULL]
             i == IdmDel(t.idm, p)
             D == IF id = MISS THEN t.map ELSE [t.map EXCEPT ![id] = MISS]
             d == DeleteAt(t, p)
  <2>1. t = [m |-> t.m, n |-> t.n, map |-> t.map, omap |-> t.omap,
             vals |-> t.vals, idm |-> t.idm, dirty |-> t.dirty, kind |-> t.kind]
    BY <1>1, Eta, Zenon
  <2>2. d = [t EXCEPT !.map = D, !.omap = B, !.vals = C, !.idm = i,
                      !.n = t.n - 1, !.dirty = TRUE]
    BY <1>1 DEF DeleteAt, Typed
  <2>3. u = [d EXCEPT !.map = A]
    BY DEF DeleteListed
  <2> HIDE DEF A, B, C, D, i, id, next, u, d
  <2>4. d = [m |-> t.m, n |-> t.n - 1, map |-> D, omap |-> B, vals |-> C,
             idm |-> i, dirty |-> TRUE, kind |-> t.kind]
    BY <2>1, <2>2
  <2>5. u = [m |-> t.m, n |-> t.n - 1, map |-> A, omap |-> B, vals |-> C,
             idm |-> i, dirty |-> TRUE, kind |-> t.kind]
    BY <2>3, <2>4
  <2> QED
    BY <2>5 DEF B, C, i
<1> HIDE DEF u, A
<1>5. Counted(u) /\ Removed(t, u, p)
  BY <1>1, <1>3, <1>4, RemoveCounted
<1> QED
  BY <1>5 DEF u

(* Keys that share no home slot share none after growth. *)
LEMMA KeysApartDoubled ==
    ASSUME NEW hash \in [Keys -> Nat], NEW keys \in SUBSET Keys,
           NEW m \in Nat, m > 0, KeysApart(hash, keys, m)
    PROVE  KeysApart(hash, keys, 2 * m)
<1>1. ASSUME NEW a \in Nat
      PROVE  a % m = IF a % (2 * m) < m THEN a % (2 * m) ELSE (a % (2 * m)) - m
  <2> DEFINE q == a \div (2 * m)
             r == a % (2 * m)
  <2>1. q \in Int /\ r \in 0 .. 2 * m - 1 /\ a = q * (2 * m) + r
    BY DivMod
  <2> HIDE DEF q, r
  <2>2. a = (2 * q) * m + r
    BY <2>1
  <2>3. CASE r < m
    <3>1. 2 * q \in Int /\ r \in 0 .. m - 1
      BY <2>1, <2>3
    <3>2. a % m = r
      BY <2>2, <3>1, ModUnique
    <3> QED
      BY <2>3, <3>2 DEF r
  <2>4. CASE ~(r < m)
    <3>1. a = (2 * q + 1) * m + (r - m) /\ r - m \in 0 .. m - 1 /\ 2 * q + 1 \in Int
      BY <2>1, <2>2, <2>4
    <3>2. a % m = r - m
      BY <3>1, ModUnique
    <3> QED
      BY <2>4, <3>2 DEF r
  <2> QED
    BY <2>3, <2>4
<1> SUFFICES ASSUME NEW k \in keys, NEW l \in keys,
                    hash[k] % (2 * m) = hash[l] % (2 * m)
             PROVE  hash[k] % m = hash[l] % m
  BY DEF KeysApart
<1>2. hash[k] \in Nat /\ hash[l] \in Nat
  OBVIOUS
<1> QED
  BY <1>1, <1>2

LEMMA HomeMod ==
    ASSUME NEW t, Typed(t), NEW key \in Keys
    PROVE  Home(t, key) = t.kind.hash[key] % t.m
<1>1. t.kind.hash[key] \in Nat
  BY Fields
<1> QED
  BY <1>1 DEF Home, Probe

=============================================================================
