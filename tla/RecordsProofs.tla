--------------------------- MODULE RecordsProofs ----------------------------
(***************************************************************************)
(* The inverse indexes of a record map are exact for every set of items,   *)
(* targets and lines, for clients that add no reference to a target of     *)
(* which they removed another one.                                         *)
(***************************************************************************)
EXTENDS Records, IdmLemmas, FiniteSetTheorems

(* A text that lost a line does not end in a newline, and the next number  *)
(* would be printed into its last line.                                    *)
Careful == \A u \in Uses : ~u.regrows

-----------------------------------------------------------------------------
(* The texts *)

Text == [lines : Seq(Nat), ended : BOOLEAN]

Lines(text) == {text.lines[i] : i \in 1 .. Len(text.lines)}

Unrepeated(s) == \A i, j \in 1 .. Len(s) : s[i] = s[j] => i = j

(* The first n lines, without p, are kept. *)
KeptUpTo(lines, p, n, kept) ==
    /\ kept \in Seq(Nat)
    /\ {kept[i] : i \in 1 .. Len(kept)} = {lines[i] : i \in 1 .. n} \ {p}
    /\ Unrepeated(kept)

KeepNext(lines, p, n, kept) ==
    IF lines[n] = p THEN kept ELSE Append(kept, lines[n])

LEMMA KeptNext ==
    ASSUME NEW lines \in Seq(Nat), Unrepeated(lines), NEW p,
           NEW n \in 1 .. Len(lines), NEW kept, KeptUpTo(lines, p, n - 1, kept)
    PROVE  KeptUpTo(lines, p, n, KeepNext(lines, p, n, kept))
<1> DEFINE before == {lines[i] : i \in 1 .. n - 1}
           upto == {lines[i] : i \in 1 .. n}
<1>1. Len(lines) \in Nat /\ n \in Nat /\ lines[n] \in Nat
  BY ElementOfSeq
<1>2. upto = before \cup {lines[n]}
  <2>1. \A i \in 1 .. n : i \in 1 .. n - 1 \/ i = n
    BY <1>1
  <2>2. n \in 1 .. n /\ \A i \in 1 .. n - 1 : i \in 1 .. n
    BY <1>1
  <2> QED
    BY <2>1, <2>2
<1>3. lines[n] \notin before
  <2>1. \A i \in 1 .. n - 1 : i \in 1 .. Len(lines) /\ i # n
    BY <1>1
  <2> QED
    BY <2>1 DEF Unrepeated
<1> HIDE DEF before, upto
<1>4. /\ kept \in Seq(Nat) /\ Len(kept) \in Nat
      /\ {kept[i] : i \in 1 .. Len(kept)} = before \ {p}
      /\ Unrepeated(kept)
  <2>1. kept \in Seq(Nat)
    BY DEF KeptUpTo
  <2>2. Len(kept) \in Nat
    BY <2>1
  <2> QED
    BY <2>1, <2>2, Zenon DEF KeptUpTo, before
<1>5. CASE lines[n] = p
  <2>1. before \ {p} = upto \ {p}
    BY <1>2, <1>5
  <2> QED
    BY <1>4, <1>5, <2>1 DEF KeptUpTo, upto, KeepNext
<1>6. CASE lines[n] # p
  <2> DEFINE more == Append(kept, lines[n])
  <2>1. /\ more \in Seq(Nat)
        /\ Len(more) = Len(kept) + 1
        /\ \A i \in 1 .. Len(kept) : more[i] = kept[i]
        /\ more[Len(kept) + 1] = lines[n]
    BY <1>1, <1>4, AppendProperties
  <2> HIDE DEF more
  <2>2. \A i \in 1 .. Len(more) : i \in 1 .. Len(kept) \/ i = Len(kept) + 1
    BY <1>4, <2>1
  <2>3. Len(kept) + 1 \in 1 .. Len(more) /\ \A i \in 1 .. Len(kept) : i \in 1 .. Len(more)
    BY <1>4, <2>1
  <2>4. {more[i] : i \in 1 .. Len(more)} = {kept[i] : i \in 1 .. Len(kept)} \cup {lines[n]}
    BY <2>1, <2>2, <2>3
  <2>5. {more[i] : i \in 1 .. Len(more)} = upto \ {p}
    BY <1>2, <1>4, <1>6, <2>4
  <2>6. \A i \in 1 .. Len(kept) : kept[i] # lines[n]
    BY <1>3, <1>4
  <2>7. Unrepeated(more)
    BY <1>4, <2>1, <2>2, <2>6 DEF Unrepeated
  <2> QED
    BY <1>6, <2>1, <2>5, <2>7 DEF KeptUpTo, more, upto, KeepNext
<1> QED
  BY <1>5, <1>6

LEMMA OthersKept ==
    ASSUME NEW lines \in Seq(Nat), Unrepeated(lines), NEW p
    PROVE  KeptUpTo(lines, p, Len(lines), Others(lines, p))
<1> DEFINE N == Len(lines)
           none == <<>>
           step == [n \in 1 .. N |-> [kept \in Seq(Nat) |-> KeepNext(lines, p, n, kept)]]
           Rule(f) == [n \in 0 .. N |-> IF n = 0 THEN none ELSE KeepNext(lines, p, n, f[n - 1])]
           after == CHOOSE f : f = Rule(f)
<1>1. Others(lines, p) = after[N]
  BY DEF Others, KeepNext
<1>2. N \in Nat /\ none \in Seq(Nat)
  BY EmptySeq
<1>3. step \in Steps(N, Seq(Nat))
  <2>1. \A n \in 1 .. N : lines[n] \in Nat
    BY ElementOfSeq
  <2>2. ASSUME NEW n \in 1 .. N, NEW kept \in Seq(Nat)
        PROVE  KeepNext(lines, p, n, kept) \in Seq(Nat)
    BY <2>1, AppendProperties DEF KeepNext
  <2> QED
    BY <2>2 DEF Steps
<1> HIDE DEF N, none
<1>4. PICK g \in [0 .. N -> Seq(Nat)] :
          g[0] = none /\ \A n \in 1 .. N : g[n] = step[n][g[n - 1]]
  <2> HIDE DEF step, Rule, after
  <2>1. Iterations(N, Seq(Nat), none, step) # {}
    BY <1>2, <1>3, Recursion, Zenon
  <2> QED
    BY <2>1, Zenon DEF Iterations
<1>5. \A n \in 1 .. N : g[n] = KeepNext(lines, p, n, g[n - 1])
  <2>1. \A n \in 1 .. N : n - 1 \in 0 .. N
    BY <1>2
  <2>2. \A n \in 1 .. N : g[n - 1] \in Seq(Nat)
    BY <2>1
  <2>3. ASSUME NEW n \in 1 .. N PROVE g[n] = KeepNext(lines, p, n, g[n - 1])
    BY <1>4, <2>2, Zenon
  <2> QED
    BY <2>3
<1> HIDE DEF step
<1> DEFINE T == {n \in 0 .. N : KeptUpTo(lines, p, n, g[n])}
<1>6. \A n \in 0 .. N : n \in T
  <2>1. 0 \in T
    <3>1. {lines[i] : i \in 1 .. 0} = {} /\ Len(<<>>) = 0
      OBVIOUS
    <3>2. KeptUpTo(lines, p, 0, none)
      BY <1>2, <3>1 DEF KeptUpTo, Unrepeated, none
    <3> QED
      BY <1>2, <1>4, <3>2
  <2>2. ASSUME NEW n \in 1 .. N, n - 1 \in T PROVE n \in T
    <3>1. KeptUpTo(lines, p, n, g[n])
      BY <1>5, <2>2, KeptNext DEF N
    <3> QED
      BY <1>2, <3>1
  <2> HIDE DEF T
  <2> QED
    BY <1>2, <2>1, <2>2, Induction
<1>7. g = Rule(g)
  <2> DEFINE h == Rule(g)
  <2>1. \A n \in 0 .. N : g[n] = h[n]
    BY <1>2, <1>4, <1>5
  <2>2. g = h
    BY <1>4, <2>1
  <2> QED
    BY <2>2
<1>8. after = Rule(after)
  BY <1>7
<1> HIDE DEF after
<1> DEFINE U == {n \in 0 .. N : after[n] = g[n]}
<1>9. \A n \in 0 .. N : n \in U
  <2>1. \A n \in 0 .. N : after[n] = IF n = 0 THEN none ELSE KeepNext(lines, p, n, after[n - 1])
    BY <1>8
  <2>2. 0 \in U
    BY <1>2, <1>4, <2>1
  <2>3. ASSUME NEW n \in 1 .. N, n - 1 \in U PROVE n \in U
    BY <1>5, <2>1, <2>3
  <2> HIDE DEF U, Rule
  <2> QED
    BY <1>2, <2>2, <2>3, Induction
<1>10. N \in T /\ N \in U
  BY <1>2, <1>6, <1>9
<1> QED
  BY <1>1, <1>10 DEF N

(* inverse_remove takes the item out of the text and leaves the others. *)
LEMMA RemoveLists ==
    ASSUME NEW text \in Text, Unrepeated(text.lines), NEW p
    PROVE  /\ InverseRemove(text, p) \in Text
           /\ Unrepeated(InverseRemove(text, p).lines)
           /\ Lines(InverseRemove(text, p)) = Lines(text) \ {p}
<1> DEFINE rest == Others(text.lines, p)
<1>1. text.lines \in Seq(Nat)
  BY DEF Text
<1>2. KeptUpTo(text.lines, p, Len(text.lines), rest)
  BY <1>1, OthersKept
<1>3. InverseRemove(text, p) = [lines |-> rest, ended |-> rest = <<>>]
  BY DEF InverseRemove
<1> HIDE DEF rest
<1>4. InverseRemove(text, p).lines = rest /\ (rest = <<>>) \in BOOLEAN /\ rest \in Seq(Nat)
  BY <1>2, <1>3 DEF KeptUpTo
<1>5. InverseRemove(text, p) \in Text
  BY <1>3, <1>4 DEF Text
<1> QED
  BY <1>2, <1>4, <1>5 DEF KeptUpTo, Lines

(* inverse_add adds an item to a text that ends in a newline, and once. *)
LEMMA AddLists ==
    ASSUME NEW text \in Text, Unrepeated(text.lines), text.ended, NEW p \in Nat
    PROVE  /\ InverseAdd(text, p) \in Text
           /\ Unrepeated(InverseAdd(text, p).lines)
           /\ Lines(InverseAdd(text, p)) = Lines(text) \cup {p}
           /\ Contains(InverseAdd(text, p).lines, p)
<1>1. text.lines \in Seq(Nat) /\ Len(text.lines) \in Nat
  <2>1. text.lines \in Seq(Nat)
    BY DEF Text
  <2> QED
    BY <2>1
<1>2. CASE Contains(text.lines, p)
  <2>1. InverseAdd(text, p) = text
    BY <1>2 DEF InverseAdd
  <2>2. p \in Lines(text)
    BY <1>2 DEF Contains, Lines
  <2> QED
    BY <1>2, <2>1, <2>2
<1>3. CASE ~Contains(text.lines, p)
  <2> DEFINE more == Append(text.lines, p)
  <2>1. InverseAdd(text, p) = [lines |-> more, ended |-> TRUE]
    BY <1>3 DEF InverseAdd
  <2>2. /\ more \in Seq(Nat)
        /\ Len(more) = Len(text.lines) + 1
        /\ \A i \in 1 .. Len(text.lines) : more[i] = text.lines[i]
        /\ more[Len(text.lines) + 1] = p
    BY <1>1, AppendProperties
  <2> HIDE DEF more
  <2>3. InverseAdd(text, p) \in Text /\ InverseAdd(text, p).lines = more
    BY <2>1, <2>2 DEF Text
  <2>4. \A i \in 1 .. Len(more) : i \in 1 .. Len(text.lines) \/ i = Len(text.lines) + 1
    BY <1>1, <2>2
  <2>5. /\ Len(text.lines) + 1 \in 1 .. Len(more)
        /\ \A i \in 1 .. Len(text.lines) : i \in 1 .. Len(more)
    BY <1>1, <2>2
  <2>6. {more[i] : i \in 1 .. Len(more)}
          = {text.lines[i] : i \in 1 .. Len(text.lines)} \cup {p}
    BY <2>2, <2>4, <2>5
  <2>7. \A i \in 1 .. Len(text.lines) : text.lines[i] # p
    BY <1>3 DEF Contains
  <2>8. Unrepeated(more)
    BY <2>2, <2>4, <2>7 DEF Unrepeated
  <2>9. Contains(more, p)
    BY <2>2, <2>5 DEF Contains
  <2> QED
    BY <2>3, <2>6, <2>8, <2>9 DEF Lines
<1> QED
  BY <1>2, <1>3

(* Adding it again for every time the field names the target changes       *)
(* nothing.                                                                *)
LEMMA AddEachLists ==
    ASSUME NEW text \in Text, Unrepeated(text.lines), text.ended, NEW p \in Nat,
           NEW times \in Nat \ {0}
    PROVE  AddedEach(text, times, p) = InverseAdd(text, p)
<1> DEFINE once == InverseAdd(text, p)
           Rule(f) == [n \in 0 .. times |-> IF n = 0 THEN text ELSE InverseAdd(f[n - 1], p)]
           g == [n \in 0 .. times |-> IF n = 0 THEN text ELSE once]
           after == CHOOSE f : f = Rule(f)
<1>1. AddedEach(text, times, p) = after[times]
  BY DEF AddedEach
<1>2. InverseAdd(once, p) = once
  <2>1. Contains(once.lines, p)
    BY AddLists
  <2> HIDE DEF once
  <2> QED
    BY <2>1 DEF InverseAdd
<1>3. g = Rule(g)
  <2> HIDE DEF once
  <2>1. ASSUME NEW n \in 0 .. times, n # 0
        PROVE  g[n] = InverseAdd(g[n - 1], p)
    <3>1. n - 1 \in 0 .. times /\ (n - 1 = 0 \/ n - 1 # 0)
      BY <2>1
    <3>2. CASE n - 1 = 0
      BY <2>1, <3>1, <3>2 DEF once
    <3>3. CASE n - 1 # 0
      BY <1>2, <2>1, <3>1, <3>3
    <3> QED
      BY <3>2, <3>3
  <2>2. g[0] = text
    OBVIOUS
  <2>3. g = [n \in 0 .. times |-> g[n]]
    OBVIOUS
  <2> HIDE DEF g
  <2> QED
    BY <2>1, <2>2, <2>3
<1>4. after = Rule(after)
  <2> HIDE DEF g, once
  <2> QED
    BY <1>3
<1> HIDE DEF after, once
<1> DEFINE U == {n \in 0 .. times : after[n] = g[n]}
<1>5. \A n \in 0 .. times : n \in U
  <2>1. \A n \in 0 .. times : after[n] = IF n = 0 THEN text ELSE InverseAdd(after[n - 1], p)
    BY <1>4
  <2>2. \A n \in 0 .. times : g[n] = IF n = 0 THEN text ELSE InverseAdd(g[n - 1], p)
    BY <1>3
  <2>3. 0 \in U
    BY <2>1, <2>2
  <2>4. ASSUME NEW n \in 1 .. times, n - 1 \in U PROVE n \in U
    BY <2>1, <2>2, <2>4
  <2> HIDE DEF U, Rule, g
  <2> QED
    BY <2>3, <2>4, Induction
<1>6. times \in U
  BY <1>5
<1> QED
  BY <1>1, <1>6 DEF once

-----------------------------------------------------------------------------
(* The indexes *)

(* Index inv lists, for every position of a target, the items of L that    *)
(* name it; R[p] are the positions that item p names.                      *)
IndexOK(inv, L, R) ==
    /\ inv \in [Spots(Targets) -> Text]
    /\ \A tp \in Spots(Targets) :
        /\ Unrepeated(inv[tp].lines)
        /\ Lines(inv[tp]) = {p \in L : tp \in R[p]}

LEMMA NamedTimes ==
    ASSUME NEW A, NEW named \in Seq(A), NEW tp
    PROVE  /\ Times(named, tp) \in Nat
           /\ tp \in Range(named) => Times(named, tp) # 0
<1> DEFINE at == {i \in DOMAIN named : named[i] = tp}
<1>1. DOMAIN named = 1 .. Len(named) /\ Len(named) \in Nat
  OBVIOUS
<1>2. IsFiniteSet(1 .. Len(named))
  BY <1>1, FS_Interval
<1>3. IsFiniteSet(at)
  BY <1>1, <1>2, FS_Subset
<1>4. tp \in Range(named) => at # {}
  BY DEF Range
<1> HIDE DEF at
<1>5. Cardinality(at) \in Nat /\ (Cardinality(at) = 0 <=> at = {})
  BY <1>3, FS_CardinalityType, FS_EmptySet
<1> QED
  BY <1>4, <1>5 DEF Times, at

(* handle_inverse_put and clean_inverses_for_pos keep an index exact: item *)
(* p named old, and nothing if it is new, and names new.                   *)
LEMMA UpdateExact ==
    ASSUME NEW inv, NEW L, NEW R, IndexOK(inv, L, R), NEW p \in Nat,
           NEW old, NEW A, NEW new \in Seq(A), NEW L2, NEW R2,
           p \in L => R[p] = Range(old), p \notin L => Range(old) = {},
           p \in L2 => R2[p] = Range(new), p \notin L2 => Range(new) = {},
           \A q : q # p => (q \in L <=> q \in L2),
           \A q \in L : q # p => R2[q] = R[q],
           ~Regrows(inv, old, new)
    PROVE  IndexOK(UpdateInverse(inv, old, new, p), L2, R2)
<1> DEFINE inv2 == UpdateInverse(inv, old, new, p)
<1>1. inv \in [Spots(Targets) -> Text]
  BY DEF IndexOK
<1>2. /\ DOMAIN inv2 = Spots(Targets)
      /\ \A tp \in Spots(Targets) : inv2[tp] =
            CASE tp \in Range(old) \ Range(new) -> InverseRemove(inv[tp], p)
              [] tp \in Range(new) \ Range(old) -> AddedEach(inv[tp], Times(new, tp), p)
              [] OTHER -> inv[tp]
  BY <1>1 DEF UpdateInverse
<1>3. inv2 = [tp \in Spots(Targets) |-> inv2[tp]]
  BY <1>1 DEF UpdateInverse
<1> HIDE DEF inv2
<1>4. ASSUME NEW tp \in Spots(Targets)
      PROVE  /\ inv2[tp] \in Text
             /\ Unrepeated(inv2[tp].lines)
             /\ Lines(inv2[tp]) = {q \in L2 : tp \in R2[q]}
  <2>1. /\ inv[tp] \in Text /\ Unrepeated(inv[tp].lines)
        /\ Lines(inv[tp]) = {q \in L : tp \in R[q]}
    BY DEF IndexOK
  <2>2. p \in Lines(inv[tp]) <=> tp \in Range(old)
    BY <2>1
  <2>3. /\ \A q : q # p => (q \in {x \in L : tp \in R[x]} <=> q \in {x \in L2 : tp \in R2[x]})
        /\ p \in {x \in L2 : tp \in R2[x]} <=> tp \in Range(new)
    OBVIOUS
  <2>4. CASE tp \in Range(old) \ Range(new)
    <3>1. inv2[tp] = InverseRemove(inv[tp], p)
      BY <1>2, <2>4
    <3>2. /\ inv2[tp] \in Text /\ Unrepeated(inv2[tp].lines)
          /\ Lines(inv2[tp]) = Lines(inv[tp]) \ {p}
      BY <2>1, <3>1, RemoveLists
    <3> QED
      BY <2>1, <2>3, <2>4, <3>2
  <2>5. CASE tp \in Range(new) \ Range(old)
    <3>1. inv2[tp] = AddedEach(inv[tp], Times(new, tp), p)
      BY <1>2, <2>5
    <3>2. inv[tp].ended
      BY <2>5 DEF Regrows
    <3>3. Times(new, tp) \in Nat \ {0}
      BY <2>5, NamedTimes
    <3>4. inv2[tp] = InverseAdd(inv[tp], p)
      BY <2>1, <3>1, <3>2, <3>3, AddEachLists
    <3>5. /\ inv2[tp] \in Text /\ Unrepeated(inv2[tp].lines)
          /\ Lines(inv2[tp]) = Lines(inv[tp]) \cup {p}
      BY <2>1, <3>2, <3>4, AddLists
    <3> QED
      BY <2>1, <2>3, <2>5, <3>5
  <2>6. CASE tp \notin Range(old) \ Range(new) /\ tp \notin Range(new) \ Range(old)
    <3>1. inv2[tp] = inv[tp]
      BY <1>2, <2>6
    <3> QED
      BY <2>1, <2>2, <2>3, <2>6, <3>1
  <2> QED
    BY <2>4, <2>5, <2>6
<1>5. inv2 \in [Spots(Targets) -> Text]
  BY <1>3, <1>4
<1> QED
  BY <1>4, <1>5 DEF IndexOK, inv2

-----------------------------------------------------------------------------
(* The maps *)

(* A map of keys: a key has one position. *)
Mapped(m, keys) ==
    /\ m = [idm |-> m.idm, omap |-> m.omap]
    /\ m.idm \in Manager
    /\ m.omap \in [Spots(keys) -> keys \cup {NULL}]
    /\ Accounts(m.idm, Live(m))
    /\ \A p, q \in Live(m) : m.omap[p] = m.omap[q] => p = q
    /\ m.idm.last <= Cardinality(keys)

LEMMA LivePlaces ==
    ASSUME NEW keys, IsFiniteSet(keys), NEW m, Mapped(m, keys)
    PROVE  /\ Live(m) \subseteq Spots(keys) /\ Live(m) \subseteq Nat
           /\ IsFiniteSet(Live(m))
           /\ \A p \in Live(m) : m.omap[p] \in keys
<1>1. m.idm.last \in Nat /\ Cardinality(keys) \in Nat /\ m.idm.last <= Cardinality(keys)
  BY FS_CardinalityType DEF Mapped, Manager
<1>2. Live(m) \subseteq 0 .. m.idm.last - 1
  BY DEF Live
<1>3. Live(m) \subseteq Spots(keys)
  BY <1>1, <1>2 DEF Spots
<1>4. IsFiniteSet(Live(m))
  <2>1. IsFiniteSet(0 .. m.idm.last - 1)
    BY <1>1, FS_Interval, SMTT(30)
  <2> QED
    BY <1>2, <2>1, FS_Subset
<1>5. \A p \in Live(m) : m.omap[p] \in keys
  BY <1>3 DEF Mapped, Live
<1> QED
  BY <1>2, <1>3, <1>4, <1>5

(* qmap_pos finds the position of a key, if it has one. *)
LEMMA PosFinds ==
    ASSUME NEW keys, IsFiniteSet(keys), NEW m, Mapped(m, keys), NEW key
    PROVE  /\ \A p \in Live(m) : m.omap[p] = key => Pos(m, key) = p
           /\ (\A p \in Live(m) : m.omap[p] # key) => Pos(m, key) = MISS
           /\ Pos(m, key) # MISS => Pos(m, key) \in Live(m) /\ m.omap[Pos(m, key)] = key
<1> DEFINE at == {p \in Live(m) : m.omap[p] = key}
<1>1. ASSUME NEW p \in Live(m), m.omap[p] = key PROVE Pos(m, key) = p
  <2>1. at = {p}
    BY <1>1 DEF Mapped
  <2>2. p \in Nat
    BY LivePlaces
  <2>3. Min({p}) = p
    BY <2>2 DEF Min
  <2> QED
    BY <2>1, <2>3 DEF Pos
<1>2. (\A p \in Live(m) : m.omap[p] # key) => Pos(m, key) = MISS
  BY DEF Pos
<1> QED
  BY <1>1, <1>2

(* Storing a new key: it takes a position nobody has, and no other key     *)
(* moves.                                                                  *)
LEMMA WithNew ==
    ASSUME NEW keys, IsFiniteSet(keys), NULL \notin keys,
           NEW m, Mapped(m, keys), NEW key \in keys, Pos(m, key) = MISS
    PROVE  LET p == IdmNewId(m.idm)
               m2 == With(m, key)
           IN  /\ Mapped(m2, keys)
               /\ p \in Nat /\ p \notin Live(m)
               /\ Live(m2) = Live(m) \cup {p}
               /\ m2.omap[p] = key
               /\ \A q \in Live(m) : m2.omap[q] = m.omap[q]
<1> DEFINE p == IdmNewId(m.idm)
           idm2 == IdmNew(m.idm)
           omap2 == [m.omap EXCEPT ![p] = key]
           m2 == With(m, key)
<1>1. /\ m.idm \in Manager /\ Accounts(m.idm, Live(m))
      /\ m.omap \in [Spots(keys) -> keys \cup {NULL}]
      /\ m.idm.last <= Cardinality(keys) /\ m.idm.last \in Nat
      /\ Cardinality(keys) \in Nat
  BY FS_CardinalityType DEF Mapped, Manager
<1>2. /\ idm2 \in Manager /\ p \in Nat /\ p \notin Live(m)
      /\ Accounts(idm2, Live(m) \cup {p})
      /\ idm2.last \in {m.idm.last, m.idm.last + 1} /\ p < idm2.last
      /\ m.idm.free = <<>> => Live(m) = 0 .. m.idm.last - 1
      /\ m.idm.free # <<>> => idm2.last = m.idm.last
  BY <1>1, NewAccounts
<1>3. \A q \in Live(m) : m.omap[q] \in keys \ {key}
  <2>1. \A q \in Live(m) : m.omap[q] \in keys
    BY LivePlaces
  <2>2. \A q \in Live(m) : m.omap[q] = key => q = MISS
    BY PosFinds
  <2>3. MISS \notin Live(m)
    BY <1>1 DEF Live, MISS
  <2> QED
    BY <2>1, <2>2, <2>3
<1>4. idm2.last <= Cardinality(keys)
  <2>1. CASE m.idm.free = <<>>
    <3> DEFINE f == [q \in Live(m) |-> m.omap[q]]
    <3>1. Cardinality(Live(m)) = m.idm.last
      <4> DEFINE n == m.idm.last
      <4>2. n \in Nat /\ n - 1 \in Int
        BY <1>1
      <4> HIDE DEF n
      <4>1. Cardinality(0 .. n - 1) = n
        BY <4>2, FS_Interval
      <4> QED
        BY <1>2, <2>1, <4>1 DEF n
    <3>2. /\ IsFiniteSet(keys \ {key})
          /\ Cardinality(keys \ {key}) = Cardinality(keys) - 1
      BY FS_RemoveElement
    <3>3. f \in Injection(Live(m), keys \ {key})
      <4>1. f \in [Live(m) -> keys \ {key}]
        BY <1>3
      <4>2. \A q, r \in Live(m) : f[q] = f[r] => q = r
        BY DEF Mapped
      <4> QED
        BY <4>1, <4>2 DEF Injection, IsInjective
    <3>4. Cardinality(Live(m)) <= Cardinality(keys \ {key})
      <4> HIDE DEF f
      <4> QED
        BY <3>2, <3>3, FS_Injection
    <3> QED
      BY <1>1, <1>2, <3>1, <3>2, <3>4
  <2>2. CASE m.idm.free # <<>>
    BY <1>1, <1>2, <2>2
  <2> QED
    BY <2>1, <2>2
<1>5. p \in Spots(keys)
  BY <1>1, <1>2, <1>4 DEF Spots, Manager
<1>6. m2 = [idm |-> idm2, omap |-> omap2]
  BY DEF With
<1>7. /\ omap2 \in [Spots(keys) -> keys \cup {NULL}]
      /\ omap2[p] = key
      /\ \A q \in Spots(keys) \ {p} : omap2[q] = m.omap[q]
  BY <1>1, <1>5
<1> HIDE DEF p, idm2, omap2, m2
<1>8. m2.idm = idm2 /\ m2.omap = omap2 /\ m2 = [idm |-> m2.idm, omap |-> m2.omap]
  BY <1>6
<1>9. Live(m2) = Live(m) \cup {p}
  <2>1. idm2.last \in Nat
    BY <1>2 DEF Manager
  <2>2. ASSUME NEW q \in 0 .. idm2.last - 1, q # p
        PROVE  q \in Live(m2) <=> q \in Live(m)
    <3>1. q \in Spots(keys)
      BY <1>1, <1>4, <2>1 DEF Spots
    <3>2. omap2[q] = m.omap[q]
      BY <1>7, <2>2, <3>1
    <3>3. CASE q \in 0 .. m.idm.last - 1
      BY <1>8, <3>2, <3>3 DEF Live
    <3>4. CASE q \notin 0 .. m.idm.last - 1
      <4>1. m.idm.free = <<>> /\ q = m.idm.last
        BY <1>1, <1>2, <2>1, <3>4
      <4>2. p = m.idm.last
        BY <1>1, <4>1, NewAccounts DEF p
      <4> QED
        BY <2>2, <4>1, <4>2
    <3> QED
      BY <3>3, <3>4
  <2>3. Live(m) \subseteq 0 .. idm2.last - 1 /\ Live(m2) \subseteq 0 .. idm2.last - 1
    BY <1>1, <1>2, <1>8, <2>1 DEF Live
  <2>4. p \in Live(m2)
    <3>1. p \in 0 .. idm2.last - 1 /\ key # NULL
      BY <1>2, <2>1
    <3> QED
      BY <1>7, <1>8, <3>1 DEF Live
  <2> QED
    BY <2>2, <2>3, <2>4
<1>10. \A q \in Live(m) : omap2[q] = m.omap[q]
  BY <1>2, <1>7, LivePlaces
<1>11. \A q, r \in Live(m2) : omap2[q] = omap2[r] => q = r
  <2>1. \A q \in Live(m) : omap2[q] # omap2[p]
    BY <1>3, <1>7, <1>10
  <2>2. \A q, r \in Live(m) : omap2[q] = omap2[r] => q = r
    BY <1>10 DEF Mapped
  <2> QED
    BY <1>9, <2>1, <2>2
<1>12. Mapped(m2, keys)
  BY <1>2, <1>4, <1>7, <1>8, <1>9, <1>11 DEF Mapped
<1> QED
  BY <1>2, <1>7, <1>8, <1>9, <1>10, <1>12 DEF p, m2

(* Deleting a key gives its position back, and no other key moves. *)
LEMMA WithoutGone ==
    ASSUME NEW keys, IsFiniteSet(keys), NULL \notin keys,
           NEW m, Mapped(m, keys), NEW p \in Live(m)
    PROVE  /\ Mapped(Without(m, p), keys)
           /\ Live(Without(m, p)) = Live(m) \ {p}
           /\ \A q \in Live(m) \ {p} : Without(m, p).omap[q] = m.omap[q]
<1> DEFINE idm2 == IdmDel(m.idm, p)
           omap2 == [m.omap EXCEPT ![p] = NULL]
           m2 == Without(m, p)
<1>1. /\ m.idm \in Manager /\ Accounts(m.idm, Live(m))
      /\ m.omap \in [Spots(keys) -> keys \cup {NULL}]
      /\ m.idm.last <= Cardinality(keys) /\ m.idm.last \in Nat
      /\ Cardinality(keys) \in Nat
      /\ p \in Spots(keys)
  BY FS_CardinalityType, LivePlaces DEF Mapped, Manager
<1>2. /\ idm2 \in Manager /\ Accounts(idm2, Live(m) \ {p})
      /\ idm2.last <= m.idm.last /\ idm2.last \in Nat
  BY <1>1, DelAccounts DEF Manager
<1>3. m2 = [idm |-> idm2, omap |-> omap2]
  BY DEF Without
<1>4. /\ omap2 \in [Spots(keys) -> keys \cup {NULL}]
      /\ omap2[p] = NULL
      /\ \A q \in Spots(keys) \ {p} : omap2[q] = m.omap[q]
  BY <1>1
<1> HIDE DEF idm2, omap2, m2
<1>5. m2.idm = idm2 /\ m2.omap = omap2 /\ m2 = [idm |-> m2.idm, omap |-> m2.omap]
  BY <1>3
<1>6. Live(m2) = Live(m) \ {p}
  <2>1. ASSUME NEW q \in Live(m), q # p PROVE q \in Live(m2)
    <3>1. q \in 0 .. idm2.last - 1
      BY <1>2, <2>1 DEF Accounts
    <3>2. q \in Spots(keys) /\ m.omap[q] # NULL
      BY <2>1, LivePlaces
    <3> QED
      BY <1>4, <1>5, <2>1, <3>1, <3>2 DEF Live
  <2>2. ASSUME NEW q \in Live(m2) PROVE q \in Live(m) /\ q # p
    <3>1. q \in 0 .. idm2.last - 1 /\ omap2[q] # NULL
      BY <1>5, <2>2 DEF Live
    <3>2. q \in 0 .. m.idm.last - 1 /\ q \in Spots(keys) /\ q # p
      BY <1>1, <1>2, <1>4, <3>1 DEF Spots
    <3> QED
      BY <1>4, <3>1, <3>2 DEF Live
  <2> QED
    BY <2>1, <2>2
<1>7. \A q \in Live(m) \ {p} : omap2[q] = m.omap[q]
  BY <1>4, LivePlaces
<1>8. \A q, r \in Live(m2) : omap2[q] = omap2[r] => q = r
  BY <1>6, <1>7 DEF Mapped
<1>9. idm2.last <= Cardinality(keys)
  BY <1>1, <1>2
<1>10. Mapped(m2, keys)
  BY <1>2, <1>4, <1>5, <1>6, <1>8, <1>9 DEF Mapped
<1> QED
  BY <1>5, <1>6, <1>7, <1>10 DEF m2

-----------------------------------------------------------------------------
(* The invariant *)

Rows == [ref : Targets \cup {NULL}, multi : Seq(Spots(Targets) \cup {WORD})]

(* the positions of targets that each item names *)
RefNames == [p \in Spots(Sources) |-> Range(RefPos(rows[p].ref))]
MultiNames == [p \in Spots(Sources) |-> Range(MultiPos(rows[p].multi))]

RInv ==
    /\ use \in Uses
    /\ Mapped(src, Sources) /\ Mapped(tgt, Targets)
    /\ rows \in [Spots(Sources) -> Rows]
    /\ IndexOK(invRef, Live(src), RefNames)
    /\ IndexOK(invMulti, Live(src), MultiNames)

(* the other items stay where they are and name what they named *)
Kept(s) == \A s2 \in Sources \ {s} :
    /\ Pos(src, s2)' = Pos(src, s2)
    /\ Pos(src, s2) # MISS =>
        /\ RefNames'[Pos(src, s2)] = RefNames[Pos(src, s2)]
        /\ MultiNames'[Pos(src, s2)] = MultiNames[Pos(src, s2)]

AllKept == \A s2 \in Sources :
    /\ Pos(src, s2)' = Pos(src, s2)
    /\ Pos(src, s2) # MISS =>
        /\ RefNames'[Pos(src, s2)] = RefNames[Pos(src, s2)]
        /\ MultiNames'[Pos(src, s2)] = MultiNames[Pos(src, s2)]

LEMMA Constants ==
    /\ IsFiniteSet(Sources) /\ IsFiniteSet(Targets)
    /\ NULL \notin Sources /\ NULL \notin Targets
<1> QED
  BY RecordsAssumption

LEMMA MultiPosType ==
    ASSUME NEW A, NEW lines \in Seq(A)
    PROVE  MultiPos(lines) \in Seq(A)
<1> DEFINE at == {i \in 1 .. Len(lines) : lines[i] = WORD}
<1>1. CASE ~Contains(lines, WORD)
  BY <1>1 DEF MultiPos
<1>2. CASE Contains(lines, WORD)
  <2>1. MultiPos(lines) = SubSeq(lines, 1, SelectInSeq(lines, LAMBDA q : q = WORD) - 1)
    BY <1>2 DEF MultiPos
  <2>2. at # {}
    BY <1>2 DEF Contains
  <2>3. SelectInSeq(lines, LAMBDA q : q = WORD) = Min(at)
    BY <2>2 DEF SelectInSeq
  <2>4. Len(lines) \in Nat
    OBVIOUS
  <2>6. Min(at) \in at
    <3>1. at \subseteq Nat
      BY <2>4
    <3> HIDE DEF at
    <3> QED
      BY <2>2, <3>1, MinIsLeast
  <2>7. Min(at) - 1 \in 0 .. Len(lines)
    BY <2>4, <2>6
  <2> DEFINE k == Min(at) - 1
  <2> HIDE DEF k, at
  <2>8. k \in 0 .. Len(lines) /\ \A i \in 1 .. k : lines[i] \in A
    <3>1. \A i \in 1 .. k : i \in 1 .. Len(lines)
      BY <2>4, <2>7 DEF k
    <3> QED
      BY <2>7, <3>1, ElementOfSeq DEF k
  <2>9. SubSeq(lines, 1, k) \in Seq(A)
    BY <2>4, <2>8, SubSeqProperties
  <2> QED
    BY <2>1, <2>3, <2>9 DEF k
<1> QED
  BY <1>1, <1>2

(* A zeroed struct names nothing. *)
LEMMA ZeroNames ==
    ASSUME Mapped(tgt, Targets)
    PROVE  /\ Zero \in Rows
           /\ Range(RefPos(Zero.ref)) = {} /\ Range(MultiPos(Zero.multi)) = {}
<1>1. \A p \in Live(tgt) : tgt.omap[p] # NULL
  BY DEF Live
<1>2. Pos(tgt, NULL) = MISS
  BY <1>1, Constants, PosFinds
<1>3. Range(<<>>) = {}
  BY DEF Range
<1>4. RefPos(NULL) = <<>>
  BY <1>2 DEF RefPos
<1>5. MultiPos(<<>>) = <<>>
  <2>1. ~Contains(<<>>, WORD)
    BY DEF Contains
  <2> QED
    BY <2>1 DEF MultiPos
<1>6. Zero \in Rows
  <2>1. <<>> \in Seq(Spots(Targets) \cup {WORD})
    BY EmptySeq
  <2> QED
    BY <2>1 DEF Zero, Rows
<1> QED
  BY <1>3, <1>4, <1>5, <1>6 DEF Zero

LEMMA NamedSeqs ==
    ASSUME NEW row \in Rows
    PROVE  RefPos(row.ref) \in Seq({Pos(tgt, row.ref)}) /\ MultiPos(row.multi) \in Seq(Spots(Targets) \cup {WORD})
<1>1. MultiPos(row.multi) \in Seq(Spots(Targets) \cup {WORD})
  BY MultiPosType DEF Rows
<1>2. RefPos(row.ref) \in Seq({Pos(tgt, row.ref)})
  <2> DEFINE p == Pos(tgt, row.ref)
  <2>1. <<p>> \in Seq({p}) /\ <<>> \in Seq({p})
    OBVIOUS
  <2> QED
    BY <2>1 DEF RefPos
<1> QED
  BY <1>1, <1>2

LEMMA InitRInv == Init => RInv
<1> SUFFICES ASSUME Init PROVE RInv
  OBVIOUS
<1>1. /\ use \in Uses /\ src = EmptyMap(Sources) /\ tgt = EmptyMap(Targets)
      /\ rows = [p \in Spots(Sources) |-> Zero]
      /\ invRef = [tp \in Spots(Targets) |-> NoText]
      /\ invMulti = [tp \in Spots(Targets) |-> NoText]
  BY DEF Init
<1>2. ASSUME NEW keys, IsFiniteSet(keys), NEW m, m = EmptyMap(keys)
      PROVE  Mapped(m, keys) /\ Live(m) = {}
  <2>1. /\ m.idm = IdmInit /\ m = [idm |-> m.idm, omap |-> m.omap]
        /\ m.omap = [p \in Spots(keys) |-> NULL]
    BY <1>2 DEF EmptyMap
  <2>2. m.idm.free = <<>> /\ m.idm.last = 0 /\ m.idm \in Manager
    BY <2>1, EmptySeq DEF IdmInit, Manager
  <2>3. Live(m) = {}
    BY <2>2 DEF Live
  <2>4. Accounts(m.idm, {})
    BY <2>2 DEF Accounts, Listed
  <2>5. 0 <= Cardinality(keys)
    BY <1>2, FS_CardinalityType
  <2> QED
    BY <2>1, <2>2, <2>3, <2>4, <2>5 DEF Mapped
<1>3. Mapped(src, Sources) /\ Live(src) = {} /\ Mapped(tgt, Targets)
  BY <1>1, <1>2, Constants
<1>4. rows \in [Spots(Sources) -> Rows]
  BY <1>1, <1>3, ZeroNames
<1>5. NoText \in Text /\ Unrepeated(NoText.lines) /\ Lines(NoText) = {}
  <2>1. <<>> \in Seq(Nat) /\ Len(<<>>) = 0 /\ NoText.lines = <<>>
    BY EmptySeq DEF NoText
  <2> QED
    BY <2>1 DEF NoText, Text, Unrepeated, Lines
<1>6. IndexOK(invRef, Live(src), RefNames) /\ IndexOK(invMulti, Live(src), MultiNames)
  BY <1>1, <1>3, <1>5 DEF IndexOK
<1> QED
  BY <1>1, <1>3, <1>4, <1>6 DEF RInv

(* What an item names is taken from its row, and nothing when it is new. *)
LEMMA RowNames ==
    ASSUME RInv, NEW s \in Sources
    PROVE  /\ Row(s) \in Rows
           /\ Pos(src, s) # MISS =>
                /\ RefNames[Pos(src, s)] = Range(RefPos(Row(s).ref))
                /\ MultiNames[Pos(src, s)] = Range(MultiPos(Row(s).multi))
           /\ Pos(src, s) = MISS =>
                Range(RefPos(Row(s).ref)) = {} /\ Range(MultiPos(Row(s).multi)) = {}
<1>1. /\ Mapped(src, Sources) /\ Mapped(tgt, Targets)
      /\ rows \in [Spots(Sources) -> Rows]
  BY DEF RInv
<1>2. CASE Pos(src, s) = MISS
  BY <1>1, <1>2, ZeroNames DEF Row
<1>3. CASE Pos(src, s) # MISS
  <2>1. Pos(src, s) \in Spots(Sources)
    BY <1>1, <1>3, PosFinds, LivePlaces, Constants
  <2> QED
    BY <1>1, <1>3, <2>1 DEF Row, RefNames, MultiNames
<1> QED
  BY <1>2, <1>3

(* Every put of an item, whole or of one field *)
LEMMA PutRowRInv ==
    ASSUME Careful, RInv, NEW s \in Sources, NEW row \in Rows, PutRow(s, row)
    PROVE  RInv' /\ Kept(s)
<1> DEFINE m == With(src, s)
           p == Pos(m, s)
           old == Row(s)
<1>1. /\ src' = m /\ rows' = [rows EXCEPT ![p] = row]
      /\ invRef' = UpdateInverse(invRef, RefPos(old.ref), RefPos(row.ref), p)
      /\ invMulti' = UpdateInverse(invMulti, MultiPos(old.multi), MultiPos(row.multi), p)
      /\ use' = use /\ tgt' = tgt
      /\ use.regrows \/
             ~ (\/ Regrows(invRef, RefPos(old.ref), RefPos(row.ref))
                \/ Regrows(invMulti, MultiPos(old.multi), MultiPos(row.multi)))
  BY DEF PutRow
<1>2. /\ use \in Uses /\ Mapped(src, Sources) /\ Mapped(tgt, Targets)
      /\ rows \in [Spots(Sources) -> Rows]
      /\ IndexOK(invRef, Live(src), RefNames) /\ IndexOK(invMulti, Live(src), MultiNames)
  BY DEF RInv
<1>3. /\ ~Regrows(invRef, RefPos(old.ref), RefPos(row.ref))
      /\ ~Regrows(invMulti, MultiPos(old.multi), MultiPos(row.multi))
  BY <1>1, <1>2 DEF Careful
<1>4. /\ Mapped(m, Sources) /\ p \in Live(m) /\ p \in Nat /\ m.omap[p] = s
      /\ Live(m) = Live(src) \cup {p}
      /\ \A q \in Live(src) : m.omap[q] = src.omap[q]
      /\ p \in Live(src) <=> Pos(src, s) # MISS
      /\ Pos(src, s) # MISS => p = Pos(src, s)
  <2>1. CASE Pos(src, s) # MISS
    <3>1. m = src
      BY <2>1 DEF With
    <3>2. Pos(src, s) \in Live(src) /\ src.omap[Pos(src, s)] = s
      BY <1>2, <2>1, Constants, PosFinds
    <3>3. Pos(src, s) \in Nat
      BY <1>2, <3>2, Constants, LivePlaces
    <3> QED
      BY <1>2, <2>1, <3>1, <3>2, <3>3
  <2>2. CASE Pos(src, s) = MISS
    <3> DEFINE n == IdmNewId(src.idm)
    <3>2. /\ Mapped(m, Sources) /\ n \in Nat /\ n \notin Live(src)
          /\ Live(m) = Live(src) \cup {n} /\ m.omap[n] = s
          /\ \A q \in Live(src) : m.omap[q] = src.omap[q]
      BY <1>2, <2>2, Constants, WithNew
    <3> HIDE DEF n
    <3>3. p = n
      BY <3>2, Constants, PosFinds
    <3> QED
      BY <2>2, <3>2, <3>3
  <2> QED
    BY <2>1, <2>2
<1>5. /\ old \in Rows
      /\ p \in Live(src) => /\ RefNames[p] = Range(RefPos(old.ref))
                            /\ MultiNames[p] = Range(MultiPos(old.multi))
      /\ p \notin Live(src) =>
            Range(RefPos(old.ref)) = {} /\ Range(MultiPos(old.multi)) = {}
  BY <1>4, RowNames
<1>6. p \in Spots(Sources) /\ Live(src) \subseteq Spots(Sources)
  BY <1>2, <1>4, Constants, LivePlaces
<1> HIDE DEF m, p, old
<1>7. /\ rows' \in [Spots(Sources) -> Rows] /\ rows'[p] = row
      /\ \A q \in Spots(Sources) : q # p => rows'[q] = rows[q]
  BY <1>1, <1>2, <1>6
<1>8. \A key : RefPos(key)' = RefPos(key)
  BY <1>1 DEF RefPos
<1>9. /\ RefNames'[p] = Range(RefPos(row.ref)) /\ MultiNames'[p] = Range(MultiPos(row.multi))
      /\ \A q \in Spots(Sources) : q # p => RefNames'[q] = RefNames[q] /\ MultiNames'[q] = MultiNames[q]
  <2>1. /\ RefNames' = [q \in Spots(Sources) |-> Range(RefPos(rows'[q].ref))]
        /\ MultiNames' = [q \in Spots(Sources) |-> Range(MultiPos(rows'[q].multi))]
    BY <1>1 DEF RefNames, MultiNames, RefPos
  <2> QED
    BY <1>6, <1>7, <2>1 DEF RefNames, MultiNames
<1>10. RefPos(row.ref) \in Seq({Pos(tgt, row.ref)}) /\ MultiPos(row.multi) \in Seq(Spots(Targets) \cup {WORD})
  BY NamedSeqs
<1>11. \A q : q # p => (q \in Live(src) <=> q \in Live(m))
  BY <1>4
<1>12. IndexOK(invRef', Live(m), RefNames')
  <2>1. \A q \in Live(src) : q # p => RefNames'[q] = RefNames[q]
    BY <1>6, <1>9
  <2> DEFINE R2 == RefNames'
             was == RefPos(old.ref)
             new == RefPos(row.ref)
             A == {Pos(tgt, row.ref)}
  <2>2. /\ R2[p] = Range(new) /\ \A q \in Live(src) : q # p => R2[q] = RefNames[q]
        /\ p \in Live(src) => RefNames[p] = Range(was)
        /\ p \notin Live(src) => Range(was) = {}
        /\ new \in Seq(A) /\ ~Regrows(invRef, was, new)
        /\ p \in Live(m) /\ p \in Nat
    BY <1>3, <1>4, <1>5, <1>9, <1>10, <2>1
  <2>4. invRef' = UpdateInverse(invRef, was, new, p)
    BY <1>1
  <2> HIDE DEF R2, was, new, A
  <2>3. IndexOK(UpdateInverse(invRef, was, new, p), Live(m), R2)
    BY <1>2, <1>11, <2>2, UpdateExact
  <2> QED
    BY <2>3, <2>4 DEF R2
<1>13. IndexOK(invMulti', Live(m), MultiNames')
  <2>1. \A q \in Live(src) : q # p => MultiNames'[q] = MultiNames[q]
    BY <1>6, <1>9
  <2> DEFINE R2 == MultiNames'
             was == MultiPos(old.multi)
             new == MultiPos(row.multi)
             A == Spots(Targets) \cup {WORD}
  <2>2. /\ R2[p] = Range(new) /\ \A q \in Live(src) : q # p => R2[q] = MultiNames[q]
        /\ p \in Live(src) => MultiNames[p] = Range(was)
        /\ p \notin Live(src) => Range(was) = {}
        /\ new \in Seq(A) /\ ~Regrows(invMulti, was, new)
        /\ p \in Live(m) /\ p \in Nat
    BY <1>3, <1>4, <1>5, <1>9, <1>10, <2>1
  <2>4. invMulti' = UpdateInverse(invMulti, was, new, p)
    BY <1>1
  <2> HIDE DEF R2, was, new, A
  <2>3. IndexOK(UpdateInverse(invMulti, was, new, p), Live(m), R2)
    BY <1>2, <1>11, <2>2, UpdateExact
  <2> QED
    BY <2>3, <2>4 DEF R2
<1>14. RInv'
  BY <1>1, <1>2, <1>4, <1>7, <1>12, <1>13 DEF RInv
<1>15. ASSUME NEW s2 \in Sources \ {s}
       PROVE  /\ Pos(src, s2)' = Pos(src, s2)
              /\ Pos(src, s2) # MISS =>
                  /\ RefNames'[Pos(src, s2)] = RefNames[Pos(src, s2)]
                  /\ MultiNames'[Pos(src, s2)] = MultiNames[Pos(src, s2)]
  <2>1. Pos(src, s2)' = Pos(m, s2)
    BY <1>1 DEF m
  <2>2. CASE Pos(src, s2) = MISS
    <3>1. \A q \in Live(src) : src.omap[q] # s2
      <4>1. MISS \notin Live(src)
        BY <1>2, Constants, LivePlaces DEF MISS
      <4> QED
        BY <1>2, <2>2, <4>1, Constants, PosFinds
    <3>2. \A q \in Live(m) : m.omap[q] # s2
      BY <1>4, <3>1
    <3> QED
      BY <1>4, <2>1, <2>2, <3>2, Constants, PosFinds
  <2>3. CASE Pos(src, s2) # MISS
    <3> DEFINE q == Pos(src, s2)
    <3>1. q \in Live(src) /\ src.omap[q] = s2
      BY <1>2, <2>3, Constants, PosFinds
    <3> HIDE DEF q
    <3>2. q \in Live(m) /\ m.omap[q] = s2 /\ q # p
      BY <1>4, <3>1
    <3>3. Pos(m, s2) = q
      BY <1>4, <3>2, Constants, PosFinds
    <3>4. RefNames'[q] = RefNames[q] /\ MultiNames'[q] = MultiNames[q]
      BY <1>6, <1>9, <3>1, <3>2
    <3> QED
      BY <2>1, <3>3, <3>4 DEF q
  <2> QED
    BY <2>2, <2>3
<1>16. Kept(s)
  BY <1>15, Zenon DEF Kept
<1> QED
  BY <1>14, <1>16

LEMMA DelRInv ==
    ASSUME RInv, NEW s \in Sources, Pos(src, s) # MISS,
           invRef' = Cleaned(invRef, RefPos(rows[Pos(src, s)].ref), Pos(src, s)),
           invMulti' = Cleaned(invMulti, MultiPos(rows[Pos(src, s)].multi), Pos(src, s)),
           src' = Without(src, Pos(src, s)),
           rows' = [rows EXCEPT ![Pos(src, s)] = Zero],
           UNCHANGED <<use, tgt>>
    PROVE  RInv' /\ Kept(s)
<1> DEFINE p == Pos(src, s)
           m == Without(src, p)
<1>1. /\ use \in Uses /\ Mapped(src, Sources) /\ Mapped(tgt, Targets)
      /\ rows \in [Spots(Sources) -> Rows]
      /\ IndexOK(invRef, Live(src), RefNames) /\ IndexOK(invMulti, Live(src), MultiNames)
  BY DEF RInv
<1>2. p \in Live(src) /\ src.omap[p] = s /\ p \in Nat
      /\ p \in Spots(Sources) /\ Live(src) \subseteq Spots(Sources)
  BY <1>1, Constants, PosFinds, LivePlaces
<1>3. src' = m /\ rows' = [rows EXCEPT ![p] = Zero] /\ use' = use /\ tgt' = tgt
  OBVIOUS
<1>4. /\ Mapped(m, Sources) /\ Live(m) = Live(src) \ {p}
      /\ \A q \in Live(src) \ {p} : m.omap[q] = src.omap[q]
  BY <1>1, <1>2, Constants, WithoutGone
<1>5. /\ invRef' = UpdateInverse(invRef, RefPos(rows[p].ref), <<>>, p)
      /\ invMulti' = UpdateInverse(invMulti, MultiPos(rows[p].multi), <<>>, p)
  BY DEF Cleaned
<1> HIDE DEF m, p
<1>6. Zero \in Rows
  BY <1>1, ZeroNames
<1>7. /\ rows' \in [Spots(Sources) -> Rows]
      /\ \A q \in Spots(Sources) : q # p => rows'[q] = rows[q]
  BY <1>1, <1>2, <1>3, <1>6
<1>8. \A q \in Spots(Sources) : q # p => RefNames'[q] = RefNames[q] /\ MultiNames'[q] = MultiNames[q]
  <2>1. /\ RefNames' = [q \in Spots(Sources) |-> Range(RefPos(rows'[q].ref))]
        /\ MultiNames' = [q \in Spots(Sources) |-> Range(MultiPos(rows'[q].multi))]
    BY <1>3 DEF RefNames, MultiNames, RefPos
  <2> QED
    BY <1>7, <2>1 DEF RefNames, MultiNames
<1>9. /\ \A q : q # p => (q \in Live(src) <=> q \in Live(m))
      /\ p \notin Live(m)
      /\ <<>> \in Seq(Nat) /\ Range(<<>>) = {}
      /\ RefNames[p] = Range(RefPos(rows[p].ref)) /\ MultiNames[p] = Range(MultiPos(rows[p].multi))
  BY <1>2, <1>4, EmptySeq DEF Range, RefNames, MultiNames
<1>10. \A q \in Live(src) : q # p => RefNames'[q] = RefNames[q] /\ MultiNames'[q] = MultiNames[q]
  BY <1>2, <1>8
<1> DEFINE none == <<>>
<1>11. none \in Seq(Nat) /\ Range(none) = {}
       /\ \A inv, old : ~Regrows(inv, old, none)
  BY <1>9 DEF Regrows
<1>12. IndexOK(invRef', Live(m), RefNames')
  <2> DEFINE R2 == RefNames'
             was == RefPos(rows[p].ref)
  <2>1. /\ \A q \in Live(src) : q # p => R2[q] = RefNames[q]
        /\ RefNames[p] = Range(was)
        /\ invRef' = UpdateInverse(invRef, was, none, p)
    BY <1>5, <1>9, <1>10
  <2> HIDE DEF R2, was, none
  <2>2. IndexOK(UpdateInverse(invRef, was, none, p), Live(m), R2)
    BY <1>1, <1>2, <1>9, <1>11, <2>1, UpdateExact
  <2> QED
    BY <2>1, <2>2 DEF R2
<1>13. IndexOK(invMulti', Live(m), MultiNames')
  <2> DEFINE R2 == MultiNames'
             was == MultiPos(rows[p].multi)
  <2>1. /\ \A q \in Live(src) : q # p => R2[q] = MultiNames[q]
        /\ MultiNames[p] = Range(was)
        /\ invMulti' = UpdateInverse(invMulti, was, none, p)
    BY <1>5, <1>9, <1>10
  <2> HIDE DEF R2, was, none
  <2>2. IndexOK(UpdateInverse(invMulti, was, none, p), Live(m), R2)
    BY <1>1, <1>2, <1>9, <1>11, <2>1, UpdateExact
  <2> QED
    BY <2>1, <2>2 DEF R2
<1>14. RInv'
  BY <1>1, <1>3, <1>4, <1>7, <1>12, <1>13 DEF RInv
<1>15. ASSUME NEW s2 \in Sources \ {s}
       PROVE  /\ Pos(src, s2)' = Pos(src, s2)
              /\ Pos(src, s2) # MISS =>
                  /\ RefNames'[Pos(src, s2)] = RefNames[Pos(src, s2)]
                  /\ MultiNames'[Pos(src, s2)] = MultiNames[Pos(src, s2)]
  <2>1. Pos(src, s2)' = Pos(m, s2)
    BY <1>3
  <2>2. CASE Pos(src, s2) = MISS
    <3>1. \A q \in Live(src) : src.omap[q] # s2
      <4>1. MISS \notin Live(src)
        BY <1>1, Constants, LivePlaces DEF MISS
      <4> QED
        BY <1>1, <2>2, <4>1, Constants, PosFinds
    <3>2. \A q \in Live(m) : m.omap[q] # s2
      BY <1>4, <3>1
    <3> QED
      BY <1>4, <2>1, <2>2, <3>2, Constants, PosFinds
  <2>3. CASE Pos(src, s2) # MISS
    <3> DEFINE q == Pos(src, s2)
    <3>1. q \in Live(src) /\ src.omap[q] = s2
      BY <1>1, <2>3, Constants, PosFinds
    <3> HIDE DEF q
    <3>2. q \in Live(m) /\ m.omap[q] = s2 /\ q # p
      BY <1>2, <1>4, <3>1
    <3>3. Pos(m, s2) = q
      BY <1>4, <3>2, Constants, PosFinds
    <3>4. RefNames'[q] = RefNames[q] /\ MultiNames'[q] = MultiNames[q]
      BY <1>10, <3>1, <3>2
    <3> QED
      BY <2>1, <3>3, <3>4 DEF q
  <2> QED
    BY <2>2, <2>3
<1>16. Kept(s)
  BY <1>15, Zenon DEF Kept
<1> QED
  BY <1>14, <1>16

(* A target that no reference names comes or goes: the positions that the  *)
(* references stand for stay.                                              *)
LEMMA TargetRInv ==
    ASSUME RInv, NEW t \in Targets, Unnamed(t), Mapped(tgt', Targets),
           \A key : key # t => Pos(tgt', key) = Pos(tgt, key),
           UNCHANGED <<use, src, rows, invRef, invMulti>>
    PROVE  RInv' /\ AllKept
<1>1. /\ use \in Uses /\ Mapped(src, Sources)
      /\ rows \in [Spots(Sources) -> Rows]
      /\ IndexOK(invRef, Live(src), RefNames) /\ IndexOK(invMulti, Live(src), MultiNames)
  BY DEF RInv
<1>2. use' = use /\ src' = src /\ rows' = rows /\ invRef' = invRef /\ invMulti' = invMulti
  OBVIOUS
<1>3. MultiNames' = MultiNames
  BY <1>2 DEF MultiNames
<1>4. \A p \in Live(src) : p \in Spots(Sources)
  BY <1>1, Constants, LivePlaces
<1>5. \A p \in Live(src) : RefNames'[p] = RefNames[p]
  <2>1. RefNames' = [q \in Spots(Sources) |-> Range(RefPos(rows[q].ref)')]
    BY <1>2 DEF RefNames
  <2>2. \A key : key # t => RefPos(key)' = RefPos(key)
    BY DEF RefPos
  <2> QED
    BY <1>4, <2>1, <2>2 DEF RefNames, Unnamed
<1>6. IndexOK(invRef, Live(src), RefNames')
  BY <1>1, <1>5 DEF IndexOK
<1>7. RInv'
  BY <1>1, <1>2, <1>3, <1>6 DEF RInv
<1>8. ASSUME NEW s2 \in Sources
      PROVE  /\ Pos(src, s2)' = Pos(src, s2)
             /\ Pos(src, s2) # MISS => RefNames'[Pos(src, s2)] = RefNames[Pos(src, s2)]
  BY <1>1, <1>2, <1>5, Constants, PosFinds
<1> QED
  BY <1>3, <1>7, <1>8 DEF AllKept

LEMMA PutTargetRInv ==
    ASSUME RInv, PutTarget
    PROVE  RInv' /\ AllKept
<1>1. PICK t \in Targets :
          /\ Unnamed(t) /\ tgt' = With(tgt, t)
          /\ UNCHANGED <<use, src, rows, invRef, invMulti>>
  BY DEF PutTarget
<1>2. Mapped(tgt, Targets)
  BY DEF RInv
<1>3. Mapped(tgt', Targets) /\ \A key : key # t => Pos(tgt', key) = Pos(tgt, key)
  <2>1. CASE Pos(tgt, t) # MISS
    BY <1>1, <1>2, <2>1 DEF With
  <2>2. CASE Pos(tgt, t) = MISS
    <3> DEFINE n == IdmNewId(tgt.idm)
    <3>1. /\ Mapped(tgt', Targets) /\ n \notin Live(tgt)
          /\ Live(tgt') = Live(tgt) \cup {n} /\ tgt'.omap[n] = t
          /\ \A q \in Live(tgt) : tgt'.omap[q] = tgt.omap[q]
      BY <1>1, <1>2, <2>2, Constants, WithNew
    <3> HIDE DEF n
    <3>2. ASSUME NEW key, key # t PROVE Pos(tgt', key) = Pos(tgt, key)
      <4>1. CASE \A q \in Live(tgt) : tgt.omap[q] # key
        BY <1>2, <3>1, <3>2, <4>1, Constants, PosFinds
      <4>2. ASSUME NEW q \in Live(tgt), tgt.omap[q] = key PROVE Pos(tgt', key) = Pos(tgt, key)
        BY <1>2, <3>1, <4>2, Constants, PosFinds
      <4> QED
        BY <4>1, <4>2
    <3> QED
      BY <3>1, <3>2
  <2> QED
    BY <2>1, <2>2
<1> QED
  BY <1>1, <1>3, TargetRInv

LEMMA DelTargetRInv ==
    ASSUME RInv, DelTarget
    PROVE  RInv' /\ AllKept
<1>1. PICK t \in Targets :
          /\ Unnamed(t) /\ Pos(tgt, t) # MISS /\ tgt' = Without(tgt, Pos(tgt, t))
          /\ UNCHANGED <<use, src, rows, invRef, invMulti>>
  BY DEF DelTarget
<1>2. Mapped(tgt, Targets)
  BY DEF RInv
<1> DEFINE p == Pos(tgt, t)
<1>3. p \in Live(tgt) /\ tgt.omap[p] = t
  BY <1>1, <1>2, Constants, PosFinds
<1>4. /\ Mapped(tgt', Targets) /\ Live(tgt') = Live(tgt) \ {p}
      /\ \A q \in Live(tgt) \ {p} : tgt'.omap[q] = tgt.omap[q]
  BY <1>1, <1>2, <1>3, Constants, WithoutGone
<1> HIDE DEF p
<1>5. ASSUME NEW key, key # t PROVE Pos(tgt', key) = Pos(tgt, key)
  <2>1. CASE \A q \in Live(tgt) : tgt.omap[q] # key
    BY <1>2, <1>4, <2>1, Constants, PosFinds
  <2>2. ASSUME NEW q \in Live(tgt), tgt.omap[q] = key PROVE Pos(tgt', key) = Pos(tgt, key)
    <3>1. q \in Live(tgt') /\ tgt'.omap[q] = key
      BY <1>3, <1>4, <1>5, <2>2
    <3> QED
      BY <1>2, <1>4, <2>2, <3>1, Constants, PosFinds
  <2> QED
    BY <2>1, <2>2
<1> QED
  BY <1>1, <1>4, <1>5, TargetRInv

(* the steps of an item, and those that leave all items as they are *)
ItemsKept == (\E s \in Sources : Kept(s)) \/ AllKept

LEMMA SomeRow ==
    ASSUME RInv, NEW s \in use.items
    PROVE  /\ s \in Sources
           /\ \A key \in Targets \cup {NULL} : [Row(s) EXCEPT !.ref = key] \in Rows
           /\ \A lines \in Seq(Spots(Targets) \cup {WORD}) : [Row(s) EXCEPT !.multi = lines] \in Rows
<1>1. s \in Sources
  BY RecordsAssumption DEF RInv
<1>2. Row(s) \in Rows
  BY <1>1, RowNames
<1> QED
  BY <1>1, <1>2 DEF Rows

LEMMA BoundedIsSeq ==
    ASSUME NEW A, NEW s \in BoundedSeq(A, MaxLines)
    PROVE  s \in Seq(A)
<1>1. PICK n \in 0 .. MaxLines : s \in [1 .. n -> A]
  BY DEF BoundedSeq, SeqOf
<1>2. n \in Nat
  BY <1>1, RecordsAssumption
<1> QED
  BY <1>1, <1>2

LEMMA NextRInv ==
    ASSUME Careful, RInv, [Next]_vars
    PROVE  RInv' /\ ItemsKept
<1> DEFINE Texts2 == Seq(Spots(Targets) \cup {WORD})
<1>1. Mapped(tgt, Targets) /\ tgt.idm.last <= Cardinality(Targets)
  BY DEF RInv, Mapped
<1>2. Refs \subseteq Targets \cup {NULL}
  BY DEF Refs
<1>3. \A lines \in Texts : lines \in Texts2
  <2>1. <<>> \in Texts2
    BY EmptySeq
  <2>2. \A lines \in BoundedSeq(Spots(Targets) \cup {WORD}, MaxLines) : lines \in Texts2
    BY BoundedIsSeq
  <2> HIDE DEF Texts2
  <2> QED
    BY <2>1, <2>2 DEF Texts
<1>4. CASE PutStruct
  <2>1. PICK s \in use.items, key \in Refs, lines \in Texts :
            PutRow(s, [ref |-> key, multi |-> lines])
    BY <1>4 DEF PutStruct
  <2>2. [ref |-> key, multi |-> lines] \in Rows /\ s \in Sources
    BY <1>2, <1>3, SomeRow DEF Rows
  <2> QED
    BY <2>1, <2>2, PutRowRInv DEF ItemsKept
<1>5. CASE PutField
  <2>1. PICK s \in use.items :
            \/ \E key \in Refs : PutRow(s, [Row(s) EXCEPT !.ref = key])
            \/ \E lines \in Texts : PutRow(s, [Row(s) EXCEPT !.multi = lines])
    BY <1>5 DEF PutField
  <2>2. PICK row \in Rows : PutRow(s, row)
    BY <1>2, <1>3, <2>1, SomeRow
  <2> QED
    BY <2>2, SomeRow, PutRowRInv DEF ItemsKept
<1>6. CASE FieldPutRef
  <2>1. PICK s \in use.items, key \in Refs \ {NULL} : PutRow(s, [Row(s) EXCEPT !.ref = key])
    BY <1>6 DEF FieldPutRef
  <2>2. PICK row \in Rows : PutRow(s, row)
    BY <1>2, <2>1, SomeRow
  <2> QED
    BY <2>2, SomeRow, PutRowRInv DEF ItemsKept
<1>7. CASE FieldPutMulti
  <2>1. PICK s \in use.items, keys \in BoundedSeq(Targets, MaxLines) :
            PutRow(s, [Row(s) EXCEPT !.multi =
                [i \in DOMAIN keys |-> IF Pos(tgt, keys[i]) = MISS THEN WORD
                                       ELSE Pos(tgt, keys[i])]])
    BY <1>7 DEF FieldPutMulti
  <2> DEFINE lines == [i \in DOMAIN keys |-> IF Pos(tgt, keys[i]) = MISS THEN WORD
                                             ELSE Pos(tgt, keys[i])]
  <2>2. keys \in Seq(Targets) /\ DOMAIN keys = 1 .. Len(keys) /\ Len(keys) \in Nat
    <3>1. keys \in Seq(Targets)
      BY BoundedIsSeq
    <3> QED
      BY <3>1
  <2>3. \A key : Pos(tgt, key) # MISS => Pos(tgt, key) \in Spots(Targets)
    BY <1>1, Constants, PosFinds, LivePlaces
  <2>4. lines \in [1 .. Len(keys) -> Spots(Targets) \cup {WORD}]
    BY <2>2, <2>3
  <2>5. lines \in Texts2
    <3> HIDE DEF lines
    <3> QED
      BY <2>2, <2>4
  <2> HIDE DEF lines
  <2>6. PICK row \in Rows : PutRow(s, row)
    BY <2>1, <2>5, SomeRow DEF lines
  <2> QED
    BY <2>6, SomeRow, PutRowRInv DEF ItemsKept
<1>8. CASE DelField
  <2>1. PICK s \in use.items :
            \/ PutRow(s, [Row(s) EXCEPT !.ref = NULL])
            \/ PutRow(s, [Row(s) EXCEPT !.multi = <<>>])
    BY <1>8 DEF DelField
  <2>2. <<>> \in Texts2
    BY EmptySeq
  <2>3. PICK row \in Rows : PutRow(s, row)
    BY <2>1, <2>2, SomeRow
  <2> QED
    BY <2>3, SomeRow, PutRowRInv DEF ItemsKept
<1>9. CASE Del
  <2>1. PICK s \in use.items :
            /\ Pos(src, s) # MISS
            /\ invRef' = Cleaned(invRef, RefPos(rows[Pos(src, s)].ref), Pos(src, s))
            /\ invMulti' = Cleaned(invMulti, MultiPos(rows[Pos(src, s)].multi), Pos(src, s))
            /\ src' = Without(src, Pos(src, s))
            /\ rows' = [rows EXCEPT ![Pos(src, s)] = Zero]
            /\ UNCHANGED <<use, tgt>>
    BY <1>9 DEF Del
  <2>2. s \in Sources
    BY SomeRow
  <2>3. RInv' /\ Kept(s)
    BY <2>1, <2>2, DelRInv
  <2> QED
    BY <2>2, <2>3 DEF ItemsKept
<1>10. CASE PutTarget
  BY <1>10, PutTargetRInv DEF ItemsKept
<1>11. CASE DelTarget
  BY <1>11, DelTargetRInv DEF ItemsKept
<1>12. CASE UNCHANGED vars
  <2>1. /\ use' = use /\ src' = src /\ tgt' = tgt /\ rows' = rows
        /\ invRef' = invRef /\ invMulti' = invMulti
    BY <1>12 DEF vars
  <2>2. RefNames' = RefNames /\ MultiNames' = MultiNames
    BY <2>1 DEF RefNames, MultiNames, RefPos
  <2>3. RInv'
    BY <2>1, <2>2 DEF RInv
  <2>4. AllKept
    BY <2>1, <2>2 DEF AllKept
  <2> QED
    BY <2>3, <2>4 DEF ItemsKept
<1> QED
  BY <1>4, <1>5, <1>6, <1>7, <1>8, <1>9, <1>10, <1>11, <1>12 DEF Next

(* The invariant the other results follow from. *)
THEOREM RecordsInvariant == ASSUME Careful PROVE Spec => []RInv
<1>1. RInv /\ [Next]_vars => RInv'
  BY NextRInv
<1> QED
  BY InitRInv, <1>1, PTL DEF Spec

LEMMA LinesRange ==
    ASSUME NEW text \in Text
    PROVE  /\ Range(text.lines) = Lines(text)
           /\ IsInjective(text.lines) <=> Unrepeated(text.lines)
<1>1. DOMAIN text.lines = 1 .. Len(text.lines)
  BY DEF Text
<1> QED
  BY <1>1 DEF Range, Lines, IsInjective, Unrepeated

(* Both maps' positions are accounted for, and rows and texts hold what    *)
(* they are declared to, for any items, targets and lines.                 *)
THEOREM RecordsTyped == ASSUME Careful PROVE Spec => []TypeOK
<1>1. RInv => TypeOK
  <2> SUFFICES ASSUME RInv PROVE TypeOK
    OBVIOUS
  <2>1. /\ Mapped(src, Sources) /\ Mapped(tgt, Targets)
        /\ rows \in [Spots(Sources) -> Rows]
        /\ invRef \in [Spots(Targets) -> Text] /\ invMulti \in [Spots(Targets) -> Text]
    BY DEF RInv, IndexOK
  <2>2. /\ Accounts(src.idm, Live(src)) /\ src.omap \in [Spots(Sources) -> Sources \cup {NULL}]
        /\ Accounts(tgt.idm, Live(tgt)) /\ tgt.omap \in [Spots(Targets) -> Targets \cup {NULL}]
    BY <2>1 DEF Mapped
  <2>3. ASSUME NEW p \in Spots(Sources)
        PROVE  /\ rows[p].ref \in Targets \cup {NULL}
               /\ Range(rows[p].multi) \subseteq Spots(Targets) \cup {WORD}
    <3>1. rows[p] \in Rows
      BY <2>1
    <3>2. /\ rows[p].ref \in Targets \cup {NULL}
          /\ rows[p].multi \in Seq(Spots(Targets) \cup {WORD})
      BY <3>1 DEF Rows
    <3>3. \A i \in DOMAIN rows[p].multi : rows[p].multi[i] \in Spots(Targets) \cup {WORD}
      BY <3>2
    <3> QED
      BY <3>2, <3>3 DEF Range
  <2>4. ASSUME NEW inv \in {invRef, invMulti}, NEW tp \in Spots(Targets)
        PROVE  Range(inv[tp].lines) \subseteq Nat /\ inv[tp].ended \in BOOLEAN
    <3>1. inv[tp] \in Text
      BY <2>1, <2>4
    <3>2. inv[tp].lines \in Seq(Nat) /\ inv[tp].ended \in BOOLEAN
      BY <3>1 DEF Text
    <3> QED
      BY <3>2 DEF Range
  <2> QED
    BY <2>1, <2>2, <2>3, <2>4 DEF TypeOK
<1> QED
  BY <1>1, RecordsInvariant, PTL

(* qmap_inv_get returns exactly the items that refer to a target, for both *)
(* kinds of fields, for any items, targets and lines.                      *)
THEOREM InverseIsExact == ASSUME Careful PROVE Spec => []InverseExact
<1>1. RInv => InverseExact
  <2> SUFFICES ASSUME RInv, NEW tp \in Spots(Targets)
               PROVE  /\ InvGet(invRef, tp) = {p \in Live(src) : tp \in Range(RefPos(rows[p].ref))}
                      /\ InvGet(invMulti, tp) = {p \in Live(src) : tp \in Range(MultiPos(rows[p].multi))}
    BY DEF InverseExact
  <2>1. /\ invRef[tp] \in Text /\ Lines(invRef[tp]) = {p \in Live(src) : tp \in RefNames[p]}
        /\ invMulti[tp] \in Text /\ Lines(invMulti[tp]) = {p \in Live(src) : tp \in MultiNames[p]}
    BY DEF RInv, IndexOK
  <2>2. Live(src) \subseteq Spots(Sources)
    BY Constants, LivePlaces DEF RInv
  <2>3. \A p \in Live(src) : /\ RefNames[p] = Range(RefPos(rows[p].ref))
                             /\ MultiNames[p] = Range(MultiPos(rows[p].multi))
    BY <2>2 DEF RefNames, MultiNames
  <2>4. InvGet(invRef, tp) = Lines(invRef[tp]) /\ InvGet(invMulti, tp) = Lines(invMulti[tp])
    BY <2>1, LinesRange DEF InvGet
  <2> QED
    BY <2>1, <2>3, <2>4
<1> QED
  BY <1>1, RecordsInvariant, PTL

(* An item is listed once at each target, however often it names it and is *)
(* put again.                                                              *)
THEOREM ItemsListedOnce == ASSUME Careful PROVE Spec => []ListedOnce
<1>1. RInv => ListedOnce
  <2> SUFFICES ASSUME RInv, NEW tp \in Spots(Targets)
               PROVE  IsInjective(invRef[tp].lines) /\ IsInjective(invMulti[tp].lines)
    BY DEF ListedOnce
  <2>1. /\ invRef[tp] \in Text /\ Unrepeated(invRef[tp].lines)
        /\ invMulti[tp] \in Text /\ Unrepeated(invMulti[tp].lines)
    BY DEF RInv, IndexOK
  <2> QED
    BY <2>1, LinesRange
<1> QED
  BY <1>1, RecordsInvariant, PTL

-----------------------------------------------------------------------------
(* The refinement of References *)

(* What an index reports of an item is what the item names. *)
LEMMA ReportedNames ==
    ASSUME RInv, NEW s \in Sources, NEW tp \in Spots(Targets)
    PROVE  /\ <<s, tp>> \in Reported(invRef) <=>
                Pos(src, s) # MISS /\ tp \in RefNames[Pos(src, s)]
           /\ <<s, tp>> \in Reported(invMulti) <=>
                Pos(src, s) # MISS /\ tp \in MultiNames[Pos(src, s)]
<1>1. /\ invRef[tp] \in Text /\ Lines(invRef[tp]) = {p \in Live(src) : tp \in RefNames[p]}
      /\ invMulti[tp] \in Text /\ Lines(invMulti[tp]) = {p \in Live(src) : tp \in MultiNames[p]}
  BY DEF RInv, IndexOK
<1>2. InvGet(invRef, tp) = Lines(invRef[tp]) /\ InvGet(invMulti, tp) = Lines(invMulti[tp])
  BY <1>1, LinesRange DEF InvGet
<1>3. Pos(src, s) # MISS => Pos(src, s) \in Live(src)
  BY Constants, PosFinds DEF RInv
<1>4. \A inv : <<s, tp>> \in Reported(inv) <=> Pos(src, s) # MISS /\ Pos(src, s) \in InvGet(inv, tp)
  BY DEF Reported
<1> QED
  BY <1>1, <1>2, <1>3, <1>4

LEMMA ReportedPairs ==
    ASSUME NEW inv
    PROVE  Reported(inv) \subseteq Sources \X Spots(Targets)
BY DEF Reported

(* The pairs of the items that stay are those reported before. *)
Replaced(old, new, s) == new = {e \in old : e[1] # s} \cup ({s} \X {tp \in Spots(Targets) : <<s, tp>> \in new})

LEMMA ReplacedAt ==
    ASSUME NEW old \in SUBSET (Sources \X Spots(Targets)), NEW new \in SUBSET (Sources \X Spots(Targets)),
           NEW s \in Sources,
           \A s2 \in Sources \ {s}, tp \in Spots(Targets) : <<s2, tp>> \in new <=> <<s2, tp>> \in old
    PROVE  Replaced(old, new, s)
<1> DEFINE of == {tp \in Spots(Targets) : <<s, tp>> \in new}
<1>1. ASSUME NEW e \in Sources \X Spots(Targets)
      PROVE  e \in new <=> e \in {x \in old : x[1] # s} \cup ({s} \X of)
  <2>1. PICK s2 \in Sources, tp \in Spots(Targets) : e = <<s2, tp>>
    BY <1>1
  <2>2. e[1] = s2
    BY <2>1
  <2>3. CASE s2 = s
    <3>1. e \in {s} \X of <=> e \in new
      BY <2>1, <2>3
    <3> QED
      BY <2>2, <2>3, <3>1
  <2>4. CASE s2 # s
    <3>1. e \notin {s} \X of
      BY <2>1, <2>4
    <3> QED
      BY <2>1, <2>2, <2>4, <3>1
  <2> QED
    BY <2>3, <2>4
<1>2. {x \in old : x[1] # s} \cup ({s} \X of) \subseteq Sources \X Spots(Targets)
  BY Zenon
<1> QED
  BY <1>1, <1>2 DEF Replaced

LEMMA StepsReported ==
    ASSUME RInv, RInv', ItemsKept
    PROVE  /\ \/ \E s \in Sources : Replaced(Reported(invRef), Reported(invRef)', s)
              \/ Reported(invRef)' = Reported(invRef)
           /\ \/ \E s \in Sources : Replaced(Reported(invMulti), Reported(invMulti)', s)
              \/ Reported(invMulti)' = Reported(invMulti)
<1> DEFINE P == Sources \X Spots(Targets)
           ref == Reported(invRef)
           multi == Reported(invMulti)
<1>1. ref \in SUBSET P /\ multi \in SUBSET P /\ ref' \in SUBSET P /\ multi' \in SUBSET P
  <2>1. Reported(invRef)' \subseteq P /\ Reported(invMulti)' \subseteq P
    BY DEF Reported
  <2> QED
    BY <2>1, ReportedPairs
<1>2. ASSUME NEW s \in Sources, NEW tp \in Spots(Targets)
      PROVE  /\ <<s, tp>> \in ref' <=> Pos(src, s)' # MISS /\ tp \in RefNames'[Pos(src, s)']
             /\ <<s, tp>> \in multi' <=> Pos(src, s)' # MISS /\ tp \in MultiNames'[Pos(src, s)']
  <2>1. /\ invRef[tp]' \in Text /\ Lines(invRef[tp])' = {p \in Live(src)' : tp \in RefNames'[p]}
        /\ invMulti[tp]' \in Text /\ Lines(invMulti[tp])' = {p \in Live(src)' : tp \in MultiNames'[p]}
    BY DEF RInv, IndexOK
  <2>2. InvGet(invRef, tp)' = Lines(invRef[tp])' /\ InvGet(invMulti, tp)' = Lines(invMulti[tp])'
    BY <2>1, LinesRange DEF InvGet
  <2>3. Pos(src, s)' # MISS => Pos(src, s)' \in Live(src)'
    <3>1. Mapped(src', Sources)
      BY DEF RInv
    <3>2. Pos(src', s) # MISS => Pos(src', s) \in Live(src')
      BY <3>1, Constants, PosFinds
    <3> QED
      BY <3>2
  <2>4. /\ <<s, tp>> \in ref' <=> Pos(src, s)' # MISS /\ Pos(src, s)' \in InvGet(invRef, tp)'
        /\ <<s, tp>> \in multi' <=> Pos(src, s)' # MISS /\ Pos(src, s)' \in InvGet(invMulti, tp)'
    BY DEF Reported
  <2> QED
    BY <2>1, <2>2, <2>3, <2>4
<1>3. ASSUME NEW s \in Sources, NEW tp \in Spots(Targets),
             /\ Pos(src, s)' = Pos(src, s)
             /\ Pos(src, s) # MISS =>
                  /\ RefNames'[Pos(src, s)] = RefNames[Pos(src, s)]
                  /\ MultiNames'[Pos(src, s)] = MultiNames[Pos(src, s)]
      PROVE  /\ <<s, tp>> \in ref' <=> <<s, tp>> \in ref
             /\ <<s, tp>> \in multi' <=> <<s, tp>> \in multi
  BY <1>2, <1>3, ReportedNames
<1>4. CASE \E s \in Sources : Kept(s)
  <2>1. PICK s \in Sources : Kept(s)
    BY <1>4
  <2>2. \A s2 \in Sources \ {s}, tp \in Spots(Targets) :
            /\ <<s2, tp>> \in ref' <=> <<s2, tp>> \in ref
            /\ <<s2, tp>> \in multi' <=> <<s2, tp>> \in multi
    BY <1>3, <2>1 DEF Kept
  <2> HIDE DEF ref, multi
  <2>3. Replaced(ref, ref', s) /\ Replaced(multi, multi', s)
    BY <1>1, <2>2, ReplacedAt
  <2> QED
    BY <2>3 DEF ref, multi
<1>5. CASE AllKept
  <2>1. \A s \in Sources, tp \in Spots(Targets) :
            /\ <<s, tp>> \in ref' <=> <<s, tp>> \in ref
            /\ <<s, tp>> \in multi' <=> <<s, tp>> \in multi
    BY <1>3, <1>5 DEF AllKept
  <2> HIDE DEF ref, multi
  <2>2. \A e \in P : (e \in ref' <=> e \in ref) /\ (e \in multi' <=> e \in multi)
    <3>1. ASSUME NEW e \in P PROVE \E s \in Sources, tp \in Spots(Targets) : e = <<s, tp>>
      OBVIOUS
    <3> QED
      BY <2>1, <3>1
  <2>3. ref' = ref /\ multi' = multi
    BY <1>1, <2>2
  <2> QED
    BY <2>3 DEF ref, multi
<1> QED
  BY <1>4, <1>5 DEF ItemsKept

(* Each inverse index, whose texts are printed and parsed line by line,    *)
(* implements a relation of which a call replaces the references of one    *)
(* item, for any items, targets and lines.                                 *)
THEOREM IndexesRefine == ASSUME Careful PROVE Spec => ImplementsReferences
<1>1. Init => RefIndex!Init /\ MultiIndex!Init
  <2> SUFFICES ASSUME Init PROVE Reported(invRef) = {} /\ Reported(invMulti) = {}
    BY DEF RefIndex!Init, MultiIndex!Init
  <2>1. ASSUME NEW s \in Sources PROVE Pos(src, s) = MISS
    <3>1. Live(src) = {}
      BY DEF Init, EmptyMap, IdmInit, Live
    <3> QED
      BY <3>1 DEF Pos
  <2> QED
    BY <2>1 DEF Reported
<1>2. RInv /\ [Next]_vars => RInv'
  BY NextRInv
<1>3. ASSUME RInv, [Next]_vars
      PROVE  /\ [RefIndex!Refer]_(Reported(invRef))
             /\ [MultiIndex!Refer]_(Reported(invMulti))
  <2>1. RInv' /\ ItemsKept
    BY <1>3, NextRInv
  <2>2. /\ \/ \E s \in Sources : Replaced(Reported(invRef), Reported(invRef)', s)
           \/ Reported(invRef)' = Reported(invRef)
        /\ \/ \E s \in Sources : Replaced(Reported(invMulti), Reported(invMulti)', s)
           \/ Reported(invMulti)' = Reported(invMulti)
    BY <1>3, <2>1, StepsReported
  <2>3. ASSUME NEW s \in Sources, Replaced(Reported(invRef), Reported(invRef)', s)
        PROVE  RefIndex!Refer
    <3> DEFINE ts == {tp \in Spots(Targets) : <<s, tp>> \in Reported(invRef)'}
    <3>1. Reported(invRef)' = {e \in Reported(invRef) : e[1] # s} \cup ({s} \X ts)
      BY <2>3, Zenon DEF Replaced
    <3>2. ts \in SUBSET Spots(Targets)
      OBVIOUS
    <3> HIDE DEF ts
    <3> QED
      BY <3>1, <3>2, Zenon DEF RefIndex!Refer
  <2>4. ASSUME NEW s \in Sources, Replaced(Reported(invMulti), Reported(invMulti)', s)
        PROVE  MultiIndex!Refer
    <3> DEFINE ts == {tp \in Spots(Targets) : <<s, tp>> \in Reported(invMulti)'}
    <3>1. Reported(invMulti)' = {e \in Reported(invMulti) : e[1] # s} \cup ({s} \X ts)
      BY <2>4, Zenon DEF Replaced
    <3>2. ts \in SUBSET Spots(Targets)
      OBVIOUS
    <3> HIDE DEF ts
    <3> QED
      BY <3>1, <3>2, Zenon DEF MultiIndex!Refer
  <2> QED
    BY <2>2, <2>3, <2>4, Zenon
<1>4. Spec => RefIndex!Spec /\ MultiIndex!Spec
  BY InitRInv, <1>1, <1>2, <1>3, PTL DEF Spec, RefIndex!Spec, MultiIndex!Spec
<1> QED
  BY <1>4 DEF ImplementsReferences
=============================================================================
