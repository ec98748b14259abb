---------------------------- MODULE StoreProofs -----------------------------
(***************************************************************************)
(* For every number of handles, maps, files, entries and record types:     *)
(* handles, links, private maps and the lists of the files agree, and maps *)
(* in files are durable.                                                   *)
(***************************************************************************)
EXTENDS Store, Idm, IdmLemmas, FiniteSetTheorems

-----------------------------------------------------------------------------
(* Lists of handles *)

(* The list has the members of S, each once. *)
Lists(list, S) ==
    /\ list \in Seq(S)
    /\ \A i, j \in 1 .. Len(list) : list[i] = list[j] => i = j
    /\ \A x \in S : \E i \in 1 .. Len(list) : list[i] = x

LEMMA ListFacts ==
    ASSUME NEW list, NEW S, Lists(list, S)
    PROVE  /\ Range(list) = S /\ IsInjective(list)
           /\ {list[i] : i \in 1 .. Len(list)} = S
           /\ Len(list) \in Nat
           /\ list = <<>> <=> S = {}
           /\ \A x : Contains(list, x) <=> x \in S
<1>1. /\ list \in Seq(S) /\ Len(list) \in Nat /\ DOMAIN list = 1 .. Len(list)
      /\ \A i \in 1 .. Len(list) : list[i] \in S
  BY ElementOfSeq DEF Lists
<1>2. Range(list) = S
  BY <1>1 DEF Lists, Range
<1>3. IsInjective(list)
  BY <1>1 DEF Lists, IsInjective
<1>4. {list[i] : i \in 1 .. Len(list)} = S
  BY <1>1 DEF Lists
<1>5. list = <<>> <=> S = {}
  <2>1. ASSUME S = {} PROVE list = <<>>
    <3>1. ~ (1 \in 1 .. Len(list))
      BY <1>1, <2>1
    <3>2. Len(list) = 0
      BY <1>1, <3>1
    <3> QED
      BY <1>1, <3>2, EmptySeq
  <2>2. ASSUME list = <<>> PROVE S = {}
    <3>1. Len(list) = 0
      BY <2>2
    <3>2. 1 .. Len(list) = {}
      BY <3>1
    <3> QED
      BY <1>4, <3>2
  <2> QED
    BY <2>1, <2>2
<1>6. \A x : Contains(list, x) <=> x \in S
  BY <1>1 DEF Lists, Contains
<1> QED
  BY <1>1, <1>2, <1>3, <1>4, <1>5, <1>6

LEMMA ListWithin ==
    ASSUME NEW list, NEW S, Lists(list, S), NEW W, S \subseteq W
    PROVE  list \in Seq(W)
<1>1. list \in Seq(S) /\ \A i \in 1 .. Len(list) : list[i] \in W
  BY ElementOfSeq DEF Lists
<1> QED
  BY <1>1

LEMMA NoneListed == Lists(<<>>, {})
<1>1. <<>> \in Seq({}) /\ Len(<<>>) = 0
  BY EmptySeq
<1> QED
  BY <1>1 DEF Lists

LEMMA OneListed ==
    ASSUME NEW x
    PROVE  Lists(<<x>>, {x})
BY DEF Lists

LEMMA ListsJoin ==
    ASSUME NEW a, NEW S, NEW b, NEW T, Lists(a, S), Lists(b, T), S \cap T = {}
    PROVE  Lists(a \o b, S \cup T)
<1> DEFINE c == a \o b
<1>1. /\ a \in Seq(S \cup T) /\ b \in Seq(S \cup T)
      /\ Len(a) \in Nat /\ Len(b) \in Nat
      /\ \A i \in 1 .. Len(a) : a[i] \in S
      /\ \A i \in 1 .. Len(b) : b[i] \in T
  BY ElementOfSeq DEF Lists
<1>2. /\ c \in Seq(S \cup T) /\ Len(c) = Len(a) + Len(b)
      /\ \A i \in 1 .. Len(c) : c[i] = IF i <= Len(a) THEN a[i] ELSE b[i - Len(a)]
  BY <1>1, ConcatProperties
<1> HIDE DEF c
<1>3. \A i \in 1 .. Len(c) : \/ i \in 1 .. Len(a) /\ c[i] = a[i] /\ c[i] \in S
                             \/ /\ i - Len(a) \in 1 .. Len(b) /\ c[i] = b[i - Len(a)]
                                /\ c[i] \in T
  BY <1>1, <1>2
<1>4. ASSUME NEW i \in 1 .. Len(c), NEW j \in 1 .. Len(c), c[i] = c[j] PROVE i = j
  <2>1. CASE i \in 1 .. Len(a) /\ c[i] = a[i] /\ c[i] \in S
    <3>1. c[j] \notin T
      BY <1>4, <2>1
    <3>2. j \in 1 .. Len(a) /\ c[j] = a[j]
      BY <1>3, <3>1
    <3> QED
      BY <1>4, <2>1, <3>2 DEF Lists
  <2>2. CASE i - Len(a) \in 1 .. Len(b) /\ c[i] = b[i - Len(a)] /\ c[i] \in T
    <3>1. c[j] \notin S
      BY <1>4, <2>2
    <3>2. j - Len(a) \in 1 .. Len(b) /\ c[j] = b[j - Len(a)]
      BY <1>3, <3>1
    <3>3. i - Len(a) = j - Len(a)
      BY <1>4, <2>2, <3>2 DEF Lists
    <3> QED
      BY <1>1, <1>2, <3>3
  <2> QED
    BY <1>3, <2>1, <2>2
<1>5. ASSUME NEW x \in S PROVE \E i \in 1 .. Len(c) : c[i] = x
  <2>1. PICK i \in 1 .. Len(a) : a[i] = x
    BY DEF Lists
  <2>2. i \in 1 .. Len(c) /\ c[i] = x
    BY <1>1, <1>2, <2>1
  <2> QED
    BY <2>2
<1>6. ASSUME NEW x \in T PROVE \E i \in 1 .. Len(c) : c[i] = x
  <2>1. PICK i \in 1 .. Len(b) : b[i] = x
    BY DEF Lists
  <2>2. i + Len(a) \in 1 .. Len(c) /\ c[i + Len(a)] = x
    BY <1>1, <1>2, <2>1
  <2> QED
    BY <2>2
<1> QED
  BY <1>2, <1>4, <1>5, <1>6 DEF Lists, c

(* one more member is looked at *)
KeepNext(list, K, n, kept) ==
    IF list[n] \in K THEN Append(kept, list[n]) ELSE kept

(* the members among the first n *)
FirstOf(list, n) == {list[i] : i \in 1 .. n}

LEMMA FirstMore ==
    ASSUME NEW list, NEW S, Lists(list, S), NEW n \in 1 .. Len(list)
    PROVE  /\ FirstOf(list, n) = FirstOf(list, n - 1) \cup {list[n]}
           /\ list[n] \notin FirstOf(list, n - 1)
           /\ list[n] \in S /\ FirstOf(list, n - 1) \subseteq S
<1>1. Len(list) \in Nat /\ n \in Nat /\ n >= 1 /\ n <= Len(list)
  BY DEF Lists
<1>2. \A i \in 1 .. n : i \in 1 .. n - 1 \/ i = n
  BY <1>1
<1>3. n \in 1 .. n /\ \A i \in 1 .. n - 1 : i \in 1 .. n /\ i \in 1 .. Len(list) /\ i # n
  BY <1>1
<1>4. FirstOf(list, n) = FirstOf(list, n - 1) \cup {list[n]}
  <2>1. FirstOf(list, n) \subseteq FirstOf(list, n - 1) \cup {list[n]}
    BY <1>2 DEF FirstOf
  <2>2. FirstOf(list, n - 1) \cup {list[n]} \subseteq FirstOf(list, n)
    BY <1>3 DEF FirstOf
  <2> QED
    BY <2>1, <2>2
<1>5. list[n] \notin FirstOf(list, n - 1)
  BY <1>3 DEF FirstOf, Lists
<1>6. list[n] \in S /\ FirstOf(list, n - 1) \subseteq S
  BY <1>3, ElementOfSeq DEF FirstOf, Lists
<1> QED
  BY <1>4, <1>5, <1>6

LEMMA AppendListed ==
    ASSUME NEW list, NEW S, Lists(list, S), NEW x, x \notin S
    PROVE  Lists(Append(list, x), S \cup {x})
<1>1. Lists(list \o <<x>>, S \cup {x})
  BY OneListed, ListsJoin
<1>2. list \in Seq(S \cup {x}) /\ x \in S \cup {x}
  BY DEF Lists
<1>3. Append(list, x) = list \o <<x>>
  BY <1>2, AppendIsConcat
<1> QED
  BY <1>1, <1>3

(* Those lists the members that are in K. *)
LEMMA ThoseListed ==
    ASSUME NEW list, NEW S, Lists(list, S), NEW K
    PROVE  Lists(Those(list, K), S \cap K)
<1> DEFINE N == Len(list)
           A == Seq(S)
           none == <<>>
           step == [n \in 1 .. N |-> [kept \in A |-> KeepNext(list, K, n, kept)]]
           Rule(f) == [n \in 0 .. N |-> IF n = 0 THEN none ELSE KeepNext(list, K, n, f[n - 1])]
           after == CHOOSE f : f = Rule(f)
<1>1. Those(list, K) = after[N]
  BY DEF Those, KeepNext
<1>2. N \in Nat /\ none \in A
  BY EmptySeq DEF Lists
<1>3. step \in Steps(N, A)
  <2>1. \A n \in 1 .. N : list[n] \in S
    BY FirstMore
  <2>2. ASSUME NEW n \in 1 .. N, NEW kept \in A
        PROVE  KeepNext(list, K, n, kept) \in A
    BY <2>1, AppendProperties DEF KeepNext
  <2> HIDE DEF A
  <2> QED
    BY <2>2 DEF Steps
<1> HIDE DEF N, none
<1>4. PICK g \in [0 .. N -> A] :
          g[0] = none /\ \A n \in 1 .. N : g[n] = step[n][g[n - 1]]
  <2> HIDE DEF step, Rule, after, A
  <2>1. Iterations(N, A, none, step) # {}
    BY <1>2, <1>3, Recursion, Zenon
  <2> QED
    BY <2>1, Zenon DEF Iterations
<1> HIDE DEF A
<1>5. \A n \in 1 .. N : g[n] = KeepNext(list, K, n, g[n - 1])
  <2>1. \A n \in 1 .. N : n - 1 \in 0 .. N
    BY <1>2
  <2>2. \A n \in 1 .. N : g[n - 1] \in A
    BY <2>1
  <2>3. ASSUME NEW n \in 1 .. N PROVE g[n] = KeepNext(list, K, n, g[n - 1])
    BY <1>4, <2>2, Zenon
  <2> QED
    BY <2>3
<1> HIDE DEF step
<1> DEFINE T == {n \in 0 .. N : Lists(g[n], FirstOf(list, n) \cap K)}
<1>6. \A n \in 0 .. N : n \in T
  <2>1. 0 \in T
    <3>1. FirstOf(list, 0) \cap K = {}
      BY DEF FirstOf
    <3>2. Lists(g[0], FirstOf(list, 0) \cap K)
      BY <1>4, <3>1, NoneListed, Zenon DEF none
    <3> QED
      BY <1>2, <3>2
  <2>2. ASSUME NEW n \in 1 .. N, n - 1 \in T PROVE n \in T
    <3>1. Lists(g[n - 1], FirstOf(list, n - 1) \cap K)
      BY <2>2
    <3>2. /\ FirstOf(list, n) = FirstOf(list, n - 1) \cup {list[n]}
          /\ list[n] \notin FirstOf(list, n - 1)
      BY FirstMore DEF N
    <3>3. CASE list[n] \in K
      <4>1. FirstOf(list, n) \cap K = (FirstOf(list, n - 1) \cap K) \cup {list[n]}
        BY <3>2, <3>3
      <4>2. list[n] \notin FirstOf(list, n - 1) \cap K
        BY <3>2
      <4>3. Lists(Append(g[n - 1], list[n]), FirstOf(list, n) \cap K)
        BY <3>1, <4>1, <4>2, AppendListed
      <4> QED
        BY <1>2, <1>5, <3>3, <4>3 DEF KeepNext
    <3>4. CASE list[n] \notin K
      <4>1. FirstOf(list, n) \cap K = FirstOf(list, n - 1) \cap K
        BY <3>2, <3>4
      <4>2. g[n] = g[n - 1]
        BY <1>5, <3>4 DEF KeepNext
      <4>3. Lists(g[n], FirstOf(list, n) \cap K)
        BY <3>1, <4>1, <4>2, Zenon
      <4> QED
        BY <1>2, <4>3
    <3> QED
      BY <3>3, <3>4
  <2> HIDE DEF T
  <2> QED
    BY <1>2, <2>1, <2>2, Induction
<1>7. g = Rule(g)
  <2> DEFINE h == Rule(g)
  <2>1. \A n \in 0 .. N : g[n] = h[n]
    BY <1>2, <1>4, <1>5
  <2>2. g = h
    BY <1>4, <2>1
  <2> QED
    BY <2>2
<1>8. after = Rule(after)
  BY <1>7
<1> HIDE DEF after
<1> DEFINE U == {n \in 0 .. N : after[n] = g[n]}
<1>9. \A n \in 0 .. N : n \in U
  <2>1. \A n \in 0 .. N : after[n] = IF n = 0 THEN none ELSE KeepNext(list, K, n, after[n - 1])
    BY <1>8
  <2>2. 0 \in U
    BY <1>2, <1>4, <2>1
  <2>3. ASSUME NEW n \in 1 .. N, n - 1 \in U PROVE n \in U
    BY <1>5, <2>1, <2>3
  <2> HIDE DEF U, Rule
  <2> QED
    BY <1>2, <2>2, <2>3, Induction
<1>10. N \in T /\ N \in U
  BY <1>2, <1>6, <1>9
<1>11. FirstOf(list, N) = S
  BY ListFacts DEF FirstOf, N
<1> QED
  BY <1>1, <1>10, <1>11

LEMMA RemoveFirstListed ==
    ASSUME NEW list, NEW S, S \subseteq Nat, Lists(list, S), NEW x \in Nat
    PROVE  Lists(RemoveFirst(list, x), S \ {x})
<1> DEFINE r == RemoveFirst(list, x)
<1>1. list \in Seq(Nat) /\ {list[i] : i \in 1 .. Len(list)} = S
  BY ListFacts, ListWithin
<1>2. /\ r \in Seq(Nat)
      /\ \A i, j \in 1 .. Len(r) : r[i] = r[j] => i = j
      /\ {r[i] : i \in 1 .. Len(r)} = S \ {x}
  <2>1. \A i, j \in 1 .. Len(list) : list[i] = list[j] => i = j
    BY DEF Lists
  <2> QED
    BY <1>1, <2>1, RemoveListed, Zenon
<1> HIDE DEF r
<1>3. /\ \A i \in 1 .. Len(r) : r[i] \in S \ {x}
      /\ \A y \in S \ {x} : \E i \in 1 .. Len(r) : r[i] = y
  BY <1>2
<1>4. r \in Seq(S \ {x})
  BY <1>2, <1>3
<1> QED
  BY <1>2, <1>3, <1>4 DEF Lists, r

(* one more handle is closed *)
DropNext(list, f, x) == IF InFile(x, f) THEN RemoveFirst(list, x) ELSE list

(* The list of a file loses the maps that are closed. *)
LEMMA UnlistedListed ==
    ASSUME NEW f, NEW S, S \subseteq Nat, Lists(ids[f], S),
           NEW closed, NEW C, C \subseteq Nat, Lists(closed, C)
    PROVE  Lists(Unlisted(f, closed), S \ {x \in C : InFile(x, f)})
<1> DEFINE N == Len(closed)
           A == Seq(Nat)
           first == ids[f]
           step == [n \in 1 .. N |-> [left \in A |->
                        IF DropNext(left, f, closed[n]) \in A
                          THEN DropNext(left, f, closed[n]) ELSE left]]
           Rule(g) == [n \in 0 .. N |-> IF n = 0 THEN first ELSE DropNext(g[n - 1], f, closed[n])]
           after == CHOOSE g : g = Rule(g)
           Gone(n) == {x \in FirstOf(closed, n) : InFile(x, f)}
<1>1. Unlisted(f, closed) = after[N]
  BY DEF Unlisted, DropNext
<1>2. N \in Nat /\ first \in A
  BY ListFacts, ListWithin
<1>3. step \in Steps(N, A)
  <2> HIDE DEF A
  <2> QED
    BY DEF Steps
<1> HIDE DEF N
<1>4. PICK g \in [0 .. N -> A] :
          g[0] = first /\ \A n \in 1 .. N : g[n] = step[n][g[n - 1]]
  <2> HIDE DEF step, Rule, after, A, first
  <2>1. Iterations(N, A, first, step) # {}
    BY <1>2, <1>3, Recursion, Zenon
  <2> QED
    BY <2>1, Zenon DEF Iterations
<1> DEFINE T == {n \in 0 .. N : Lists(g[n], S \ Gone(n))}
<1>5. ASSUME NEW n \in 1 .. N, n - 1 \in T
      PROVE  /\ g[n] = DropNext(g[n - 1], f, closed[n])
             /\ n \in T
  <2> DEFINE x == closed[n]
             left == g[n - 1]
  <2>1. Lists(left, S \ Gone(n - 1)) /\ S \ Gone(n - 1) \subseteq Nat
    BY <1>5
  <2>2. /\ FirstOf(closed, n) = FirstOf(closed, n - 1) \cup {x}
        /\ x \in C /\ x \in Nat
    BY FirstMore DEF N
  <2>3. left \in A
    BY <1>2, <1>4
  <2> HIDE DEF x, left
  <2>4. Lists(DropNext(left, f, x), S \ Gone(n))
    <3>1. CASE InFile(x, f)
      <4>1. (S \ Gone(n - 1)) \ {x} = S \ Gone(n)
        BY <2>2, <3>1
      <4>2. Lists(RemoveFirst(left, x), (S \ Gone(n - 1)) \ {x})
        <5> HIDE DEF Gone
        <5> QED
          BY <2>1, <2>2, RemoveFirstListed
      <4>3. Lists(RemoveFirst(left, x), S \ Gone(n))
        <5> HIDE DEF Gone
        <5> QED
          BY <4>1, <4>2, Zenon
      <4> QED
        BY <3>1, <4>3, Zenon DEF DropNext
    <3>2. CASE ~InFile(x, f)
      <4>1. S \ Gone(n - 1) = S \ Gone(n)
        BY <2>2, <3>2
      <4>2. DropNext(left, f, x) = left
        BY <3>2 DEF DropNext
      <4> HIDE DEF Gone
      <4> QED
        BY <2>1, <4>1, <4>2, Zenon
    <3> QED
      BY <3>1, <3>2
  <2>5. DropNext(left, f, x) \in A
    <3>1. DropNext(left, f, x) \in Seq(S \ Gone(n)) /\ S \ Gone(n) \subseteq Nat
      BY <2>4 DEF Lists
    <3> HIDE DEF Gone
    <3> QED
      BY <3>1
  <2>6. g[n] = DropNext(left, f, x)
    <3> HIDE DEF A
    <3>1. g[n] = step[n][left]
      BY <1>4 DEF left
    <3> QED
      BY <2>3, <2>5, <3>1 DEF x
  <2>7. Lists(g[n], S \ Gone(n))
    <3> HIDE DEF Gone
    <3> QED
      BY <2>4, <2>6, Zenon
  <2> QED
    BY <1>2, <2>6, <2>7 DEF left, x
<1> HIDE DEF step
<1>6. \A n \in 0 .. N : n \in T
  <2>1. 0 \in T
    <3>1. S \ Gone(0) = S
      BY DEF FirstOf
    <3>2. Lists(g[0], S \ Gone(0))
      <4> HIDE DEF Gone
      <4> QED
        BY <1>4, <3>1, Zenon
    <3> QED
      BY <1>2, <3>2
  <2>2. \A n \in 1 .. N : n - 1 \in T => n \in T
    BY <1>5
  <2> HIDE DEF T
  <2> QED
    BY <1>2, <2>1, <2>2, Induction
<1>7. \A n \in 1 .. N : g[n] = DropNext(g[n - 1], f, closed[n])
  <2>1. \A n \in 1 .. N : n - 1 \in 0 .. N
    BY <1>2
  <2> HIDE DEF T
  <2> QED
    BY <1>5, <1>6, <2>1
<1> HIDE DEF T
<1>8. g = Rule(g)
  <2> DEFINE h == Rule(g)
  <2>1. \A n \in 0 .. N : g[n] = h[n]
    <3>1. g[0] = h[0]
      BY <1>2, <1>4
    <3>2. \A n \in 1 .. N : h[n] = DropNext(g[n - 1], f, closed[n])
      BY <1>2
    <3>3. \A n \in 0 .. N : n = 0 \/ n \in 1 .. N
      BY <1>2
    <3> HIDE DEF h
    <3> QED
      BY <1>7, <3>1, <3>2, <3>3, Zenon
  <2>2. g = h
    BY <1>4, <2>1
  <2> QED
    BY <2>2
<1>9. after = Rule(after)
  BY <1>8
<1> HIDE DEF after
<1> DEFINE U == {n \in 0 .. N : after[n] = g[n]}
<1>10. \A n \in 0 .. N : n \in U
  <2>1. \A n \in 0 .. N : after[n] = IF n = 0 THEN first ELSE DropNext(after[n - 1], f, closed[n])
    BY <1>9
  <2>2. 0 \in U
    BY <1>2, <1>4, <2>1
  <2>3. ASSUME NEW n \in 1 .. N, n - 1 \in U PROVE n \in U
    BY <1>7, <2>1, <2>3
  <2> HIDE DEF U, Rule
  <2> QED
    BY <1>2, <2>2, <2>3, Induction
<1>11. N \in U /\ Lists(g[N], S \ Gone(N))
  BY <1>2, <1>6, <1>10 DEF T
<1>12. FirstOf(closed, N) = C
  BY ListFacts DEF FirstOf, N
<1>13. after[N] = g[N]
  BY <1>11
<1> QED
  BY <1>1, <1>11, <1>12, <1>13, Zenon

-----------------------------------------------------------------------------
(* Heads and blocks *)

Contents == [Keys -> Vals \cup {NULL}]

HeadRec == [open : BOOLEAN, map : Maps \cup {NONE}, record : Nat,
         phd : Handles \cup {0}, linked : Seq(Handles),
         private : [inv : Handles \cup {0}, vstr : Handles \cup {0}],
         vals : Contents]

Block == [db : {DbOf[m] : m \in Maps}, vals : Contents]

(* what a load is at: the heads, and a place in the file *)
Reading == [hs : [Handles -> HeadRec], at : Int]

Start(hs) == [hs |-> hs, at |-> 1]

(* the entries of the map at h are replaced *)
Holding(hs, h, vals) == [hs EXCEPT ![h].vals = vals]

LEMMA EmptyContents == Empty \in Contents
BY DEF Empty, Contents

LEMMA MergedContents ==
    ASSUME NEW vals \in Contents, NEW block \in Block
    PROVE  Merged(vals, block) \in Contents
BY DEF Merged, Contents, Block

(* Reading a block changes the entries of one map at most. *)
LEMMA ReadBlockTyped ==
    ASSUME NEW st \in Reading, NEW h \in Handles, NEW blocks \in Seq(Block), NEW db
    PROVE  LET next == ReadBlock(st, h, blocks, db)
           IN  /\ next \in Reading
               /\ \E vals \in Contents : next.hs = Holding(st.hs, h, vals)
<1> DEFINE next == ReadBlock(st, h, blocks, db)
           vals == Merged(st.hs[h].vals, blocks[st.at])
<1>1. /\ st.hs \in [Handles -> HeadRec] /\ st.at \in Int /\ st.hs[h] \in HeadRec
      /\ st.hs[h].vals \in Contents
  BY DEF Reading, HeadRec
<1>2. st.hs = Holding(st.hs, h, st.hs[h].vals)
  BY <1>1 DEF HeadRec, Holding
<1>3. CASE st.at \in DOMAIN blocks /\ (db = NODB \/ blocks[st.at].db = db)
  <2>1. next = [hs |-> [st.hs EXCEPT ![h].vals = vals], at |-> st.at + 1]
    BY <1>3 DEF ReadBlock
  <2>2. vals \in Contents
    <3>1. blocks[st.at] \in Block
      BY <1>3
    <3> QED
      BY <1>1, <3>1, MergedContents
  <2> HIDE DEF vals, next
  <2>3. [st.hs EXCEPT ![h].vals = vals] \in [Handles -> HeadRec]
    BY <1>1, <2>2 DEF HeadRec
  <2>4. next.hs = Holding(st.hs, h, vals) /\ next \in Reading
    BY <1>1, <2>1, <2>3 DEF Reading, Holding
  <2> QED
    BY <2>2, <2>4 DEF next
<1>4. CASE ~(st.at \in DOMAIN blocks /\ (db = NODB \/ blocks[st.at].db = db))
  <2>1. next \in {st, [st EXCEPT !.at = @ + 2], [st EXCEPT !.at = ASTRAY]}
    BY <1>4 DEF ReadBlock
  <2>2. next \in Reading /\ next.hs = st.hs
    BY <2>1 DEF Reading, ASTRAY
  <2> HIDE DEF next
  <2>3. next.hs = Holding(st.hs, h, st.hs[h].vals)
    BY <1>2, <2>2
  <2> QED
    BY <1>1, <2>2, <2>3 DEF next
<1> QED
  BY <1>3, <1>4

(* A load reads one block after the other; g is what it is at. *)
Reads(g, hs, listed, blocks, db) ==
    /\ g \in [0 .. Len(listed) -> Reading]
    /\ g[0] = Start(hs)
    /\ \A n \in 1 .. Len(listed) :
          g[n] = ReadBlock(g[n - 1], listed[n], blocks, db)
    /\ Loaded(hs, listed, blocks, db) = g[Len(listed)].hs

LEMMA LoadedBy ==
    ASSUME NEW hs \in [Handles -> HeadRec], NEW listed \in Seq(Handles),
           NEW blocks \in Seq(Block), NEW db
    PROVE  \E g : Reads(g, hs, listed, blocks, db)
<1> DEFINE N == Len(listed)
           first == Start(hs)
           Round(st, n) == ReadBlock(st, listed[n], blocks, db)
           step == [n \in 1 .. N |-> [st \in Reading |-> Round(st, n)]]
           Rule(g) == [n \in 0 .. N |-> IF n = 0 THEN first ELSE Round(g[n - 1], n)]
           read == CHOOSE g : g = Rule(g)
<1>1. Loaded(hs, listed, blocks, db) = read[N].hs
  BY DEF Loaded, Start
<1>2. N \in Nat /\ first \in Reading
  BY DEF Reading, Start
<1>3. \A n \in 1 .. N : listed[n] \in Handles
  BY ElementOfSeq
<1>4. step \in Steps(N, Reading)
  <2>1. \A n \in 1 .. N : \A st \in Reading : Round(st, n) \in Reading
    BY <1>3, ReadBlockTyped
  <2> HIDE DEF Round
  <2> QED
    BY <2>1 DEF Steps
<1> HIDE DEF N, first, Round
<1>5. PICK g \in [0 .. N -> Reading] :
          g[0] = first /\ \A n \in 1 .. N : g[n] = step[n][g[n - 1]]
  <2> HIDE DEF step, Rule, read
  <2>1. Iterations(N, Reading, first, step) # {}
    BY <1>2, <1>4, Recursion, Zenon
  <2> QED
    BY <2>1, Zenon DEF Iterations
<1>6. \A n \in 1 .. N : g[n] = Round(g[n - 1], n)
  <2>1. \A n \in 1 .. N : n - 1 \in 0 .. N
    BY <1>2
  <2>2. \A n \in 1 .. N : g[n - 1] \in Reading
    BY <2>1
  <2>3. ASSUME NEW n \in 1 .. N PROVE g[n] = Round(g[n - 1], n)
    BY <1>5, <2>2, Zenon
  <2> QED
    BY <2>3
<1> HIDE DEF step
<1>7. g = Rule(g)
  <2> DEFINE h == Rule(g)
  <2>1. \A n \in 0 .. N : g[n] = h[n]
    BY <1>2, <1>5, <1>6
  <2>2. g = h
    BY <1>5, <2>1
  <2> QED
    BY <2>2
<1>8. read = Rule(read)
  BY <1>7
<1> HIDE DEF read
<1> DEFINE U == {n \in 0 .. N : read[n] = g[n]}
<1>9. \A n \in 0 .. N : n \in U
  <2>1. \A n \in 0 .. N : read[n] = IF n = 0 THEN first ELSE Round(read[n - 1], n)
    BY <1>8
  <2>2. 0 \in U
    BY <1>2, <1>5, <2>1
  <2>3. ASSUME NEW n \in 1 .. N, n - 1 \in U PROVE n \in U
    BY <1>6, <2>1, <2>3
  <2> HIDE DEF U, Rule
  <2> QED
    BY <1>2, <2>2, <2>3, Induction
<1>10. read[N] = g[N]
  BY <1>2, <1>9
<1> QED
  BY <1>1, <1>5, <1>6, <1>10 DEF N, first, Round, Reads

(* The heads are the same but for the entries of the maps in S. *)
Filled(hs, new, S) ==
    /\ new \in [Handles -> HeadRec]
    /\ \A x \in Handles :
        /\ new[x].open = hs[x].open /\ new[x].map = hs[x].map
        /\ new[x].record = hs[x].record /\ new[x].phd = hs[x].phd
        /\ new[x].linked = hs[x].linked /\ new[x].private = hs[x].private
    /\ \A x \in Handles \ S : new[x] = hs[x]

LEMMA FillOne ==
    ASSUME NEW hs, NEW old, NEW S, Filled(hs, old, S),
           NEW h \in Handles, h \in S, NEW vals \in Contents
    PROVE  Filled(hs, Holding(old, h, vals), S)
<1> DEFINE one == [old[h] EXCEPT !.vals = vals]
           new == [old EXCEPT ![h] = one]
<1>1. old \in [Handles -> HeadRec] /\ old[h] \in HeadRec
  BY DEF Filled
<1>2. /\ one \in HeadRec
      /\ one.open = old[h].open /\ one.map = old[h].map
      /\ one.record = old[h].record /\ one.phd = old[h].phd
      /\ one.linked = old[h].linked /\ one.private = old[h].private
  BY <1>1 DEF HeadRec
<1> HIDE DEF one
<1>3. /\ new \in [Handles -> HeadRec] /\ new[h] = one
      /\ \A x \in Handles : x # h => new[x] = old[x]
  BY <1>1, <1>2
<1> HIDE DEF new
<1>4. Filled(hs, new, S)
  <2>1. ASSUME NEW x \in Handles
        PROVE  /\ new[x].open = hs[x].open /\ new[x].map = hs[x].map
               /\ new[x].record = hs[x].record /\ new[x].phd = hs[x].phd
               /\ new[x].linked = hs[x].linked /\ new[x].private = hs[x].private
    <3>1. CASE x = h
      BY <1>2, <1>3, <3>1 DEF Filled
    <3>2. CASE x # h
      BY <1>3, <3>2 DEF Filled
    <3> QED
      BY <3>1, <3>2
  <2>2. ASSUME NEW x \in Handles \ S PROVE new[x] = hs[x]
    BY <1>3 DEF Filled
  <2> QED
    BY <1>3, <2>1, <2>2 DEF Filled
<1> QED
  BY <1>4 DEF new, one, Holding

LEMMA LoadedFills ==
    ASSUME NEW hs \in [Handles -> HeadRec], NEW listed \in Seq(Handles),
           NEW blocks \in Seq(Block), NEW db
    PROVE  Filled(hs, Loaded(hs, listed, blocks, db), {listed[i] : i \in 1 .. Len(listed)})
<1>0. PICK g : Reads(g, hs, listed, blocks, db)
  BY LoadedBy
<1>1. /\ g \in [0 .. Len(listed) -> Reading]
      /\ g[0] = Start(hs)
      /\ \A n \in 1 .. Len(listed) :
            g[n] = ReadBlock(g[n - 1], listed[n], blocks, db)
      /\ Loaded(hs, listed, blocks, db) = g[Len(listed)].hs
  BY <1>0 DEF Reads
<1> DEFINE N == Len(listed)
           S == {listed[i] : i \in 1 .. N}
<1>2. N \in Nat /\ \A n \in 1 .. N : listed[n] \in Handles /\ listed[n] \in S
  BY ElementOfSeq
<1> DEFINE T == {n \in 0 .. N : Filled(hs, g[n].hs, S)}
<1> HIDE DEF N, S
<1>3. 0 \in T
  <2>1. g[0].hs = hs
    BY <1>1 DEF Start
  <2> QED
    BY <1>2, <2>1 DEF Filled
<1>4. ASSUME NEW n \in 1 .. N, n - 1 \in T PROVE n \in T
  <2> DEFINE st == g[n - 1]
             h == listed[n]
  <2>1. n - 1 \in 0 .. N /\ n \in 0 .. N
    BY <1>2
  <2>2. st \in Reading /\ Filled(hs, st.hs, S)
    BY <1>1, <1>4, <2>1 DEF N
  <2>3. h \in Handles /\ h \in S
    BY <1>2
  <2>4. g[n] = ReadBlock(st, h, blocks, db)
    BY <1>1 DEF N
  <2> HIDE DEF st, h
  <2>5. PICK vals \in Contents : g[n].hs = Holding(st.hs, h, vals)
    <3>1. \E vals \in Contents :
              ReadBlock(st, h, blocks, db).hs = Holding(st.hs, h, vals)
      BY <2>2, <2>3, ReadBlockTyped
    <3> QED
      BY <2>4, <3>1
  <2>6. Filled(hs, Holding(st.hs, h, vals), S)
    BY <2>2, <2>3, FillOne
  <2> QED
    BY <2>1, <2>5, <2>6
<1>5. \A n \in 0 .. N : n \in T
  <2> HIDE DEF T
  <2> QED
    BY <1>2, <1>3, <1>4, Induction
<1>6. N \in T
  BY <1>2, <1>5
<1> QED
  BY <1>1, <1>6 DEF S, N

-----------------------------------------------------------------------------
(* Who belongs to whom *)

(* The inverse indexes of the record type registered last are not closed   *)
(* with their map: the client uses the others.                             *)
LastSpared == \A u \in Uses : u.records \subseteq 1 .. Records - 1

Opens(hs) == {h \in Handles : hs[h].open}

(* the maps linked to h, and the maps opened for it *)
LinkedTo(hs, h) == {l \in Opens(hs) : hs[l].phd = h /\ l # h}

PrivateTo(hs, h) == {hs[h].private.inv, hs[h].private.vstr} \ {0}

(* M are the client's handles, R the record types it uses: every other map *)
(* that is open belongs to exactly one of its maps, which nothing else     *)
(* does.                                                                   *)
Owned(hs, M, R) ==
    /\ hs \in [Handles -> HeadRec]
    /\ M \subseteq Opens(hs)
    /\ \A h \in Handles : hs[h].record \in R \cup {0}
    /\ \A h \in Handles \ M : hs[h].linked = <<>> /\ hs[h].private = NoPrivate
    /\ \A h \in Opens(hs) : hs[h].phd = h \/ hs[h].phd \in M
    /\ \A h \in M :
        /\ hs[h].phd = h
        /\ Lists(hs[h].linked, LinkedTo(hs, h))
        /\ hs[h].record = 0 => hs[h].private = NoPrivate
        /\ hs[h].private.inv = hs[h].private.vstr => hs[h].private.inv = 0
    /\ \A h \in M : \A p \in PrivateTo(hs, h) :
        /\ p \in Opens(hs) \ M /\ hs[p].phd = p
        /\ \A g \in M : p \in PrivateTo(hs, g) => g = h
    /\ \A p \in Opens(hs) \ M : hs[p].phd = p => \E h \in M : p \in PrivateTo(hs, h)

LEMMA OwnedFilled ==
    ASSUME NEW hs, NEW M, NEW R, Owned(hs, M, R), NEW new, NEW S, Filled(hs, new, S)
    PROVE  Owned(new, M, R) /\ Opens(new) = Opens(hs)
<1>1. Opens(new) = Opens(hs)
  BY DEF Filled, Opens
<1>2. M \subseteq Handles
  BY DEF Owned, Opens
<1>3. \A h \in Handles : /\ LinkedTo(new, h) = LinkedTo(hs, h)
                         /\ PrivateTo(new, h) = PrivateTo(hs, h)
  BY <1>1 DEF Filled, LinkedTo, PrivateTo, Opens
<1>4. \A h \in Handles :
        /\ new[h].open = hs[h].open /\ new[h].record = hs[h].record
        /\ new[h].phd = hs[h].phd
        /\ new[h].linked = hs[h].linked /\ new[h].private = hs[h].private
  BY DEF Filled
<1>5. Opens(hs) \subseteq Handles /\ new \in [Handles -> HeadRec]
  BY DEF Opens, Filled
<1> QED
  BY <1>1, <1>2, <1>3, <1>4, <1>5 DEF Owned

(* A map is opened for the client. *)
Placed(hs, h, head) == [hs EXCEPT ![h] = head]

LEMMA OwnedOpened ==
    ASSUME NEW hs, NEW M, NEW R, Owned(hs, M, R),
           NEW h \in Handles, h \notin Opens(hs), NEW head \in HeadRec,
           head.open, head.phd = h, head.linked = <<>>, head.private = NoPrivate,
           head.record \in R \cup {0}
    PROVE  /\ Owned(Placed(hs, h, head), M \cup {h}, R)
           /\ Opens(Placed(hs, h, head)) = Opens(hs) \cup {h}
<1> DEFINE new == [hs EXCEPT ![h] = head]
           N == M \cup {h}
<1>1. /\ hs \in [Handles -> HeadRec] /\ M \subseteq Opens(hs) /\ Opens(hs) \subseteq Handles
      /\ new \in [Handles -> HeadRec] /\ new[h] = head
      /\ \A x \in Handles : x # h => new[x] = hs[x]
  BY DEF Owned, Opens
<1> HIDE DEF new
<1>2. Opens(new) = Opens(hs) \cup {h}
  BY <1>1 DEF Opens
<1>3. h \notin M /\ \A x \in M : x \in Handles /\ x # h /\ new[x] = hs[x]
  BY <1>1
<1>4. LinkedTo(new, h) = {}
  BY <1>1, <1>2, <1>3 DEF LinkedTo, Owned
<1>5. \A x \in M : LinkedTo(new, x) = LinkedTo(hs, x) /\ PrivateTo(new, x) = PrivateTo(hs, x)
  BY <1>1, <1>2, <1>3 DEF LinkedTo, PrivateTo
<1>6. PrivateTo(new, h) = {}
  BY <1>1 DEF PrivateTo, NoPrivate
<1>7. \A x \in Handles : new[x].record \in R \cup {0}
  BY <1>1 DEF Owned
<1>8. \A x \in Handles \ N : new[x].linked = <<>> /\ new[x].private = NoPrivate
  BY <1>1 DEF Owned
<1>9. \A x \in Opens(new) : new[x].phd = x \/ new[x].phd \in N
  BY <1>1, <1>2 DEF Owned
<1>10. ASSUME NEW x \in N
       PROVE  /\ new[x].phd = x
              /\ Lists(new[x].linked, LinkedTo(new, x))
              /\ new[x].record = 0 => new[x].private = NoPrivate
              /\ new[x].private.inv = new[x].private.vstr => new[x].private.inv = 0
  <2>1. CASE x = h
    <3>1. Lists(new[x].linked, LinkedTo(new, x))
      BY <1>1, <1>4, <2>1, NoneListed, Zenon
    <3> QED
      BY <1>1, <2>1, <3>1 DEF NoPrivate
  <2>2. CASE x \in M
    BY <1>3, <1>5, <2>2 DEF Owned
  <2> QED
    BY <2>1, <2>2
<1>11. ASSUME NEW x \in N, NEW p \in PrivateTo(new, x)
       PROVE  /\ p \in Opens(new) \ N /\ new[p].phd = p
              /\ \A g \in N : p \in PrivateTo(new, g) => g = x
  <2>1. x \in M /\ p \in PrivateTo(hs, x)
    BY <1>5, <1>6, <1>11
  <2>2. p \in Opens(hs) \ M /\ hs[p].phd = p /\ \A g \in M : p \in PrivateTo(hs, g) => g = x
    BY <2>1 DEF Owned
  <2>3. p # h /\ p \in Handles
    BY <1>1, <2>2
  <2> QED
    BY <1>1, <1>2, <1>5, <1>6, <2>2, <2>3
<1>12. ASSUME NEW p \in Opens(new) \ N, new[p].phd = p
       PROVE  \E x \in N : p \in PrivateTo(new, x)
  <2>1. p \in Opens(hs) \ M /\ hs[p].phd = p
    BY <1>1, <1>2, <1>12
  <2> QED
    BY <1>5, <2>1 DEF Owned
<1>13. N \subseteq Opens(new)
  BY <1>1, <1>2
<1>14. Owned(new, N, R)
  BY <1>1, <1>7, <1>8, <1>9, <1>10, <1>11, <1>12, <1>13 DEF Owned
<1> QED
  BY <1>2, <1>14 DEF new, Placed

(* A map of the client's is linked to another one. *)
LEMMA OwnedLinked ==
    ASSUME NEW hs, NEW M, NEW R, Owned(hs, M, R), NEW h \in M, NEW p \in M, h # p,
           hs[h].linked = <<>>, hs[h].private = NoPrivate
    PROVE  /\ Owned(Linked(hs, h, p), M \ {h}, R)
           /\ Opens(Linked(hs, h, p)) = Opens(hs)
<1> DEFINE up == [hs[p] EXCEPT !.linked = <<h>> \o @]
           down == [hs[h] EXCEPT !.phd = p]
           new == [hs EXCEPT ![p] = up, ![h] = down]
           N == M \ {h}
<1>0. Linked(hs, h, p) = new
  BY DEF Linked
<1>1. /\ hs \in [Handles -> HeadRec] /\ M \subseteq Opens(hs) /\ Opens(hs) \subseteq Handles
      /\ hs[h] \in HeadRec /\ hs[p] \in HeadRec /\ h \in Handles /\ p \in Handles
  BY DEF Owned, Opens
<1>2. /\ up \in HeadRec /\ up.linked = <<h>> \o hs[p].linked
      /\ up.open = hs[p].open /\ up.map = hs[p].map /\ up.record = hs[p].record
      /\ up.phd = hs[p].phd /\ up.private = hs[p].private
  <2> DEFINE list == <<h>> \o hs[p].linked
  <2>1. list \in Seq(Handles)
    BY <1>1 DEF HeadRec
  <2>2. up = [hs[p] EXCEPT !.linked = list]
    BY DEF up
  <2> HIDE DEF list
  <2> QED
    BY <1>1, <2>1, <2>2 DEF HeadRec, list
<1>3. /\ down \in HeadRec /\ down.phd = p /\ down.linked = <<>>
      /\ down.open = hs[h].open /\ down.map = hs[h].map /\ down.record = hs[h].record
      /\ down.private = NoPrivate
  BY <1>1 DEF HeadRec
<1> HIDE DEF up, down
<1>4. /\ new \in [Handles -> HeadRec] /\ new[p] = up /\ new[h] = down
      /\ \A x \in Handles : x # h /\ x # p => new[x] = hs[x]
  BY <1>1, <1>2, <1>3
<1> HIDE DEF new
<1>5. \A x \in Handles :
        /\ new[x].open = hs[x].open /\ new[x].record = hs[x].record
        /\ new[x].private = hs[x].private
        /\ x # h => new[x].phd = hs[x].phd
        /\ x # p => new[x].linked = hs[x].linked
  BY <1>2, <1>3, <1>4
<1>6. Opens(new) = Opens(hs)
  BY <1>5 DEF Opens
<1>7. \A x \in Handles : PrivateTo(new, x) = PrivateTo(hs, x)
  BY <1>5 DEF PrivateTo
<1>8. LinkedTo(hs, h) = {}
  <2>1. Lists(hs[h].linked, LinkedTo(hs, h))
    BY DEF Owned
  <2> QED
    BY <2>1, ListFacts
<1>9. hs[h].phd = h /\ hs[p].phd = p /\ h \notin LinkedTo(hs, p)
  BY DEF Owned, LinkedTo
<1>10. LinkedTo(new, p) = {h} \cup LinkedTo(hs, p)
  BY <1>1, <1>3, <1>4, <1>5, <1>6 DEF LinkedTo
<1>11. \A x \in N : x # p => LinkedTo(new, x) = LinkedTo(hs, x)
  BY <1>1, <1>3, <1>4, <1>5, <1>6, <1>9 DEF LinkedTo
<1>12. \A x \in Opens(new) : new[x].phd = x \/ new[x].phd \in N
  <2> SUFFICES ASSUME NEW x \in Opens(hs) PROVE new[x].phd = x \/ new[x].phd \in N
    BY <1>6
  <2>1. CASE x = h
    BY <1>3, <1>4, <2>1
  <2>2. CASE x # h
    <3>1. new[x].phd = hs[x].phd /\ hs[x].phd # h
      BY <1>1, <1>5, <1>8, <2>2 DEF LinkedTo
    <3> QED
      BY <3>1 DEF Owned
  <2> QED
    BY <2>1, <2>2
<1>13. ASSUME NEW x \in N
       PROVE  /\ new[x].phd = x
              /\ Lists(new[x].linked, LinkedTo(new, x))
              /\ new[x].record = 0 => new[x].private = NoPrivate
              /\ new[x].private.inv = new[x].private.vstr => new[x].private.inv = 0
  <2>1. /\ x \in M /\ x \in Handles /\ x # h
        /\ new[x].phd = hs[x].phd /\ hs[x].phd = x
        /\ new[x].record = hs[x].record /\ new[x].private = hs[x].private
    BY <1>1, <1>5 DEF Owned
  <2>2. Lists(hs[x].linked, LinkedTo(hs, x))
    BY <2>1 DEF Owned
  <2>3. Lists(new[x].linked, LinkedTo(new, x))
    <3>1. CASE x = p
      <4>1. Lists(<<h>> \o hs[p].linked, {h} \cup LinkedTo(hs, p))
        BY <1>9, <2>2, <3>1, OneListed, ListsJoin
      <4> QED
        BY <1>2, <1>4, <1>10, <3>1, <4>1, Zenon
    <3>2. CASE x # p
      BY <1>5, <1>11, <2>1, <2>2, <3>2
    <3> QED
      BY <3>1, <3>2
  <2>4. /\ hs[x].record = 0 => hs[x].private = NoPrivate
        /\ hs[x].private.inv = hs[x].private.vstr => hs[x].private.inv = 0
    BY <2>1 DEF Owned
  <2> QED
    BY <2>1, <2>3, <2>4
<1>14. ASSUME NEW x \in N, NEW q \in PrivateTo(new, x)
       PROVE  /\ q \in Opens(new) \ N /\ new[q].phd = q
              /\ \A g \in N : q \in PrivateTo(new, g) => g = x
  <2>1. x \in M /\ q \in PrivateTo(hs, x)
    BY <1>1, <1>7
  <2>2. q \in Opens(hs) \ M /\ hs[q].phd = q /\ \A g \in M : q \in PrivateTo(hs, g) => g = x
    BY <2>1 DEF Owned
  <2> QED
    BY <1>1, <1>5, <1>6, <1>7, <2>2
<1>15. ASSUME NEW q \in Opens(new) \ N, new[q].phd = q
       PROVE  \E x \in N : q \in PrivateTo(new, x)
  <2>1. q # h
    BY <1>3, <1>4, <1>15
  <2>2. q \in Opens(hs) \ M /\ hs[q].phd = q
    BY <1>1, <1>5, <1>6, <1>15, <2>1
  <2>3. PICK x \in M : q \in PrivateTo(hs, x)
    BY <2>2 DEF Owned
  <2>4. x # h
    BY <2>3 DEF PrivateTo, NoPrivate
  <2> QED
    BY <1>1, <1>7, <2>3, <2>4
<1>16. /\ N \subseteq Opens(new)
       /\ \A x \in Handles : new[x].record \in R \cup {0}
  BY <1>1, <1>5, <1>6 DEF Owned
<1>17. \A x \in Handles \ N : new[x].linked = <<>> /\ new[x].private = NoPrivate
  BY <1>1, <1>3, <1>4, <1>5 DEF Owned
<1>18. Owned(new, N, R)
  BY <1>4, <1>12, <1>13, <1>14, <1>15, <1>16, <1>17 DEF Owned
<1> QED
  BY <1>0, <1>6, <1>18

LEMMA LinkedMaps ==
    ASSUME NEW hs \in [Handles -> HeadRec], NEW h \in Handles, NEW p \in Handles, h # p
    PROVE  \A x \in Handles : /\ Linked(hs, h, p)[x].map = hs[x].map
                              /\ Linked(hs, h, p)[x].vals = hs[x].vals
<1> DEFINE up == [hs[p] EXCEPT !.linked = <<h>> \o @]
           down == [hs[h] EXCEPT !.phd = p]
<1>1. Linked(hs, h, p) = [hs EXCEPT ![p] = up, ![h] = down]
  BY DEF Linked
<1>2. /\ up.map = hs[p].map /\ down.map = hs[h].map
      /\ up.vals = hs[p].vals /\ down.vals = hs[h].vals
  BY DEF HeadRec
<1> HIDE DEF up, down
<1> QED
  BY <1>1, <1>2

(* What qmap_open makes of a head. *)
Fresh(hs, p, map, rec) ==
    [Allocated(hs[p], p) EXCEPT !.map = map, !.record = rec, !.private = NoPrivate]

LEMMA FreshTyped ==
    ASSUME NEW hs \in [Handles -> HeadRec], NEW p \in Handles, NEW map \in Maps \cup {NONE},
           NEW rec \in Nat
    PROVE  /\ Fresh(hs, p, map, rec) \in HeadRec
           /\ Opened(hs, p, map, rec) = [hs EXCEPT ![p] = Fresh(hs, p, map, rec)]
           /\ Fresh(hs, p, map, rec).open /\ Fresh(hs, p, map, rec).phd = p
           /\ Fresh(hs, p, map, rec).linked = <<>> /\ Fresh(hs, p, map, rec).private = NoPrivate
           /\ Fresh(hs, p, map, rec).record = rec /\ Fresh(hs, p, map, rec).map = map
<1> DEFINE old == hs[p]
           all == Allocated(old, p)
           head == [all EXCEPT !.map = map, !.record = rec, !.private = NoPrivate]
<1>1. old \in HeadRec /\ Empty \in Contents /\ <<>> \in Seq(Handles)
  BY EmptyContents
<1> HIDE DEF old
<1>2. all \in HeadRec /\ all.open /\ all.phd = p /\ all.linked = <<>>
  BY <1>1 DEF HeadRec, Allocated
<1> HIDE DEF all
<1>3. NoPrivate \in [inv : Handles \cup {0}, vstr : Handles \cup {0}]
  BY DEF NoPrivate
<1>4. /\ head \in HeadRec /\ head.open /\ head.phd = p /\ head.linked = <<>>
      /\ head.private = NoPrivate /\ head.record = rec /\ head.map = map
  BY <1>2, <1>3 DEF HeadRec
<1> QED
  BY <1>4 DEF Fresh, Opened, all, old, head

(* What the first put of a reference does to the head of its map. *)
Giving(head, which, p) == [head EXCEPT !.private[which] = p]

LEMMA GivingTyped ==
    ASSUME NEW head \in HeadRec, NEW which \in {"inv", "vstr"}, NEW p \in Handles,
           head.private[which] = 0
    PROVE  LET new == Giving(head, which, p)
           IN  /\ new \in HeadRec
               /\ new.open = head.open /\ new.map = head.map /\ new.record = head.record
               /\ new.phd = head.phd /\ new.linked = head.linked /\ new.vals = head.vals
               /\ {new.private.inv, new.private.vstr} \ {0}
                    = ({head.private.inv, head.private.vstr} \ {0}) \cup {p}
               /\ (p \notin {head.private.inv, head.private.vstr})
                    => (new.private.inv = new.private.vstr => new.private.inv = 0)
<1> DEFINE old == head.private
           new == Giving(head, which, p)
           given == [old EXCEPT ![which] = p]
<1>1. old \in [inv : Handles \cup {0}, vstr : Handles \cup {0}] /\ old[which] = 0
  BY DEF HeadRec
<1>2. new = [head EXCEPT !.private = given]
  BY DEF Giving
<1>3. p # 0
  BY DEF Handles
<1> HIDE DEF old, new
<1>4. /\ given \in [inv : Handles \cup {0}, vstr : Handles \cup {0}]
      /\ {given.inv, given.vstr} \ {0} = ({old.inv, old.vstr} \ {0}) \cup {p}
      /\ p \notin {old.inv, old.vstr} => (given.inv = given.vstr => given.inv = 0)
  <2>1. CASE which = "inv"
    <3>1. given = [old EXCEPT !.inv = p] /\ old.inv = 0
      BY <1>1, <2>1
    <3> HIDE DEF given
    <3>2. /\ given \in [inv : Handles \cup {0}, vstr : Handles \cup {0}]
          /\ given.inv = p /\ given.vstr = old.vstr
      BY <1>1, <3>1
    <3> QED
      BY <1>3, <3>1, <3>2
  <2>2. CASE which = "vstr"
    <3>1. given = [old EXCEPT !.vstr = p] /\ old.vstr = 0
      BY <1>1, <2>2
    <3> HIDE DEF given
    <3>2. /\ given \in [inv : Handles \cup {0}, vstr : Handles \cup {0}]
          /\ given.vstr = p /\ given.inv = old.inv
      BY <1>1, <3>1
    <3> QED
      BY <1>3, <3>1, <3>2
  <2> QED
    BY <2>1, <2>2
<1> HIDE DEF given
<1>5. /\ new \in HeadRec /\ new.private = given
      /\ new.open = head.open /\ new.map = head.map /\ new.record = head.record
      /\ new.phd = head.phd /\ new.linked = head.linked /\ new.vals = head.vals
  BY <1>2, <1>4 DEF HeadRec
<1> QED
  BY <1>4, <1>5 DEF new, old

(* A map is opened for one of the client's. *)
Given(hs, h, which, p) == [Opened(hs, p, NONE, 0) EXCEPT ![h].private[which] = p]

LEMMA OwnedPrivate ==
    ASSUME NEW hs, NEW M, NEW R, Owned(hs, M, R),
           NEW h \in M, NEW which \in {"inv", "vstr"}, hs[h].private[which] = 0,
           hs[h].record # 0, NEW p \in Handles, p \notin Opens(hs)
    PROVE  /\ Owned(Given(hs, h, which, p), M, R)
           /\ Opens(Given(hs, h, which, p)) = Opens(hs) \cup {p}
           /\ \A x \in Handles : x # p => /\ Given(hs, h, which, p)[x].map = hs[x].map
                                         /\ Given(hs, h, which, p)[x].vals = hs[x].vals
<1> DEFINE new == [Opened(hs, p, NONE, 0) EXCEPT ![h].private[which] = p]
           head == Fresh(hs, p, NONE, 0)
           giver == Giving(hs[h], which, p)
<1>1. /\ hs \in [Handles -> HeadRec] /\ M \subseteq Opens(hs) /\ Opens(hs) \subseteq Handles
      /\ h \in Handles /\ h # p /\ hs[h] \in HeadRec
  BY DEF Owned, Opens
<1>2. /\ head \in HeadRec /\ Opened(hs, p, NONE, 0) = [hs EXCEPT ![p] = head]
      /\ head.open /\ head.phd = p /\ head.linked = <<>> /\ head.private = NoPrivate
      /\ head.record = 0
  BY <1>1, FreshTyped
<1>3. /\ giver \in HeadRec
      /\ giver.open = hs[h].open /\ giver.record = hs[h].record /\ giver.map = hs[h].map
      /\ giver.vals = hs[h].vals
      /\ giver.phd = hs[h].phd /\ giver.linked = hs[h].linked
      /\ {giver.private.inv, giver.private.vstr} \ {0} = PrivateTo(hs, h) \cup {p}
      /\ p \notin {hs[h].private.inv, hs[h].private.vstr}
            => (giver.private.inv = giver.private.vstr => giver.private.inv = 0)
  <2> DEFINE old == hs[h]
             one == Giving(old, which, p)
  <2>1. old \in HeadRec /\ old.private[which] = 0
    BY <1>1
  <2> HIDE DEF old
  <2>2. /\ one \in HeadRec /\ one.open = old.open /\ one.record = old.record
        /\ one.map = old.map /\ one.vals = old.vals
        /\ one.phd = old.phd /\ one.linked = old.linked
        /\ {one.private.inv, one.private.vstr} \ {0}
             = ({old.private.inv, old.private.vstr} \ {0}) \cup {p}
        /\ p \notin {old.private.inv, old.private.vstr}
             => (one.private.inv = one.private.vstr => one.private.inv = 0)
    BY <2>1, GivingTyped
  <2> HIDE DEF one
  <2>3. PrivateTo(hs, h) = {old.private.inv, old.private.vstr} \ {0}
    BY DEF PrivateTo, old
  <2>4. giver = one
    BY DEF one, old
  <2> HIDE DEF giver
  <2> QED
    BY <2>2, <2>3, <2>4 DEF old
<1> HIDE DEF head
<1>4. new = [hs EXCEPT ![p] = head, ![h] = giver]
  <2> DEFINE other == [hs EXCEPT ![p] = head]
  <2>1. other \in [Handles -> HeadRec] /\ other[h] = hs[h]
    BY <1>1, <1>2
  <2>2. new = [other EXCEPT ![h] = Giving(@, which, p)]
    BY <1>2 DEF Giving
  <2> HIDE DEF other, new
  <2>3. new = [other EXCEPT ![h] = giver]
    BY <2>1, <2>2
  <2> HIDE DEF giver
  <2> QED
    BY <2>3 DEF other
<1> HIDE DEF giver, new
<1>5. /\ new \in [Handles -> HeadRec] /\ new[p] = head /\ new[h] = giver
      /\ \A x \in Handles : x # h /\ x # p => new[x] = hs[x]
  BY <1>1, <1>2, <1>3, <1>4
<1>6. /\ \A x \in Handles : x # p => /\ new[x].open = hs[x].open /\ new[x].phd = hs[x].phd
                                     /\ new[x].record = hs[x].record
                                     /\ new[x].map = hs[x].map
                                     /\ new[x].vals = hs[x].vals
                                     /\ new[x].linked = hs[x].linked
      /\ \A x \in Handles : x # h /\ x # p => new[x].private = hs[x].private
  BY <1>3, <1>5
<1>7. Opens(new) = Opens(hs) \cup {p}
  BY <1>1, <1>2, <1>5, <1>6 DEF Opens
<1>8. \A x \in M : x \in Handles /\ x # p /\ hs[x].phd = x
  BY <1>1 DEF Owned
<1>9. \A x \in M : PrivateTo(new, x) = IF x = h THEN PrivateTo(hs, h) \cup {p}
                                                 ELSE PrivateTo(hs, x)
  <2>1. PrivateTo(new, h) = PrivateTo(hs, h) \cup {p}
    BY <1>3, <1>5 DEF PrivateTo
  <2>2. \A x \in M : x # h => PrivateTo(new, x) = PrivateTo(hs, x)
    BY <1>6, <1>8 DEF PrivateTo
  <2> QED
    BY <2>1, <2>2
<1>10. \A x \in M : p \notin PrivateTo(hs, x)
  BY DEF Owned
<1>11. \A x \in M : LinkedTo(new, x) = LinkedTo(hs, x)
  BY <1>1, <1>2, <1>5, <1>6, <1>7, <1>8 DEF LinkedTo
<1>12. ASSUME NEW x \in M
       PROVE  /\ new[x].phd = x
              /\ Lists(new[x].linked, LinkedTo(new, x))
              /\ new[x].record = 0 => new[x].private = NoPrivate
              /\ new[x].private.inv = new[x].private.vstr => new[x].private.inv = 0
  <2>1. /\ x \in Handles /\ x # p
        /\ new[x].phd = hs[x].phd /\ hs[x].phd = x
        /\ new[x].record = hs[x].record /\ new[x].linked = hs[x].linked
    BY <1>6, <1>8
  <2>2. Lists(hs[x].linked, LinkedTo(hs, x))
    BY DEF Owned
  <2>3. Lists(new[x].linked, LinkedTo(new, x))
    BY <1>11, <2>1, <2>2, Zenon
  <2>4. CASE x = h
    <3>1. new[x].private = giver.private
      BY <1>5, <2>4
    <3>2. p # 0
      BY DEF Handles
    <3>3. p \notin {hs[h].private.inv, hs[h].private.vstr}
      BY <1>10, <3>2 DEF PrivateTo
    <3> QED
      BY <1>3, <2>1, <2>3, <2>4, <3>1, <3>3
  <2>5. CASE x # h
    <3>1. new[x].private = hs[x].private
      BY <1>6, <2>1, <2>5
    <3>2. /\ hs[x].record = 0 => hs[x].private = NoPrivate
          /\ hs[x].private.inv = hs[x].private.vstr => hs[x].private.inv = 0
      BY DEF Owned
    <3> QED
      BY <2>1, <2>3, <3>1, <3>2
  <2> QED
    BY <2>4, <2>5
<1>13. ASSUME NEW x \in M, NEW q \in PrivateTo(new, x)
       PROVE  /\ q \in Opens(new) \ M /\ new[q].phd = q
              /\ \A g \in M : q \in PrivateTo(new, g) => g = x
  <2>1. CASE q = p
    <3>1. x = h
      BY <1>9, <1>10, <1>13, <2>1
    <3>2. \A g \in M : p \in PrivateTo(new, g) => g = h
      BY <1>9, <1>10
    <3> QED
      BY <1>1, <1>2, <1>5, <1>7, <1>8, <2>1, <3>1, <3>2
  <2>2. CASE q # p
    <3>1. q \in PrivateTo(hs, x)
      BY <1>9, <1>13, <2>2
    <3>2. q \in Opens(hs) \ M /\ hs[q].phd = q /\ \A g \in M : q \in PrivateTo(hs, g) => g = x
      BY <3>1 DEF Owned
    <3>3. \A g \in M : q \in PrivateTo(new, g) => g = x
      BY <1>9, <2>2, <3>2
    <3> QED
      BY <1>1, <1>6, <1>7, <2>2, <3>2, <3>3
  <2> QED
    BY <2>1, <2>2
<1>14. ASSUME NEW q \in Opens(new) \ M, new[q].phd = q
       PROVE  \E x \in M : q \in PrivateTo(new, x)
  <2>1. CASE q = p
    <3>1. p \in PrivateTo(new, h)
      BY <1>9
    <3> QED
      BY <2>1, <3>1
  <2>2. CASE q # p
    <3>1. q \in Opens(hs) \ M /\ hs[q].phd = q
      BY <1>1, <1>6, <1>7, <1>14, <2>2
    <3>2. PICK x \in M : q \in PrivateTo(hs, x)
      BY <3>1 DEF Owned
    <3>3. q \in PrivateTo(new, x)
      BY <1>9, <3>2
    <3> QED
      BY <3>3
  <2> QED
    BY <2>1, <2>2
<1>15. \A x \in Handles \ M : new[x].linked = <<>> /\ new[x].private = NoPrivate
  BY <1>2, <1>5, <1>6 DEF Owned
<1>16. \A x \in Opens(new) : new[x].phd = x \/ new[x].phd \in M
  BY <1>1, <1>2, <1>5, <1>6, <1>7 DEF Owned
<1>17. /\ M \subseteq Opens(new)
       /\ \A x \in Handles : new[x].record \in R \cup {0}
  BY <1>1, <1>2, <1>5, <1>6, <1>7 DEF Owned
<1>18. Owned(new, M, R)
  BY <1>5, <1>12, <1>13, <1>14, <1>15, <1>16, <1>17 DEF Owned
<1> QED
  BY <1>6, <1>7, <1>18 DEF new, Given

(* A map of the client's with everything that belongs to it. *)
Family(hs, h) == (LinkedTo(hs, h) \cup PrivateTo(hs, h)) \cup {h}

Shut(hs, G) == [x \in Handles |-> IF x \in G THEN Closed(hs[x]) ELSE hs[x]]

LEMMA FamilyApart ==
    ASSUME NEW hs, NEW M, NEW R, Owned(hs, M, R), NEW h \in M
    PROVE  /\ Family(hs, h) \subseteq Opens(hs) /\ Family(hs, h) \cap M = {h}
           /\ h \notin LinkedTo(hs, h) \cup PrivateTo(hs, h)
           /\ LinkedTo(hs, h) \cap PrivateTo(hs, h) = {}
<1>1. M \subseteq Opens(hs) /\ Opens(hs) \subseteq Handles
  BY DEF Owned, Opens
<1>2. \A l \in LinkedTo(hs, h) : l \in Opens(hs) /\ l \notin M /\ hs[l].phd = h /\ l # h
  BY DEF Owned, LinkedTo
<1>3. \A p \in PrivateTo(hs, h) : p \in Opens(hs) /\ p \notin M /\ hs[p].phd = p
  BY DEF Owned
<1> QED
  BY <1>1, <1>2, <1>3 DEF Family

LEMMA ClosedTyped ==
    ASSUME NEW head \in HeadRec
    PROVE  LET new == Closed(head)
           IN  /\ new \in HeadRec
               /\ ~new.open /\ new.map = head.map /\ new.record = head.record
               /\ new.phd = head.phd /\ new.linked = <<>> /\ new.private = NoPrivate
<1>1. /\ Empty \in Contents /\ <<>> \in Seq(Handles)
      /\ NoPrivate \in [inv : Handles \cup {0}, vstr : Handles \cup {0}]
  BY EmptyContents DEF NoPrivate
<1> QED
  BY <1>1 DEF HeadRec, Closed

(* A map of the client's is closed with what belongs to it. *)
LEMMA OwnedClosed ==
    ASSUME NEW hs, NEW M, NEW R, Owned(hs, M, R), NEW h \in M
    PROVE  LET new == Shut(hs, Family(hs, h))
           IN  /\ Owned(new, M \ {h}, R)
               /\ Opens(new) = Opens(hs) \ Family(hs, h)
<1> DEFINE G == Family(hs, h)
           new == Shut(hs, G)
           N == M \ {h}
<1>1. /\ hs \in [Handles -> HeadRec] /\ M \subseteq Opens(hs) /\ Opens(hs) \subseteq Handles
      /\ h \in Handles /\ \A x \in Handles : hs[x] \in HeadRec
  BY DEF Owned, Opens
<1>2. /\ G \subseteq Opens(hs) /\ G \cap M = {h} /\ h \in G
      /\ \A x \in G : x \in LinkedTo(hs, h) \/ x \in PrivateTo(hs, h) \/ x = h
      /\ LinkedTo(hs, h) \subseteq G /\ PrivateTo(hs, h) \subseteq G
  BY FamilyApart DEF Family
<1> HIDE DEF G
<1>3. \A x \in Handles \ G : new[x] = hs[x]
  BY DEF Shut
<1>4. \A x \in G : /\ new[x] \in HeadRec /\ ~new[x].open /\ new[x].record = hs[x].record
                   /\ new[x].linked = <<>> /\ new[x].private = NoPrivate
  <2>1. \A x \in G : new[x] = Closed(hs[x])
    BY <1>1, <1>2 DEF Shut
  <2> HIDE DEF new
  <2> QED
    BY <1>1, <1>2, <2>1, ClosedTyped
<1>5. new \in [Handles -> HeadRec]
  <2>1. \A x \in Handles : new[x] \in HeadRec
    BY <1>1, <1>3, <1>4
  <2>2. new = [x \in Handles |-> new[x]]
    BY DEF Shut
  <2> HIDE DEF new
  <2> QED
    BY <2>1, <2>2
<1> HIDE DEF new
<1>6. Opens(new) = Opens(hs) \ G
  BY <1>1, <1>3, <1>4 DEF Opens
<1>7. \A x \in N : x \in M /\ x \in Handles \ G /\ new[x] = hs[x] /\ hs[x].phd = x
  BY <1>1, <1>2, <1>3 DEF Owned
<1>8. \A p \in PrivateTo(hs, h) : hs[p].phd = p /\ p \notin M
                                  /\ \A g \in M : p \in PrivateTo(hs, g) => g = h
  BY DEF Owned
<1>9. \A x \in N : LinkedTo(new, x) = LinkedTo(hs, x)
  <2> SUFFICES ASSUME NEW x \in N PROVE LinkedTo(new, x) = LinkedTo(hs, x)
    OBVIOUS
  <2>1. x # h /\ hs[h].phd = h
    BY DEF Owned
  <2>2. ASSUME NEW l \in LinkedTo(hs, x) PROVE l \notin G
    <3>1. hs[l].phd = x /\ l # x
      BY <2>2 DEF LinkedTo
    <3>2. l \notin LinkedTo(hs, h)
      BY <2>1, <3>1 DEF LinkedTo
    <3>3. l \notin PrivateTo(hs, h) /\ l # h
      BY <1>8, <2>1, <3>1
    <3> QED
      BY <1>2, <3>2, <3>3
  <2>3. \A l \in Opens(new) : new[l] = hs[l]
    BY <1>1, <1>3, <1>6
  <2> QED
    BY <1>6, <2>2, <2>3 DEF LinkedTo
<1>10. \A x \in N : PrivateTo(new, x) = PrivateTo(hs, x)
  BY <1>7 DEF PrivateTo
<1>11. ASSUME NEW x \in N
       PROVE  /\ new[x].phd = x
              /\ Lists(new[x].linked, LinkedTo(new, x))
              /\ new[x].record = 0 => new[x].private = NoPrivate
              /\ new[x].private.inv = new[x].private.vstr => new[x].private.inv = 0
  <2>1. new[x] = hs[x] /\ LinkedTo(new, x) = LinkedTo(hs, x) /\ x \in M
    BY <1>7, <1>9
  <2>2. /\ hs[x].phd = x
        /\ Lists(hs[x].linked, LinkedTo(hs, x))
        /\ hs[x].record = 0 => hs[x].private = NoPrivate
        /\ hs[x].private.inv = hs[x].private.vstr => hs[x].private.inv = 0
    BY <2>1 DEF Owned
  <2> QED
    BY <2>1, <2>2, Zenon
<1>12. ASSUME NEW x \in N, NEW p \in PrivateTo(new, x)
       PROVE  /\ p \in Opens(new) \ N /\ new[p].phd = p
              /\ \A g \in N : p \in PrivateTo(new, g) => g = x
  <2>1. x \in M /\ x # h /\ p \in PrivateTo(hs, x)
    BY <1>10
  <2>2. p \in Opens(hs) \ M /\ hs[p].phd = p /\ \A g \in M : p \in PrivateTo(hs, g) => g = x
    BY <2>1 DEF Owned
  <2>3. p \notin G
    <3>1. p \notin LinkedTo(hs, h)
      BY <2>2 DEF LinkedTo
    <3>2. p \notin PrivateTo(hs, h) /\ p # h
      BY <1>8, <2>1, <2>2
    <3> QED
      BY <1>2, <3>1, <3>2
  <2> QED
    BY <1>1, <1>3, <1>6, <1>10, <2>2, <2>3
<1>13. ASSUME NEW p \in Opens(new) \ N, new[p].phd = p
       PROVE  \E x \in N : p \in PrivateTo(new, x)
  <2>1. p \in Opens(hs) /\ p \notin G /\ p # h /\ hs[p].phd = p
    BY <1>1, <1>2, <1>3, <1>6, <1>13
  <2>2. p \in Opens(hs) \ M
    BY <2>1
  <2>3. PICK x \in M : p \in PrivateTo(hs, x)
    BY <2>1, <2>2 DEF Owned
  <2>4. x # h
    BY <1>2, <2>1, <2>3
  <2> QED
    BY <1>10, <2>3, <2>4
<1>14. \A x \in Handles \ N : new[x].linked = <<>> /\ new[x].private = NoPrivate
  <2> SUFFICES ASSUME NEW x \in Handles \ N
               PROVE new[x].linked = <<>> /\ new[x].private = NoPrivate
    OBVIOUS
  <2>1. CASE x \in G
    BY <1>4, <2>1
  <2>2. CASE x \notin G
    BY <1>2, <1>3, <2>2 DEF Owned
  <2> QED
    BY <2>1, <2>2
<1>15. \A x \in Opens(new) : new[x].phd = x \/ new[x].phd \in N
  <2> SUFFICES ASSUME NEW x \in Opens(new) PROVE new[x].phd = x \/ new[x].phd \in N
    OBVIOUS
  <2>1. x \in Opens(hs) /\ x \notin G /\ new[x] = hs[x]
    BY <1>1, <1>3, <1>6
  <2>2. hs[x].phd = x \/ hs[x].phd \in M
    BY <2>1 DEF Owned
  <2>3. hs[x].phd = h => x = h \/ x \in LinkedTo(hs, h)
    BY <2>1 DEF LinkedTo
  <2> QED
    BY <1>2, <2>1, <2>2, <2>3
<1>16. /\ N \subseteq Opens(new)
       /\ \A x \in Handles : new[x].record \in R \cup {0}
  BY <1>1, <1>2, <1>3, <1>4, <1>6 DEF Owned
<1>17. Owned(new, N, R)
  BY <1>5, <1>11, <1>12, <1>13, <1>14, <1>15, <1>16 DEF Owned
<1> QED
  BY <1>6, <1>17 DEF new, G

(* What qmap_close closes is the map and what belongs to it, each once. *)
LEMMA ClosedListed ==
    ASSUME LastSpared, use \in Uses, NEW M, Owned(heads, M, use.records), NEW h \in M
    PROVE  Lists(Those(ClosedWith(h), Live), Family(heads, h))
<1> DEFINE hd == heads[h]
           inv == hd.private.inv
           vstr == hd.private.vstr
           a == hd.linked
           b == IF inv # 0 /\ hd.record > 0 /\ hd.record < Records THEN <<inv>> ELSE <<>>
           c == IF vstr # 0 THEN <<vstr>> ELSE <<>>
           B == {inv} \ {0}
           C == {vstr} \ {0}
           L == LinkedTo(heads, h)
<1>1. /\ hd \in HeadRec /\ hd.record \in use.records \cup {0}
      /\ hd.record = 0 => hd.private = NoPrivate
      /\ inv = vstr => inv = 0
      /\ Lists(a, L)
  <2>1. h \in Handles
    BY DEF Owned, Opens
  <2> QED
    BY <2>1 DEF Owned
<1>2. Lists(b, B)
  <2>1. CASE inv = 0
    <3>1. b = <<>> /\ B = {}
      BY <2>1
    <3> QED
      BY <3>1, NoneListed, Zenon
  <2>2. CASE inv # 0
    <3>1. hd.record # 0
      BY <1>1, <2>2 DEF NoPrivate
    <3>2. hd.record \in 1 .. Records - 1 /\ Records \in Nat
      BY <1>1, <3>1, StoreAssumption DEF LastSpared
    <3>3. b = <<inv>> /\ B = {inv}
      BY <2>2, <3>2
    <3> HIDE DEF b, B, inv
    <3>4. Lists(<<inv>>, {inv})
      BY OneListed
    <3> QED
      BY <3>3, <3>4, Zenon
  <2> QED
    BY <2>1, <2>2
<1>3. Lists(c, C)
  <2>1. CASE vstr = 0
    <3>1. c = <<>> /\ C = {}
      BY <2>1
    <3> QED
      BY <3>1, NoneListed, Zenon
  <2>2. CASE vstr # 0
    <3>1. c = <<vstr>> /\ C = {vstr}
      BY <2>2
    <3> HIDE DEF c, C, vstr
    <3>2. Lists(<<vstr>>, {vstr})
      BY OneListed
    <3> QED
      BY <3>1, <3>2, Zenon
  <2> QED
    BY <2>1, <2>2
<1>4. PrivateTo(heads, h) = B \cup C /\ B \cap C = {}
  BY <1>1 DEF PrivateTo
<1>5. ClosedWith(h) = (a \o b) \o c \o <<h>>
  BY DEF ClosedWith
<1>6. /\ Family(heads, h) \subseteq Opens(heads)
      /\ h \notin L \cup PrivateTo(heads, h) /\ L \cap PrivateTo(heads, h) = {}
  BY FamilyApart
<1>7. L \cap B = {} /\ (L \cup B) \cap C = {} /\ h \notin (L \cup B) \cup C
  BY <1>4, <1>6
<1> HIDE DEF a, b, c, B, C, L
<1>8. Lists(a \o b, L \cup B)
  BY <1>1, <1>2, <1>7, ListsJoin
<1>9. Lists((a \o b) \o c, (L \cup B) \cup C)
  BY <1>3, <1>7, <1>8, ListsJoin
<1>10. ((L \cup B) \cup C) \cap {h} = {}
  BY <1>7
<1>11. Lists((a \o b) \o c \o <<h>>, ((L \cup B) \cup C) \cup {h})
  BY <1>9, <1>10, OneListed, ListsJoin
<1>12. ((L \cup B) \cup C) \cup {h} = Family(heads, h)
  BY <1>4 DEF Family, L
<1>13. Lists(ClosedWith(h), Family(heads, h))
  BY <1>5, <1>11, <1>12, Zenon
<1>14. Family(heads, h) \cap Live = Family(heads, h)
  BY <1>6 DEF Live, Opens
<1>15. Lists(Those(ClosedWith(h), Live), Family(heads, h) \cap Live)
  BY <1>13, ThoseListed
<1> QED
  BY <1>14, <1>15, Zenon

-----------------------------------------------------------------------------
(* The inductive invariant *)

(* the client's maps of a file *)
OfFile(hs, M, f) == {h \in M : hs[h].map # NONE /\ FileOf[hs[h].map] = f}

(* the lists of the files have the client's maps *)
ListedIn(hs, M, list, opened) ==
    /\ list \in [Files -> Seq(Handles)] /\ opened \in Seq(Files)
    /\ \A f \in Files : Lists(list[f], OfFile(hs, M, f))
    /\ \A h \in M : hs[h].map # NONE => Contains(opened, FileOf[hs[h].map])

Sound ==
    /\ use \in Uses
    /\ hidm \in Manager /\ Accounts(hidm, {0, 1} \cup Opens(heads))
    /\ Owned(heads, mine, use.records)
    /\ ListedIn(heads, mine, ids, files)
    /\ mdbs \subseteq Handles
    /\ disk \in [Files -> Seq(Block)]

LEMMA FileTyped == \A m \in Maps : FileOf[m] \in Files /\ DbOf[m] \in {DbOf[n] : n \in Maps}
BY DEF Files

LEMMA OpensHandles ==
    ASSUME NEW hs, NEW M, NEW R, Owned(hs, M, R)
    PROVE  /\ hs \in [Handles -> HeadRec] /\ M \subseteq Handles /\ Opens(hs) \subseteq Handles
           /\ Handles \subseteq Nat /\ 0 \notin Handles /\ 1 \notin Handles
           /\ \A h \in Handles : hs[h].map \in Maps \cup {NONE}
<1>1. hs \in [Handles -> HeadRec] /\ M \subseteq Opens(hs) /\ Opens(hs) \subseteq Handles
  BY DEF Owned, Opens
<1>2. \A h \in Handles : hs[h].map \in Maps \cup {NONE}
  BY <1>1 DEF HeadRec
<1> QED
  BY <1>1, <1>2, StoreAssumption DEF Handles

(* The invariant says what the runs check. *)
LEMMA SoundIsTyped ==
    ASSUME Sound
    PROVE  TypeOK
<1>1. Live = Opens(heads)
  BY DEF Live, Opens
<1>2. Accounts(hidm, {0, 1} \cup Live) /\ mine \subseteq Live
  BY <1>1 DEF Sound, Owned
<1>3. ASSUME NEW h \in Handles
      PROVE  /\ heads[h].map \in Maps \cup {NONE} /\ heads[h].phd \in Handles \cup {0}
             /\ heads[h].vals \in [Keys -> Vals \cup {NULL}]
  <2>1. heads[h] \in HeadRec
    BY DEF Sound, Owned
  <2> QED
    BY <2>1 DEF HeadRec, Contents
<1>4. mdbs \subseteq Handles /\ Range(files) \subseteq Files
  BY DEF Sound, ListedIn, Range
<1>5. ASSUME NEW f \in Files, NEW i \in DOMAIN disk[f]
      PROVE  disk[f][i].vals \in [Keys -> Vals \cup {NULL}]
  <2>1. disk[f] \in Seq(Block)
    BY DEF Sound
  <2>2. disk[f][i] \in Block
    BY <2>1, <1>5
  <2> QED
    BY <2>2 DEF Block, Contents
<1> QED
  BY <1>2, <1>3, <1>4, <1>5 DEF TypeOK

LEMMA SoundListsOpen ==
    ASSUME Sound
    PROVE  FilesListOpen
<1> SUFFICES ASSUME NEW f \in Files
             PROVE  /\ IsInjective(ids[f])
                    /\ Range(ids[f]) = {h \in mine : InFile(h, f)}
                    /\ ids[f] # <<>> => Contains(files, f)
  BY DEF FilesListOpen
<1>1. Lists(ids[f], OfFile(heads, mine, f))
  BY DEF Sound, ListedIn
<1>2. OfFile(heads, mine, f) = {h \in mine : InFile(h, f)}
  BY DEF OfFile, InFile
<1>3. /\ Range(ids[f]) = OfFile(heads, mine, f) /\ IsInjective(ids[f])
      /\ ids[f] = <<>> <=> OfFile(heads, mine, f) = {}
  BY <1>1, ListFacts
<1>4. ASSUME ids[f] # <<>> PROVE Contains(files, f)
  <2>1. PICK h \in mine : heads[h].map # NONE /\ FileOf[heads[h].map] = f
    BY <1>3, <1>4 DEF OfFile
  <2> QED
    BY <2>1 DEF Sound, ListedIn
<1> QED
  BY <1>2, <1>3, <1>4

LEMMA SoundLinks ==
    ASSUME Sound
    PROVE  LinksOpen
<1> DEFINE M == mine
<1>1. /\ Live = Opens(heads) /\ Opens(heads) \subseteq Handles /\ M \subseteq Opens(heads)
      /\ Owned(heads, M, use.records)
  BY DEF Live, Opens, Sound, Owned
<1>2. \A h \in M : Lists(heads[h].linked, LinkedTo(heads, h))
  BY <1>1 DEF Owned
<1>3. \A h \in M : /\ Range(heads[h].linked) = LinkedTo(heads, h)
                   /\ IsInjective(heads[h].linked)
                   /\ \A x : Contains(heads[h].linked, x) <=> x \in LinkedTo(heads, h)
  BY <1>2, ListFacts
<1>4. \A h \in Handles \ M : Range(heads[h].linked) = {} /\ IsInjective(heads[h].linked)
  <2>1. \A h \in Handles \ M : heads[h].linked = <<>>
    BY <1>1 DEF Owned
  <2>2. Range(<<>>) = {} /\ IsInjective(<<>>)
    BY DEF Range, IsInjective
  <2> QED
    BY <2>1, <2>2
<1> SUFFICES ASSUME NEW h \in Live
             PROVE  /\ \A l \in Range(heads[h].linked) : l \in Live /\ heads[l].phd = h /\ l # h
                    /\ heads[h].phd # h => /\ heads[h].phd \in Live
                                           /\ Contains(heads[heads[h].phd].linked, h)
                    /\ IsInjective(heads[h].linked)
  BY DEF LinksOpen
<1>5. \A l \in Range(heads[h].linked) : l \in Live /\ heads[l].phd = h /\ l # h
  BY <1>1, <1>3, <1>4 DEF LinkedTo
<1>6. ASSUME heads[h].phd # h
      PROVE  heads[h].phd \in Live /\ Contains(heads[heads[h].phd].linked, h)
  <2>1. heads[h].phd \in M
    BY <1>1, <1>6 DEF Owned
  <2>2. h \in LinkedTo(heads, heads[h].phd)
    BY <1>1, <1>6 DEF LinkedTo
  <2> QED
    BY <1>1, <1>3, <2>1, <2>2
<1>7. IsInjective(heads[h].linked)
  BY <1>1, <1>3, <1>4
<1> QED
  BY <1>5, <1>6, <1>7

LEMMA SoundOwns ==
    ASSUME Sound
    PROVE  NothingLeaks
<1>1. /\ Live = Opens(heads) /\ mine \subseteq Opens(heads)
      /\ Owned(heads, mine, use.records)
  BY DEF Live, Opens, Sound, Owned
<1>2. ASSUME NEW h \in mine PROVE Belonging(h) = LinkedTo(heads, h) \cup PrivateTo(heads, h)
  <2>1. Lists(heads[h].linked, LinkedTo(heads, h))
    BY <1>1 DEF Owned
  <2>2. Range(heads[h].linked) = LinkedTo(heads, h)
    BY <2>1, ListFacts
  <2> QED
    BY <2>2 DEF Belonging, PrivateTo
<1>3. \A h \in mine : LinkedTo(heads, h) \subseteq Live /\ PrivateTo(heads, h) \subseteq Live
  BY <1>1 DEF LinkedTo, Owned
<1>4. ASSUME NEW x \in Live, x \notin mine PROVE \E h \in mine : x \in Belonging(h)
  <2>1. CASE heads[x].phd = x
    <3>1. PICK h \in mine : x \in PrivateTo(heads, h)
      BY <1>1, <1>4, <2>1 DEF Owned
    <3> QED
      BY <1>2, <3>1
  <2>2. CASE heads[x].phd # x
    <3>1. heads[x].phd \in mine /\ x \in LinkedTo(heads, heads[x].phd)
      BY <1>1, <2>2 DEF Owned, LinkedTo
    <3> QED
      BY <1>2, <3>1
  <2> QED
    BY <2>1, <2>2
<1> QED
  BY <1>1, <1>2, <1>3, <1>4 DEF NothingLeaks

-----------------------------------------------------------------------------
(* The steps *)

LEMMA FreshSound ==
    ASSUME NEW R
    PROVE  /\ Owned(FreshHeads, {}, R) /\ Opens(FreshHeads) = {}
           /\ FreshIdm \in Manager /\ Accounts(FreshIdm, {0, 1} \cup {})
           /\ ListedIn(FreshHeads, {}, FreshIds, <<>>)
<1>1. Unused \in HeadRec /\ ~Unused.open /\ Unused.record = 0 /\ Unused.linked = <<>>
      /\ Unused.private = NoPrivate
  BY EmptyContents DEF Unused, HeadRec, NoPrivate
<1>2. FreshHeads \in [Handles -> HeadRec] /\ \A h \in Handles : FreshHeads[h] = Unused
  BY <1>1 DEF FreshHeads
<1>3. Opens(FreshHeads) = {}
  BY <1>1, <1>2 DEF Opens
<1>4. Owned(FreshHeads, {}, R)
  BY <1>1, <1>2, <1>3 DEF Owned
<1>5. FreshIdm \in Manager
  BY DEF FreshIdm, Manager
<1>6. Accounts(FreshIdm, {0, 1})
  <2>1. FreshIdm.free = <<>> /\ FreshIdm.last = 2 /\ Len(<<>>) = 0
    BY DEF FreshIdm
  <2>2. Listed(FreshIdm) = {}
    BY <2>1 DEF Listed
  <2>3. {0, 1} = 0 .. FreshIdm.last - 1
    BY <2>1
  <2> QED
    BY <2>1, <2>2, <2>3 DEF Accounts
<1>7. ListedIn(FreshHeads, {}, FreshIds, <<>>)
  <2>1. \A f \in Files : OfFile(FreshHeads, {}, f) = {}
    BY DEF OfFile
  <2>2. \A f \in Files : FreshIds[f] = <<>>
    BY DEF FreshIds
  <2>3. \A f \in Files : Lists(FreshIds[f], OfFile(FreshHeads, {}, f))
    BY <2>1, <2>2, NoneListed
  <2>4. FreshIds \in [Files -> Seq(Handles)] /\ <<>> \in Seq(Files)
    BY DEF FreshIds
  <2> QED
    BY <2>3, <2>4 DEF ListedIn
<1> QED
  BY <1>3, <1>4, <1>5, <1>6, <1>7

(* Every block written has the database and the entries of a map. *)
LEMMA SavedTyped ==
    ASSUME Sound, NEW fs
    PROVE  SavedFiles(fs) \in [Files -> Seq(Block)]
<1>1. ASSUME NEW f \in Files PROVE SavedFile(f) \in Seq(Block)
  <2> DEFINE kept == Those(ids[f], mdbs)
             block(i) == [db |-> DbOf[heads[kept[i]].map], vals |-> heads[kept[i]].vals]
  <2>1. Lists(ids[f], OfFile(heads, mine, f))
    BY DEF Sound, ListedIn
  <2>2. Lists(kept, OfFile(heads, mine, f) \cap mdbs)
    BY <2>1, ThoseListed
  <2>3. SavedFile(f) = [i \in 1 .. Len(kept) |-> block(i)] /\ Len(kept) \in Nat
    BY <2>2 DEF SavedFile, Lists
  <2> HIDE DEF kept
  <2>4. ASSUME NEW i \in 1 .. Len(kept) PROVE block(i) \in Block
    <3>1. kept[i] \in OfFile(heads, mine, f)
      BY <2>2 DEF Lists
    <3>2. kept[i] \in Handles /\ heads[kept[i]].map # NONE
      BY <3>1, OpensHandles DEF Sound, OfFile
    <3>3. heads[kept[i]] \in HeadRec
      BY <3>2 DEF Sound, Owned
    <3>4. heads[kept[i]].map \in Maps /\ heads[kept[i]].vals \in Contents
      BY <3>2, <3>3 DEF HeadRec
    <3> QED
      BY <3>4 DEF Block
  <2> HIDE DEF block
  <2> QED
    BY <2>3, <2>4
<1>2. disk \in [Files -> Seq(Block)]
  BY DEF Sound
<1> QED
  BY <1>1, <1>2 DEF SavedFiles

LEMMA InitSound ==
    ASSUME Init
    PROVE  Sound
<1>1. disk \in [Files -> Seq(Block)]
  BY DEF Init
<1>2. /\ Owned(heads, mine, use.records) /\ Opens(heads) = {}
      /\ hidm \in Manager /\ Accounts(hidm, {0, 1} \cup {})
      /\ ListedIn(heads, mine, ids, files)
  BY FreshSound DEF Init
<1> QED
  BY <1>1, <1>2 DEF Init, Sound

LEMMA RestartSound ==
    ASSUME Sound, Restart
    PROVE  Sound'
<1>1. disk' \in [Files -> Seq(Block)]
  BY SavedTyped DEF Restart
<1>2. /\ Owned(heads', mine', use'.records) /\ Opens(heads') = {}
      /\ hidm' \in Manager /\ Accounts(hidm', {0, 1} \cup {})
      /\ ListedIn(heads', mine', ids', files')
  BY FreshSound DEF Restart
<1>3. mdbs' \subseteq Handles /\ use' \in Uses
  BY DEF Restart, Sound
<1> QED
  BY <1>1, <1>2, <1>3 DEF Sound

LEMMA SaveSound ==
    ASSUME Sound, Save
    PROVE  Sound'
<1>1. disk' \in [Files -> Seq(Block)]
  BY SavedTyped DEF Save
<1> QED
  BY <1>1 DEF Save, Sound

LEMMA RefusedSound ==
    ASSUME Sound, OpenRefused
    PROVE  Sound'
<1> DEFINE H == {0, 1} \cup Opens(heads)
           id == IdmNewId(hidm)
<1>1. IdmNew(hidm) \in Manager /\ id \notin H /\ Accounts(IdmNew(hidm), H \cup {id})
  BY NewAccounts DEF Sound
<1> HIDE DEF H, id
<1>2. /\ IdmDel(IdmNew(hidm), id) \in Manager
      /\ Accounts(IdmDel(IdmNew(hidm), id), (H \cup {id}) \ {id})
  BY <1>1, DelAccounts
<1>3. (H \cup {id}) \ {id} = H
  BY <1>1
<1>4. hidm' \in Manager /\ Accounts(hidm', H)
  BY <1>2, <1>3 DEF OpenRefused, IdmRefused, id
<1> QED
  BY <1>4 DEF OpenRefused, Sound, H

(* The lists stay when the client's maps and their files do. *)
LEMMA ListedKept ==
    ASSUME NEW hs, NEW M, NEW list, NEW opened, ListedIn(hs, M, list, opened),
           NEW new, NEW N, N \subseteq M, \A h \in N : new[h].map = hs[h].map,
           \A h \in M \ N : hs[h].map = NONE
    PROVE  ListedIn(new, N, list, opened)
<1>1. \A f \in Files : OfFile(new, N, f) = OfFile(hs, M, f)
  BY DEF OfFile
<1> QED
  BY <1>1 DEF ListedIn

LEMMA WriteSound ==
    ASSUME Sound, Write
    PROVE  Sound'
<1>1. PICK h \in mine, k \in Keys, v \in Vals \cup {NULL} :
          heads' = [heads EXCEPT ![h].vals[k] = v]
  BY DEF Write
<1> DEFINE vals == [heads[h].vals EXCEPT ![k] = v]
<1>2. Owned(heads, mine, use.records) /\ h \in Handles /\ heads \in [Handles -> HeadRec]
  BY OpensHandles DEF Sound
<1>3. vals \in Contents
  <2>1. heads[h].vals \in Contents
    BY <1>2 DEF HeadRec
  <2> QED
    BY <2>1 DEF Contents
<1>4. heads' = Holding(heads, h, vals)
  BY <1>1 DEF Holding
<1> HIDE DEF vals
<1>5. Filled(heads, heads, {h})
  BY <1>2 DEF Filled
<1>6. Filled(heads, heads', {h})
  BY <1>2, <1>3, <1>4, <1>5, FillOne
<1>7. Owned(heads', mine, use.records) /\ Opens(heads') = Opens(heads)
  BY <1>2, <1>6, OwnedFilled
<1>8. \A x \in mine : heads'[x].map = heads[x].map
  BY <1>2, <1>6, OpensHandles DEF Filled
<1>9. ListedIn(heads', mine, ids, files)
  BY <1>8, ListedKept DEF Sound
<1>10. UNCHANGED <<use, hidm, mine, files, ids, dbs, mdbs, disk>>
  BY DEF Write
<1> QED
  BY <1>7, <1>9, <1>10 DEF Sound

LEMMA AssocSound ==
    ASSUME Sound, Assoc
    PROVE  Sound'
<1>1. PICK h \in mine, p \in mine :
        /\ h # p /\ heads[h].linked = <<>> /\ heads[h].map = NONE /\ heads[h].record = 0
        /\ heads' = Linked(heads, h, p) /\ mine' = mine \ {h}
  BY DEF Assoc
<1>2. Owned(heads, mine, use.records) /\ heads \in [Handles -> HeadRec] /\ mine \subseteq Handles
  BY OpensHandles DEF Sound
<1>3. heads[h].private = NoPrivate
  BY <1>1, <1>2 DEF Owned
<1>4. Owned(heads', mine', use.records) /\ Opens(heads') = Opens(heads)
  BY <1>1, <1>2, <1>3, OwnedLinked
<1>5. \A x \in mine' : heads'[x].map = heads[x].map
  BY <1>1, <1>2, LinkedMaps
<1>6. ListedIn(heads', mine', ids, files)
  BY <1>1, <1>5, ListedKept DEF Sound
<1>7. UNCHANGED <<use, hidm, files, ids, dbs, mdbs, disk>>
  BY DEF Assoc
<1> QED
  BY <1>4, <1>6, <1>7 DEF Sound

LEMMA PrivateSound ==
    ASSUME Sound, OpenPrivate
    PROVE  Sound'
<1> DEFINE p == IdmNewId(hidm)
           H == {0, 1} \cup Opens(heads)
<1>1. PICK h \in mine, which \in {"inv", "vstr"} :
        /\ heads[h].record > 0 /\ heads[h].private[which] = 0 /\ p <= LastHandle
        /\ hidm' = IdmNew(hidm)
        /\ heads' = Given(heads, h, which, p)
  BY DEF OpenPrivate, Given
<1>2. /\ IdmNew(hidm) \in Manager /\ p \in Nat /\ p \notin H
      /\ Accounts(IdmNew(hidm), H \cup {p})
  BY NewAccounts DEF Sound
<1>3. p \in Handles /\ p \notin Opens(heads)
  BY <1>1, <1>2, StoreAssumption DEF Handles
<1>4. /\ Owned(heads, mine, use.records) /\ heads \in [Handles -> HeadRec]
      /\ mine \subseteq Handles /\ mine \subseteq Opens(heads)
  BY OpensHandles DEF Sound, Owned
<1>5. heads[h].record # 0
  BY <1>1
<1> HIDE DEF p
<1>6. /\ Owned(heads', mine, use.records) /\ Opens(heads') = Opens(heads) \cup {p}
      /\ \A x \in Handles : x # p => heads'[x].map = heads[x].map
  BY <1>1, <1>3, <1>4, <1>5, OwnedPrivate
<1>7. {0, 1} \cup Opens(heads') = H \cup {p}
  BY <1>6
<1>8. \A x \in mine : heads'[x].map = heads[x].map
  BY <1>3, <1>4, <1>6
<1>9. ListedIn(heads', mine, ids, files)
  BY <1>8, ListedKept DEF Sound
<1>10. UNCHANGED <<use, mine, files, ids, dbs, mdbs, disk>>
  BY DEF OpenPrivate
<1>11. hidm' \in Manager /\ Accounts(hidm', {0, 1} \cup Opens(heads'))
  BY <1>1, <1>2, <1>7
<1> QED
  BY <1>6, <1>9, <1>10, <1>11 DEF Sound

LEMMA CloseSound ==
    ASSUME Sound, LastSpared, Close
    PROVE  Sound'
<1>1. PICK h \in mine :
        /\ hidm' = IdmDelAll(hidm, Those(ClosedWith(h), Live))
        /\ heads' = [x \in Handles |-> IF Contains(Those(ClosedWith(h), Live), x)
                                         THEN Closed(heads[x]) ELSE heads[x]]
        /\ mine' = mine \ {h}
        /\ ids' = [f \in Files |-> Unlisted(f, Those(ClosedWith(h), Live))]
  BY DEF Close
<1> DEFINE closed == Those(ClosedWith(h), Live)
           G == Family(heads, h)
           H == {0, 1} \cup Opens(heads)
<1>2. /\ Owned(heads, mine, use.records) /\ use \in Uses
      /\ mine \subseteq Handles /\ Opens(heads) \subseteq Handles /\ Handles \subseteq Nat
      /\ 0 \notin Handles /\ 1 \notin Handles
  BY OpensHandles DEF Sound
<1>3. Lists(closed, G)
  BY <1>2, ClosedListed
<1>4. G \subseteq Opens(heads) /\ G \cap mine = {h} /\ G \subseteq Handles
  BY <1>2, FamilyApart
<1> HIDE DEF closed, G
<1>5. heads' = Shut(heads, G)
  <2>1. \A x : Contains(closed, x) <=> x \in G
    BY <1>3, ListFacts
  <2> QED
    BY <1>1, <2>1 DEF Shut, closed
<1>6. Owned(heads', mine', use.records) /\ Opens(heads') = Opens(heads) \ G
  <2>1. /\ Owned(Shut(heads, Family(heads, h)), mine \ {h}, use.records)
        /\ Opens(Shut(heads, Family(heads, h))) = Opens(heads) \ Family(heads, h)
    BY <1>2, OwnedClosed
  <2> QED
    BY <1>1, <1>5, <2>1, Zenon DEF G
<1>7. hidm' \in Manager /\ Accounts(hidm', {0, 1} \cup Opens(heads'))
  <2>1. closed \in Seq(H)
    <3>1. G \subseteq H
      BY <1>4
    <3> QED
      BY <1>3, <3>1, ListWithin
  <2>2. \A i, j \in 1 .. Len(closed) : closed[i] = closed[j] => i = j
    BY <1>3 DEF Lists
  <2>3. {closed[i] : i \in 1 .. Len(closed)} = G
    BY <1>3, ListFacts
  <2>4. hidm \in Manager /\ Accounts(hidm, H)
    BY DEF Sound
  <2> HIDE DEF H
  <2>5. hidm' \in Manager /\ Accounts(hidm', H \ {closed[i] : i \in 1 .. Len(closed)})
    BY <1>1, <2>1, <2>2, <2>4, DelAllAccounts DEF closed
  <2>6. H \ G = {0, 1} \cup Opens(heads')
    BY <1>2, <1>4, <1>6 DEF H
  <2> QED
    BY <2>3, <2>5, <2>6
<1>8. \A x \in mine' : heads'[x].map = heads[x].map
  <2> SUFFICES ASSUME NEW x \in mine \ {h} PROVE Shut(heads, G)[x].map = heads[x].map
    BY <1>1, <1>5
  <2>1. x \notin G /\ x \in Handles
    BY <1>2, <1>4
  <2> QED
    BY <2>1 DEF Shut
<1>9. ASSUME NEW f \in Files PROVE Lists(ids'[f], OfFile(heads', mine', f))
  <2> DEFINE S == OfFile(heads, mine, f)
  <2>1. Lists(ids[f], S) /\ S \subseteq Nat
    BY <1>2 DEF Sound, ListedIn, OfFile
  <2>2. Lists(Unlisted(f, closed), S \ {x \in G : InFile(x, f)})
    <3> HIDE DEF S
    <3> QED
      BY <1>2, <1>3, <1>4, <2>1, UnlistedListed
  <2>3. S \ {x \in G : InFile(x, f)} = OfFile(heads', mine', f)
    <3>1. \A x \in S : x \in G => x = h
      BY <1>4 DEF OfFile
    <3>2. \A x \in mine : x = h => x \in G
      BY <1>4
    <3>3. S \ {x \in G : InFile(x, f)} = OfFile(heads, mine \ {h}, f)
      BY <3>1, <3>2 DEF OfFile, InFile
    <3>4. OfFile(heads, mine \ {h}, f) = OfFile(heads', mine', f)
      BY <1>1, <1>8 DEF OfFile
    <3> QED
      BY <3>3, <3>4
  <2>4. ids'[f] = Unlisted(f, closed)
    BY <1>1 DEF closed
  <2> HIDE DEF S
  <2> QED
    BY <2>2, <2>3, <2>4
<1>10. ListedIn(heads', mine', ids', files)
  <2>1. \A f \in Files : ids'[f] \in Seq(Handles)
    <3> SUFFICES ASSUME NEW f \in Files PROVE ids'[f] \in Seq(Handles)
      OBVIOUS
    <3>1. OfFile(heads', mine', f) \subseteq Handles
      BY <1>1, <1>2 DEF OfFile
    <3> QED
      BY <1>9, <3>1, ListWithin
  <2>2. ids' \in [Files -> Seq(Handles)]
    <3>1. ids' = [f \in Files |-> ids'[f]]
      BY <1>1
    <3> QED
      BY <2>1, <3>1
  <2>3. files \in Seq(Files)
    BY DEF Sound, ListedIn
  <2>4. \A x \in mine' : heads'[x].map # NONE => Contains(files, FileOf[heads'[x].map])
    BY <1>1, <1>8 DEF Sound, ListedIn
  <2> QED
    BY <1>9, <2>2, <2>3, <2>4 DEF ListedIn
<1>11. UNCHANGED <<use, files, dbs, mdbs, disk>>
  BY DEF Close
<1> QED
  BY <1>6, <1>7, <1>10, <1>11 DEF Sound

(* A map that is opened is listed for its file. *)
Preceded(list, f, h) == [list EXCEPT ![f] = <<h>> \o @]

Joined(opened, f) == IF Contains(opened, f) THEN opened ELSE Append(opened, f)

LEMMA ListedOpened ==
    ASSUME NEW hs, NEW M, NEW list, NEW opened, ListedIn(hs, M, list, opened),
           NEW h \in Handles, h \notin M, M \subseteq Handles,
           NEW new, NEW map \in Maps, NONE \notin Maps,
           new[h].map = map, \A x \in M : new[x].map = hs[x].map
    PROVE  ListedIn(new, M \cup {h}, Preceded(list, FileOf[map], h), Joined(opened, FileOf[map]))
<1> DEFINE f == FileOf[map]
           all == Joined(opened, f)
           lists == Preceded(list, f, h)
           N == M \cup {h}
<1>1. f \in Files /\ list \in [Files -> Seq(Handles)] /\ opened \in Seq(Files)
  BY FileTyped DEF ListedIn
<1>2. map # NONE
  OBVIOUS
<1> HIDE DEF f
<1>3. /\ OfFile(new, N, f) = {h} \cup OfFile(hs, M, f)
      /\ \A g \in Files : g # f => OfFile(new, N, g) = OfFile(hs, M, g)
  BY <1>2 DEF OfFile, f
<1>4. /\ lists \in [Files -> Seq(Handles)] /\ lists[f] = <<h>> \o list[f]
      /\ \A g \in Files : g # f => lists[g] = list[g]
  <2> DEFINE one == <<h>> \o list[f]
  <2>1. one \in Seq(Handles)
    BY <1>1
  <2>2. lists = [list EXCEPT ![f] = one]
    BY DEF Preceded
  <2> HIDE DEF one, lists
  <2>3. lists \in [Files -> Seq(Handles)] /\ lists[f] = one
        /\ \A g \in Files : g # f => lists[g] = list[g]
    BY <1>1, <2>1, <2>2
  <2> QED
    BY <2>3 DEF one
<1> HIDE DEF lists
<1>5. ASSUME NEW g \in Files PROVE Lists(lists[g], OfFile(new, N, g))
  <2>1. Lists(list[g], OfFile(hs, M, g))
    BY DEF ListedIn
  <2>2. CASE g = f
    <3>1. {h} \cap OfFile(hs, M, f) = {}
      BY DEF OfFile
    <3>2. Lists(<<h>> \o list[f], {h} \cup OfFile(hs, M, f))
      BY <2>1, <2>2, <3>1, OneListed, ListsJoin
    <3> QED
      BY <1>3, <1>4, <2>2, <3>2, Zenon
  <2>3. CASE g # f
    BY <1>3, <1>4, <2>1, <2>3, Zenon
  <2> QED
    BY <2>2, <2>3
<1>6. all \in Seq(Files) /\ Contains(all, f) /\ \A g : Contains(opened, g) => Contains(all, g)
  <2>1. CASE Contains(opened, f)
    <3>1. all = opened
      BY <2>1 DEF Joined
    <3> QED
      BY <1>1, <2>1, <3>1
  <2>2. CASE ~Contains(opened, f)
    <3>1. all = Append(opened, f)
      BY <2>2 DEF Joined
    <3> HIDE DEF all
    <3>2. /\ all \in Seq(Files) /\ Len(all) = Len(opened) + 1 /\ all[Len(opened) + 1] = f
          /\ \A i \in 1 .. Len(opened) : all[i] = opened[i]
      BY <1>1, <3>1
    <3>3. Len(opened) \in Nat
      BY <1>1
    <3> QED
      BY <3>2, <3>3 DEF Contains
  <2> QED
    BY <2>1, <2>2
<1> HIDE DEF all
<1>7. \A x \in N : new[x].map # NONE => Contains(all, FileOf[new[x].map])
  <2>1. \A x \in M : hs[x].map # NONE => Contains(opened, FileOf[hs[x].map])
    BY DEF ListedIn
  <2> QED
    BY <1>6, <2>1 DEF f
<1>8. ListedIn(new, N, lists, all)
  BY <1>4, <1>5, <1>6, <1>7 DEF ListedIn
<1> QED
  BY <1>8 DEF lists, all, f

(* Only h gets another map. *)
Takes(hs, new, h, map) ==
    new[h].map = map /\ \A x \in Handles : x # h => new[x].map = hs[x].map

LEMMA OpenedOwned ==
    ASSUME NEW hs, NEW M, NEW R, Owned(hs, M, R), NEW h \in Handles, h \notin Opens(hs),
           NEW map \in Maps \cup {NONE}, NEW rec \in R \cup {0}, rec \in Nat
    PROVE  /\ Owned(Opened(hs, h, map, rec), M \cup {h}, R)
           /\ Opens(Opened(hs, h, map, rec)) = Opens(hs) \cup {h}
           /\ Takes(hs, Opened(hs, h, map, rec), h, map)
<1> DEFINE head == Fresh(hs, h, map, rec)
<1>1. hs \in [Handles -> HeadRec]
  BY DEF Owned
<1>2. /\ Opened(hs, h, map, rec) = [hs EXCEPT ![h] = head] /\ head \in HeadRec
      /\ head.open /\ head.phd = h /\ head.linked = <<>> /\ head.private = NoPrivate
      /\ head.record \in R \cup {0} /\ head.map = map
  BY <1>1, FreshTyped
<1> HIDE DEF head
<1>3. /\ Owned(Placed(hs, h, head), M \cup {h}, R)
      /\ Opens(Placed(hs, h, head)) = Opens(hs) \cup {h}
  <2>1. /\ head \in HeadRec
        /\ head.open /\ head.phd = h /\ head.linked = <<>> /\ head.private = NoPrivate
        /\ head.record \in R \cup {0}
    BY <1>2
  <2> QED
    BY <2>1, OwnedOpened
<1>4. Takes(hs, Placed(hs, h, head), h, map)
  BY <1>1, <1>2 DEF Placed, Takes
<1>5. Opened(hs, h, map, rec) = Placed(hs, h, head)
  BY <1>2 DEF Placed
<1> QED
  BY <1>3, <1>4, <1>5

(* The heads once a map is opened, and loaded if it is kept in a file. *)
Opening(h, map, rec) ==
    IF map = NONE THEN Opened(heads, h, map, rec)
      ELSE Loaded(Opened(heads, h, map, rec), <<h>> \o ids[FileOf[map]],
                  disk[FileOf[map]], DbOf[map])

CanOpen(map, rec, h) ==
    /\ map \in Maps \cup {NONE} /\ rec \in use.records \cup {0} /\ rec \in Nat
    /\ h \in Handles /\ h \notin Opens(heads)

LEMMA OpeningOwned ==
    ASSUME Sound, NEW map, NEW rec, NEW h, CanOpen(map, rec, h)
    PROVE  /\ Owned(Opening(h, map, rec), mine \cup {h}, use.records)
           /\ Opens(Opening(h, map, rec)) = Opens(heads) \cup {h}
           /\ Takes(heads, Opening(h, map, rec), h, map)
<1> DEFINE opened == Opened(heads, h, map, rec)
           loaded == Opening(h, map, rec)
           f == FileOf[map]
           listed == <<h>> \o ids[f]
<1>0. /\ map \in Maps \cup {NONE} /\ rec \in use.records \cup {0} /\ rec \in Nat
      /\ h \in Handles /\ h \notin Opens(heads)
  BY DEF CanOpen
<1>1. Owned(heads, mine, use.records)
  BY DEF Sound
<1>2. /\ Owned(opened, mine \cup {h}, use.records)
      /\ Opens(opened) = Opens(heads) \cup {h}
      /\ Takes(heads, opened, h, map)
  BY <1>0, <1>1, OpenedOwned
<1>3. opened \in [Handles -> HeadRec]
  BY <1>2, OpensHandles
<1> HIDE DEF opened
<1>4. PICK S : Filled(opened, loaded, S)
  <2>1. CASE map = NONE
    <3>1. loaded = opened
      BY <2>1 DEF Opening, opened
    <3> QED
      BY <1>3, <3>1 DEF Filled
  <2>2. CASE map # NONE
    <3>1. loaded = Loaded(opened, listed, disk[f], DbOf[map])
      BY <2>2 DEF Opening, opened
    <3>2. f \in Files
      BY <1>0, <2>2, FileTyped
    <3>3. listed \in Seq(Handles) /\ disk[f] \in Seq(Block)
      BY <1>0, <3>2 DEF Sound, ListedIn
    <3> HIDE DEF listed, loaded
    <3> QED
      BY <1>3, <3>1, <3>3, LoadedFills
  <2> QED
    BY <2>1, <2>2
<1> HIDE DEF loaded
<1>5. Owned(loaded, mine \cup {h}, use.records) /\ Opens(loaded) = Opens(opened)
  BY <1>2, <1>4, OwnedFilled
<1>6. \A x \in Handles : loaded[x].map = opened[x].map
  BY <1>4 DEF Filled
<1>7. Takes(heads, loaded, h, map)
  BY <1>0, <1>2, <1>6 DEF Takes
<1> QED
  BY <1>2, <1>5, <1>7 DEF loaded

(* The next handle is opened as a mirror. *)
Mirroring(hs, h, mirror) ==
    Linked([hs EXCEPT ![mirror] = Allocated(@, mirror)], mirror, h)

LEMMA MirroringOwned ==
    ASSUME NEW hs, NEW M, NEW R, Owned(hs, M, R), NEW h \in M,
           NEW mirror \in Handles, mirror \notin Opens(hs)
    PROVE  /\ Owned(Mirroring(hs, h, mirror), M, R)
           /\ Opens(Mirroring(hs, h, mirror)) = Opens(hs) \cup {mirror}
           /\ \A x \in M : /\ Mirroring(hs, h, mirror)[x].map = hs[x].map
                           /\ Mirroring(hs, h, mirror)[x].vals = hs[x].vals
<1> DEFINE head == Allocated(hs[mirror], mirror)
           both == [hs EXCEPT ![mirror] = head]
           N == M \cup {mirror}
<1>1. /\ hs \in [Handles -> HeadRec] /\ M \subseteq Opens(hs) /\ Opens(hs) \subseteq Handles
      /\ M \subseteq Handles /\ mirror \notin M
  BY DEF Owned, Opens
<1>2. /\ head \in HeadRec /\ head.open /\ head.phd = mirror /\ head.linked = <<>>
      /\ head.private = NoPrivate /\ head.record \in R \cup {0}
  <2> DEFINE old == hs[mirror]
  <2>1. old \in HeadRec /\ old.private = NoPrivate /\ old.record \in R \cup {0}
    BY <1>1 DEF Owned
  <2>2. Empty \in Contents /\ <<>> \in Seq(Handles)
    BY EmptyContents
  <2> HIDE DEF old
  <2>3. /\ Allocated(old, mirror) \in HeadRec /\ Allocated(old, mirror).open
        /\ Allocated(old, mirror).phd = mirror /\ Allocated(old, mirror).linked = <<>>
        /\ Allocated(old, mirror).private = old.private
        /\ Allocated(old, mirror).record = old.record
    BY <2>1, <2>2 DEF HeadRec, Allocated
  <2> QED
    BY <2>1, <2>3 DEF old
<1> HIDE DEF head
<1>3. Owned(both, N, R) /\ Opens(both) = Opens(hs) \cup {mirror}
  <2>1. /\ Owned(Placed(hs, mirror, head), N, R)
        /\ Opens(Placed(hs, mirror, head)) = Opens(hs) \cup {mirror}
    BY <1>2, OwnedOpened
  <2> QED
    BY <2>1, Zenon DEF Placed
<1>4. /\ both \in [Handles -> HeadRec] /\ both[mirror] = head
      /\ \A x \in Handles : x # mirror => both[x] = hs[x]
  BY <1>1, <1>2
<1>5. Mirroring(hs, h, mirror) = Linked(both, mirror, h)
  BY DEF Mirroring, head
<1> HIDE DEF both
<1>6. h \in N /\ mirror \in N /\ mirror # h /\ N \ {mirror} = M
  BY <1>1
<1>7. /\ Owned(Linked(both, mirror, h), N \ {mirror}, R)
      /\ Opens(Linked(both, mirror, h)) = Opens(both)
  <2>1. both[mirror].linked = <<>> /\ both[mirror].private = NoPrivate
    BY <1>2, <1>4
  <2> HIDE DEF N
  <2> QED
    BY <1>3, <1>6, <2>1, OwnedLinked
<1>8. \A x \in M : /\ Linked(both, mirror, h)[x].map = both[x].map
                   /\ Linked(both, mirror, h)[x].vals = both[x].vals
  BY <1>1, <1>4, <1>6, LinkedMaps
<1>9. \A x \in M : both[x].map = hs[x].map /\ both[x].vals = hs[x].vals
  BY <1>1, <1>4
<1> QED
  BY <1>3, <1>5, <1>6, <1>7, <1>8, <1>9, Zenon

(* What qmap_open does with a manager of the handles and a head for it. *)
Issues(m, mirrored) == IF mirrored THEN IdmNew(IdmNew(m)) ELSE IdmNew(m)

OpensAs(map, rec, mirrored, h, mirror) ==
    /\ h = IdmNewId(hidm) /\ mirror = IdmNewId(IdmNew(hidm))
    /\ map \in use.maps \cup {NONE} /\ MayOpen(map, rec, mirrored)
    /\ hidm' = Issues(hidm, mirrored) /\ hidm'.last <= LastHandle + 1
    /\ heads' = IF mirrored THEN Mirroring(Opening(h, map, rec), h, mirror)
                  ELSE Opening(h, map, rec)
    /\ mine' = mine \cup {h}
    /\ IF map = NONE THEN UNCHANGED <<files, ids, dbs, mdbs>>
         ELSE /\ mdbs' = Marked(map, h)
              /\ dbs' = IF DbOf[map] = NODB THEN dbs ELSE [dbs EXCEPT ![map] = h]
              /\ ids' = Preceded(ids, FileOf[map], h)
              /\ files' = Joined(files, FileOf[map])
    /\ UNCHANGED <<use, disk>>

(* The handles are issued in order when none was given back. *)
LEMMA IssuesAccounts ==
    ASSUME NEW m \in Manager, NEW H, Accounts(m, H), NEW mirrored \in BOOLEAN,
           mirrored => m.free = <<>>
    PROVE  LET h == IdmNewId(m)
               mirror == IdmNewId(IdmNew(m))
               T == IF mirrored THEN {h, mirror} ELSE {h}
           IN  /\ Issues(m, mirrored) \in Manager
               /\ h \in Nat /\ h \notin H /\ h < Issues(m, mirrored).last
               /\ Accounts(Issues(m, mirrored), H \cup T)
               /\ mirrored => /\ mirror = h + 1 /\ mirror \notin H
                              /\ mirror < Issues(m, mirrored).last
<1> DEFINE h == IdmNewId(m)
           one == IdmNew(m)
           mirror == IdmNewId(one)
<1>1. /\ one \in Manager /\ h \in Nat /\ h \notin H /\ Accounts(one, H \cup {h})
      /\ h < one.last
  BY NewAccounts
<1>2. CASE ~mirrored
  BY <1>1, <1>2 DEF Issues
<1>3. CASE mirrored
  <2>1. m.free = <<>> /\ one = [m EXCEPT !.last = @ + 1] /\ h = m.last
    BY <1>3 DEF IdmNew, IdmNewId
  <2>2. one.free = <<>> /\ one.last = m.last + 1
    BY <2>1 DEF Manager
  <2>3. mirror = h + 1
    BY <2>1, <2>2 DEF IdmNewId
  <2> HIDE DEF h, one, mirror
  <2>4. /\ IdmNew(one) \in Manager /\ IdmNewId(one) \notin H \cup {h}
        /\ Accounts(IdmNew(one), (H \cup {h}) \cup {IdmNewId(one)})
        /\ IdmNewId(one) < IdmNew(one).last
    BY <1>1, NewAccounts
  <2>5. (H \cup {h}) \cup {mirror} = H \cup {h, mirror}
    OBVIOUS
  <2>6. /\ IdmNew(one) \in Manager /\ mirror \notin H
        /\ Accounts(IdmNew(one), H \cup {h, mirror}) /\ mirror < IdmNew(one).last
    BY <2>4, <2>5, Zenon DEF mirror
  <2>7. Issues(m, mirrored) = IdmNew(one)
    BY <1>3 DEF Issues, one
  <2>8. IdmNew(one).last \in Nat
    BY <2>4 DEF Manager
  <2>9. h < IdmNew(one).last
    <3>1. h + 1 < IdmNew(one).last /\ h \in Nat
      BY <1>1, <2>3, <2>6
    <3> QED
      BY <2>8, <3>1
  <2> HIDE DEF h
  <2>10. /\ IdmNew(one) \in Manager /\ h \in Nat /\ h \notin H /\ h < IdmNew(one).last
         /\ Accounts(IdmNew(one), H \cup (IF mirrored THEN {h, mirror} ELSE {h}))
         /\ mirror = h + 1 /\ mirror \notin H /\ mirror < IdmNew(one).last
    BY <1>1, <1>3, <2>3, <2>6, <2>9
  <2> QED
    BY <2>7, <2>10 DEF h, mirror, one
<1> QED
  BY <1>2, <1>3

LEMMA OpenIsOpensAs ==
    ASSUME Sound, Open
    PROVE  \E map \in Maps \cup {NONE}, rec \in use.records \cup {0}, mirrored \in BOOLEAN :
              /\ rec \in Nat
              /\ OpensAs(map, rec, mirrored, IdmNewId(hidm), IdmNewId(IdmNew(hidm)))
<1>1. use.maps \subseteq Maps /\ use.records \subseteq Nat
  BY StoreAssumption DEF Sound
<1>2. PICK map \in use.maps \cup {NONE}, rec \in use.records \cup {0}, mirrored \in BOOLEAN :
    (LET h == IdmNewId(hidm)
        opened == Opened(heads, h, map, rec)
        loaded == IF map = NONE THEN opened
                  ELSE Loaded(opened, <<h>> \o ids[FileOf[map]], disk[FileOf[map]], DbOf[map])
        issued == IdmNew(hidm)
        mirror == IdmNewId(issued)
    IN  /\ MayOpen(map, rec, mirrored)
        /\ hidm' = IF mirrored THEN IdmNew(issued) ELSE issued
        /\ hidm'.last <= LastHandle + 1
        /\ heads' = IF mirrored
                      THEN Linked([loaded EXCEPT ![mirror] = Allocated(@, mirror)], h + 1, h)
                      ELSE loaded
        /\ mine' = mine \cup {h}
        /\ IF map = NONE THEN UNCHANGED <<files, ids, dbs, mdbs>> ELSE Enlisted(map, h)
        /\ UNCHANGED <<use, disk>>)
  BY Zenon DEF Open
<1> DEFINE h == IdmNewId(hidm)
           mirror == IdmNewId(IdmNew(hidm))
<1>3. mirrored => hidm.free = <<>> /\ rec = 0
  BY <1>2 DEF MayOpen
<1>4. mirrored => mirror = h + 1
  <2>1. hidm \in Manager /\ Accounts(hidm, {0, 1} \cup Opens(heads))
    BY DEF Sound
  <2> QED
    BY <1>3, <2>1, IssuesAccounts
<1>5. hidm' = Issues(hidm, mirrored) /\ hidm'.last <= LastHandle + 1
  BY <1>2 DEF Issues
<1>6. heads' = IF mirrored THEN Mirroring(Opening(h, map, rec), h, mirror)
                 ELSE Opening(h, map, rec)
  BY <1>2, <1>4 DEF Mirroring, Opening
<1>7. IF map = NONE THEN UNCHANGED <<files, ids, dbs, mdbs>>
        ELSE /\ mdbs' = Marked(map, h)
             /\ dbs' = IF DbOf[map] = NODB THEN dbs ELSE [dbs EXCEPT ![map] = h]
             /\ ids' = Preceded(ids, FileOf[map], h)
             /\ files' = Joined(files, FileOf[map])
  BY <1>2 DEF Enlisted, Preceded, Joined
<1>8. mine' = mine \cup {h} /\ UNCHANGED <<use, disk>>
  BY <1>2
<1>9. OpensAs(map, rec, mirrored, h, mirror)
  BY <1>2, <1>5, <1>6, <1>7, <1>8 DEF OpensAs
<1>10. map \in Maps \cup {NONE} /\ rec \in Nat
  BY <1>1
<1> QED
  BY <1>9, <1>10

LEMMA OpenSound ==
    ASSUME Sound, Open
    PROVE  Sound'
<1> DEFINE H == {0, 1} \cup Opens(heads)
           h == IdmNewId(hidm)
           mirror == IdmNewId(IdmNew(hidm))
<1>1. PICK map \in Maps \cup {NONE}, rec \in use.records \cup {0}, mirrored \in BOOLEAN :
           rec \in Nat /\ OpensAs(map, rec, mirrored, h, mirror)
  BY OpenIsOpensAs
<1>2. /\ h = IdmNewId(hidm) /\ mirror = IdmNewId(IdmNew(hidm))
      /\ mirrored => hidm.free = <<>> /\ rec = 0
      /\ hidm' = Issues(hidm, mirrored) /\ hidm'.last <= LastHandle + 1
      /\ heads' = IF mirrored THEN Mirroring(Opening(h, map, rec), h, mirror)
                    ELSE Opening(h, map, rec)
      /\ mine' = mine \cup {h}
      /\ UNCHANGED <<use, disk>>
  BY <1>1 DEF OpensAs, MayOpen
<1> DEFINE T == IF mirrored THEN {h, mirror} ELSE {h}
<1>3. /\ hidm' \in Manager /\ Accounts(hidm', H \cup T)
      /\ h \in Nat /\ h \notin H /\ h < hidm'.last
      /\ mirrored => mirror = h + 1 /\ mirror \notin H /\ mirror < hidm'.last
  <2>1. hidm \in Manager /\ Accounts(hidm, H)
    BY DEF Sound
  <2> HIDE DEF H
  <2> QED
    BY <1>2, <2>1, IssuesAccounts
<1> HIDE DEF h, mirror
<1>4. h \in Handles /\ (mirrored => mirror \in Handles /\ mirror # h)
  <2>1. hidm'.last \in Nat /\ LastHandle \in Nat
    BY <1>3, StoreAssumption DEF Manager
  <2>2. h >= 2
    BY <1>3
  <2> QED
    BY <1>2, <1>3, <2>1, <2>2 DEF Handles
<1>5. /\ Owned(heads, mine, use.records) /\ mine \subseteq Opens(heads)
      /\ mine \subseteq Handles /\ h \notin Opens(heads)
  BY <1>3, OpensHandles DEF Sound, Owned
<1> DEFINE opening == Opening(h, map, rec)
<1>6. /\ Owned(opening, mine \cup {h}, use.records)
      /\ Opens(opening) = Opens(heads) \cup {h}
      /\ Takes(heads, opening, h, map)
  <2>1. CanOpen(map, rec, h)
    BY <1>1, <1>4, <1>5 DEF CanOpen
  <2> QED
    BY <2>1, OpeningOwned
<1> HIDE DEF opening
<1>7. /\ Owned(heads', mine', use.records) /\ Opens(heads') = Opens(heads) \cup T
      /\ \A x \in mine' : heads'[x].map = opening[x].map
  <2>1. CASE mirrored
    <3>1. mirror \in Handles /\ mirror \notin Opens(opening)
      BY <1>3, <1>4, <1>6, <2>1
    <3>2. h \in mine \cup {h}
      OBVIOUS
    <3>3. /\ Owned(Mirroring(opening, h, mirror), mine \cup {h}, use.records)
          /\ Opens(Mirroring(opening, h, mirror)) = Opens(opening) \cup {mirror}
          /\ \A x \in mine \cup {h} : /\ Mirroring(opening, h, mirror)[x].map = opening[x].map
                                     /\ Mirroring(opening, h, mirror)[x].vals = opening[x].vals
      BY <1>6, <3>1, <3>2, MirroringOwned
    <3>4. heads' = Mirroring(opening, h, mirror) /\ mine' = mine \cup {h}
      BY <1>2, <2>1 DEF opening
    <3>5. Opens(opening) \cup {mirror} = Opens(heads) \cup T
      BY <1>6, <2>1
    <3> HIDE DEF T
    <3> QED
      BY <3>3, <3>4, <3>5, Zenon
  <2>2. CASE ~mirrored
    <3>1. heads' = opening /\ mine' = mine \cup {h} /\ T = {h}
      BY <1>2, <2>2 DEF opening
    <3> QED
      BY <1>6, <3>1
  <2> QED
    BY <2>1, <2>2
<1>8. Accounts(hidm', {0, 1} \cup Opens(heads'))
  <2>1. H \cup T = {0, 1} \cup Opens(heads')
    BY <1>7
  <2> HIDE DEF H, T
  <2> QED
    BY <1>3, <2>1
<1>9. heads'[h].map = map /\ \A x \in mine : heads'[x].map = heads[x].map
  <2>1. \A x \in mine : x # h /\ x \in Handles
    BY <1>5
  <2> QED
    BY <1>2, <1>6, <1>7, <2>1 DEF Takes
<1>10. ListedIn(heads', mine', ids', files') /\ mdbs' \subseteq Handles
  <2>1. ListedIn(heads, mine, ids, files) /\ mdbs \subseteq Handles
    BY DEF Sound
  <2>2. CASE map = NONE
    <3>1. UNCHANGED <<files, ids, mdbs>>
      BY <1>1, <2>2 DEF OpensAs
    <3>2. \A f \in Files : OfFile(heads', mine', f) = OfFile(heads, mine, f)
      BY <1>2, <1>9, <2>2 DEF OfFile
    <3>3. \A x \in mine' : heads'[x].map # NONE => x \in mine /\ heads'[x].map = heads[x].map
      BY <1>2, <1>9, <2>2
    <3> QED
      BY <2>1, <3>1, <3>2, <3>3 DEF ListedIn
  <2>3. CASE map # NONE
    <3>1. /\ mdbs' = Marked(map, h) /\ ids' = Preceded(ids, FileOf[map], h)
          /\ files' = Joined(files, FileOf[map]) /\ map \in Maps /\ NONE \notin Maps
      BY <1>1, <2>3, StoreAssumption DEF OpensAs
    <3>2. h \notin mine
      BY <1>5
    <3>3. ListedIn(heads', mine \cup {h}, Preceded(ids, FileOf[map], h), Joined(files, FileOf[map]))
      BY <1>4, <1>5, <1>9, <2>1, <3>1, <3>2, ListedOpened
    <3>4. Marked(map, h) \subseteq Handles
      BY <1>4, <2>1 DEF Marked
    <3> QED
      BY <1>2, <3>1, <3>3, <3>4, Zenon
  <2> QED
    BY <2>2, <2>3
<1>11. use' = use /\ disk' = disk
  BY <1>2
<1> QED
  BY <1>3, <1>7, <1>8, <1>10, <1>11 DEF Sound

LEMMA NextSound ==
    ASSUME LastSpared, Sound, [Next]_vars
    PROVE  Sound'
<1>1. CASE Open
  BY <1>1, OpenSound
<1>2. CASE OpenRefused
  BY <1>2, RefusedSound
<1>3. CASE Assoc
  BY <1>3, AssocSound
<1>4. CASE OpenPrivate
  BY <1>4, PrivateSound
<1>5. CASE Write
  BY <1>5, WriteSound
<1>6. CASE Close
  BY <1>6, CloseSound
<1>7. CASE Save
  BY <1>7, SaveSound
<1>8. CASE Restart
  BY <1>8, RestartSound
<1>9. CASE UNCHANGED vars
  BY <1>9 DEF vars, Sound
<1> QED
  BY <1>1, <1>2, <1>3, <1>4, <1>5, <1>6, <1>7, <1>8, <1>9 DEF Next

(* qmap_open, qmap_close, qmap_assoc and the rest keep handles, links,     *)
(* private maps and the lists of the files in agreement.                   *)
THEOREM StaysSound ==
    ASSUME LastSpared
    PROVE  Spec => []Sound
<1>1. Init => Sound
  BY InitSound
<1>2. Sound /\ [Next]_vars => Sound'
  BY NextSound
<1> QED
  BY <1>1, <1>2, PTL DEF Spec

(* Every handle is open or free, once; heads, files and blocks are typed:  *)
(* idm_new and idm_del are called for each open and close.                 *)
THEOREM StoreTyped ==
    ASSUME LastSpared
    PROVE  Spec => []TypeOK
BY StaysSound, SoundIsTyped, PTL

(* The list a file is loaded and saved from has the maps of that file that *)
(* are open, each once (qmap_open adds to it, qmap_close takes out).       *)
THEOREM ListsOpen ==
    ASSUME LastSpared
    PROVE  Spec => []FilesListOpen
BY StaysSound, SoundListsOpen, PTL

(* A map and the maps linked to it name each other, and are open           *)
(* (qmap_assoc, mirrors, qmap_close of the primary).                       *)
THEOREM LinksLive ==
    ASSUME LastSpared
    PROVE  Spec => []LinksOpen
BY StaysSound, SoundLinks, PTL

(* What was opened with or for a map is closed with it: qmap_close leaves  *)
(* no handle that nobody has.                                              *)
THEOREM NoneLeaks ==
    ASSUME LastSpared
    PROVE  Spec => []NothingLeaks
BY StaysSound, SoundOwns, PTL

-----------------------------------------------------------------------------
(* Maps in files are durable *)

(* The client has one map of a file open at a time: one map in a file at   *)
(* all, or several it leaves open.  See Marked for why it leaves them.     *)
Alone == \A u \in Uses : u.together =>
    ~u.closes /\ \A m, n \in u.maps : FileOf[m] = FileOf[n] => m = n

(* The maps of a file are told apart by their database. *)
NamedApart == \A m, n \in Maps :
    FileOf[m] = FileOf[n] /\ m # n => DbOf[m] # DbOf[n] /\ DbOf[m] # NODB

(* what a map holds while it is open, and the copy in its file *)
MemoryOf(hs, M, m) ==
    LET at == {h \in M : hs[h].map = m}
    IN  IF at = {} THEN NONE ELSE hs[CHOOSE h \in at : TRUE].vals

CopyOf(dk, m) ==
    LET blocks == dk[FileOf[m]]
        at == {i \in DOMAIN blocks : blocks[i].db = DbOf[m]}
    IN  IF at = {} THEN Empty ELSE blocks[Min(at)].vals

LEMMA MemoryAt ==
    ASSUME NEW hs, NEW M, NEW m, NEW x \in M, hs[x].map = m,
           \A y \in M : hs[y].map = m => y = x
    PROVE  MemoryOf(hs, M, m) = hs[x].vals
<1> DEFINE at == {h \in M : hs[h].map = m}
<1>1. at = {x}
  OBVIOUS
<1>2. (CHOOSE h \in at : TRUE) = x /\ at # {}
  BY <1>1
<1> HIDE DEF at
<1>3. (IF at = {} THEN NONE ELSE hs[CHOOSE h \in at : TRUE].vals) = hs[x].vals
  BY <1>2
<1> QED
  BY <1>3 DEF MemoryOf, at

LEMMA MemoryNone ==
    ASSUME NEW hs, NEW M, NEW m, \A y \in M : hs[y].map # m
    PROVE  MemoryOf(hs, M, m) = NONE
BY DEF MemoryOf

(* What a map holds does not change when its handle and entries do not. *)
LEMMA MemorySame ==
    ASSUME NEW hs, NEW M, NEW new, NEW N, NEW m,
           \A x \in M : hs[x].map = m => x \in N,
           \A x \in N : new[x].map = m => x \in M,
           \A x \in M \cap N : new[x].map = hs[x].map /\ (hs[x].map = m => new[x].vals = hs[x].vals)
    PROVE  MemoryOf(new, N, m) = MemoryOf(hs, M, m)
<1> DEFINE at == {h \in M : hs[h].map = m}
           later == {h \in N : new[h].map = m}
<1>1. later = at /\ \A h \in at : new[h].vals = hs[h].vals
  OBVIOUS
<1>2. at # {} => (CHOOSE h \in at : TRUE) \in at
  OBVIOUS
<1> HIDE DEF at, later
<1>3. (IF later = {} THEN NONE ELSE new[CHOOSE h \in later : TRUE].vals)
        = (IF at = {} THEN NONE ELSE hs[CHOOSE h \in at : TRUE].vals)
  BY <1>1, <1>2
<1> QED
  BY <1>3 DEF MemoryOf, at, later

(* A file has at most one block, of one of its databases. *)
Short(f, blocks) ==
    /\ blocks \in Seq(Block) /\ Len(blocks) \in {0, 1}
    /\ Len(blocks) = 1 => \E m \in Maps : FileOf[m] = f /\ blocks[1].db = DbOf[m]

LEMMA ShortCopy ==
    ASSUME NEW dk, NEW m \in Maps, Short(FileOf[m], dk[FileOf[m]])
    PROVE  LET blocks == dk[FileOf[m]]
           IN  /\ CopyOf(dk, m) = IF Len(blocks) = 1 /\ blocks[1].db = DbOf[m]
                                    THEN blocks[1].vals ELSE Empty
               /\ CopyOf(dk, m) \in Contents
<1> DEFINE blocks == dk[FileOf[m]]
           at == {i \in DOMAIN blocks : blocks[i].db = DbOf[m]}
<1>1. blocks \in Seq(Block) /\ Len(blocks) \in {0, 1} /\ DOMAIN blocks = 1 .. Len(blocks)
  BY DEF Short
<1>2. CopyOf(dk, m) = IF at = {} THEN Empty ELSE blocks[Min(at)].vals
  BY DEF CopyOf
<1> HIDE DEF blocks
<1>3. CASE Len(blocks) = 1 /\ blocks[1].db = DbOf[m]
  <2>1. at = {1}
    BY <1>1, <1>3
  <2>2. Min(at) \in at
    BY <2>1, MinIsLeast
  <2>3. CopyOf(dk, m) = blocks[1].vals
    BY <1>2, <2>1, <2>2
  <2>4. blocks[1] \in Block
    BY <1>1, <1>3
  <2>5. blocks[1].vals \in Contents
    BY <2>4 DEF Block
  <2> QED
    BY <1>3, <2>3, <2>5 DEF blocks
<1>4. CASE ~(Len(blocks) = 1 /\ blocks[1].db = DbOf[m])
  <2>1. at = {}
    BY <1>1, <1>4
  <2>2. CopyOf(dk, m) = Empty
    BY <1>2, <2>1
  <2> QED
    BY <1>4, <2>2, EmptyContents DEF blocks
<1> QED
  BY <1>3, <1>4

(* A map that is opened alone gets its copy. *)
LEMMA LoadedAlone ==
    ASSUME NamedApart, NEW hs \in [Handles -> HeadRec], NEW h \in Handles, hs[h].vals = Empty,
           NEW dk, NEW m \in Maps, Short(FileOf[m], dk[FileOf[m]])
    PROVE  Loaded(hs, <<h>>, dk[FileOf[m]], DbOf[m]) = Holding(hs, h, CopyOf(dk, m))
<1> DEFINE f == FileOf[m]
           blocks == dk[f]
           db == DbOf[m]
           copy == CopyOf(dk, m)
           listed == <<h>>
           first == Start(hs)
<1>1. blocks \in Seq(Block) /\ Len(blocks) \in {0, 1} /\ DOMAIN blocks = 1 .. Len(blocks)
  BY DEF Short
<1>2. copy = IF Len(blocks) = 1 /\ blocks[1].db = db THEN blocks[1].vals ELSE Empty
  BY ShortCopy
<1>3. listed \in Seq(Handles) /\ Len(listed) = 1 /\ listed[1] = h
  OBVIOUS
<1>4. first.hs = hs /\ first.at = 1
  BY DEF Start
<1>5. Loaded(hs, listed, blocks, db) = ReadBlock(first, h, blocks, db).hs
  <2> HIDE DEF blocks, db, listed, first
  <2>1. PICK g : Reads(g, hs, listed, blocks, db)
    BY <1>1, <1>3, LoadedBy
  <2>2. g[0] = first /\ g[1] = ReadBlock(g[1 - 1], listed[1], blocks, db)
    BY <1>3, <2>1 DEF Reads, first
  <2>3. Loaded(hs, listed, blocks, db) = g[1].hs
    BY <1>3, <2>1 DEF Reads
  <2> QED
    BY <1>3, <2>2, <2>3
<1>6. hs = Holding(hs, h, Empty)
  BY DEF HeadRec, Holding
<1> HIDE DEF copy, first, listed
<1>7. CASE Len(blocks) = 1 /\ blocks[1].db = db
  <2>1. Merged(Empty, blocks[1]) = blocks[1].vals
    <3>1. blocks[1] \in Block
      BY <1>1, <1>7
    <3>2. blocks[1].vals \in [Keys -> Vals \cup {NULL}]
      BY <3>1 DEF Block, Contents
    <3> QED
      BY <3>2 DEF Merged, Empty
  <2>2. ReadBlock(first, h, blocks, db).hs = [hs EXCEPT ![h].vals = Merged(@, blocks[1])]
    <3> DEFINE new == [first.hs EXCEPT ![h].vals = Merged(@, blocks[first.at])]
    <3>1. first.at \in DOMAIN blocks /\ blocks[first.at].db = db
      BY <1>1, <1>4, <1>7
    <3>2. ReadBlock(first, h, blocks, db) = [hs |-> new, at |-> first.at + 1]
      BY <3>1 DEF ReadBlock
    <3>3. new = [hs EXCEPT ![h].vals = Merged(@, blocks[1])]
      <4> HIDE DEF blocks
      <4> QED
        BY <1>4, Zenon
    <3> HIDE DEF new
    <3>4. ReadBlock(first, h, blocks, db).hs = new
      BY <3>2
    <3> QED
      BY <3>3, <3>4, Zenon
  <2>3. [hs EXCEPT ![h].vals = Merged(@, blocks[1])] = Holding(hs, h, Merged(Empty, blocks[1]))
    BY DEF Holding
  <2>4. copy = blocks[1].vals
    BY <1>2, <1>7
  <2> HIDE DEF blocks, db
  <2> QED
    BY <1>5, <2>1, <2>2, <2>3, <2>4, Zenon DEF listed, copy, blocks, f, db
<1>8. CASE ~(Len(blocks) = 1 /\ blocks[1].db = db)
  <2>1. copy = Empty
    BY <1>2, <1>8
  <2>2. ASSUME Len(blocks) = 1 PROVE db # NODB
    <3>1. PICK n \in Maps : FileOf[n] = f /\ blocks[1].db = DbOf[n]
      BY <2>2 DEF Short
    <3> QED
      BY <1>8, <2>2, <3>1 DEF NamedApart
  <2>3. ReadBlock(first, h, blocks, db).hs = hs
    <3>1. CASE Len(blocks) = 0
      BY <1>1, <1>4, <3>1 DEF ReadBlock
    <3>2. CASE Len(blocks) = 1
      BY <1>1, <1>4, <1>8, <2>2, <3>2 DEF ReadBlock
    <3> QED
      BY <1>1, <3>1, <3>2
  <2> HIDE DEF blocks, db
  <2> QED
    BY <1>5, <1>6, <2>1, <2>3, Zenon DEF listed, copy, blocks, f, db
<1> QED
  BY <1>7, <1>8

(* The maps in files that the client has open: no two of one file, all of  *)
(* them to be saved.                                                       *)
Mapped(hs, M) == {x \in M : hs[x].map # NONE}

MapsHeld(u, hs, M, saves) == \A x \in Mapped(hs, M) :
    /\ x \in saves /\ hs[x].map \in u.maps
    /\ \A y \in Mapped(hs, M) :
          (~u.together \/ FileOf[hs[x].map] = FileOf[hs[y].map]) => x = y

(* The handle a map was opened with last is still its own. *)
LastHeld(u, hs, M, last) ==
    /\ last \in [Maps -> Handles \cup {0}]
    /\ u.together => \A m \in Maps : last[m] # 0 => last[m] \in M /\ hs[last[m]].map = m

Held ==
    /\ MapsHeld(use, heads, mine, mdbs)
    /\ LastHeld(use, heads, mine, dbs)
    /\ \A f \in Files : Short(f, disk[f])

LEMMA OpenedFresh ==
    ASSUME NEW hs \in [Handles -> HeadRec], NEW h \in Handles, NEW map \in Maps \cup {NONE},
           NEW rec \in Nat
    PROVE  /\ Opened(hs, h, map, rec) \in [Handles -> HeadRec]
           /\ Opened(hs, h, map, rec)[h].vals = Empty
           /\ \A x \in Handles : x # h => Opened(hs, h, map, rec)[x] = hs[x]
<1> DEFINE old == hs[h]
           all == Allocated(old, h)
           head == [all EXCEPT !.map = map, !.record = rec, !.private = NoPrivate]
<1>1. Opened(hs, h, map, rec) = [hs EXCEPT ![h] = head]
  BY DEF Opened
<1>2. old \in HeadRec
  OBVIOUS
<1> HIDE DEF old
<1>3. head.vals = Empty
  BY <1>2 DEF Allocated, HeadRec
<1>4. head \in HeadRec
  <2>1. head = Fresh(hs, h, map, rec)
    BY DEF Fresh, all, old
  <2> QED
    BY <2>1, FreshTyped
<1> HIDE DEF head
<1> QED
  BY <1>1, <1>3, <1>4

(* Opening a map loads it and changes no other map of the client's. *)
LEMMA OpeningAlone ==
    ASSUME Sound, Held, NamedApart, NEW map \in Maps \cup {NONE}, NEW rec \in Nat,
           NEW h \in Handles, map # NONE => OfFile(heads, mine, FileOf[map]) = {}
    PROVE  /\ \A x \in Handles : x # h => Opening(h, map, rec)[x] = heads[x]
           /\ map # NONE => Opening(h, map, rec)[h].vals = CopyOf(disk, map)
<1> DEFINE opened == Opened(heads, h, map, rec)
           loaded == Opening(h, map, rec)
           f == FileOf[map]
<1>1. heads \in [Handles -> HeadRec]
  BY DEF Sound, Owned
<1>2. /\ opened \in [Handles -> HeadRec] /\ opened[h].vals = Empty
      /\ \A x \in Handles : x # h => opened[x] = heads[x]
  BY <1>1, OpenedFresh
<1> HIDE DEF opened
<1>3. CASE map = NONE
  <2>1. loaded = opened
    BY <1>3 DEF Opening, opened
  <2> HIDE DEF loaded
  <2> QED
    BY <1>2, <1>3, <2>1 DEF loaded
<1>4. CASE map # NONE
  <2>1. f \in Files /\ map \in Maps
    BY <1>4, FileTyped
  <2>2. ids[f] = <<>>
    <3>1. Lists(ids[f], OfFile(heads, mine, f))
      BY <2>1 DEF Sound, ListedIn
    <3> QED
      BY <1>4, <3>1, ListFacts
  <2>3. <<h>> \o ids[f] = <<h>>
    BY <2>2
  <2>4. loaded = Loaded(opened, <<h>>, disk[f], DbOf[map])
    BY <1>4, <2>3 DEF Opening, opened
  <2>5. Short(f, disk[f])
    BY <2>1 DEF Held
  <2>6. loaded = Holding(opened, h, CopyOf(disk, map))
    <3> HIDE DEF loaded
    <3> QED
      BY <1>2, <2>1, <2>4, <2>5, LoadedAlone
  <2>7. Holding(opened, h, CopyOf(disk, map))[h].vals = CopyOf(disk, map)
        /\ \A x \in Handles : x # h => Holding(opened, h, CopyOf(disk, map))[x] = opened[x]
    BY <1>2 DEF Holding, HeadRec
  <2> HIDE DEF loaded
  <2> QED
    BY <1>2, <2>6, <2>7 DEF loaded
<1> QED
  BY <1>3, <1>4

(* What opening a map means for the client's maps. *)
Gains(map, h) ==
    /\ map \in use.maps \cup {NONE} /\ h \in Handles \ mine
    /\ map # NONE => \A x \in mine : /\ heads[x].map # map
                                     /\ use.together \/ heads[x].map = NONE
    /\ mine' = mine \cup {h} /\ heads'[h].map = map
    /\ \A x \in mine : heads'[x].map = heads[x].map /\ heads'[x].vals = heads[x].vals
    /\ IF map = NONE THEN UNCHANGED <<files, dbs, mdbs>>
         ELSE /\ heads'[h].vals = CopyOf(disk, map)
              /\ mdbs' = Marked(map, h) /\ files' = Joined(files, FileOf[map])
              /\ dbs' = IF DbOf[map] = NODB THEN dbs ELSE [dbs EXCEPT ![map] = h]
    /\ UNCHANGED <<use, disk>>

(* A map is opened while no map of its file is open. *)
LEMMA NoOther ==
    ASSUME Sound, Held, Alone, NEW map \in use.maps, map # NONE,
           \A x \in mine : heads[x].map # map /\ (use.together \/ heads[x].map = NONE)
    PROVE  OfFile(heads, mine, FileOf[map]) = {}
<1> SUFFICES ASSUME NEW x \in mine, heads[x].map # NONE, FileOf[heads[x].map] = FileOf[map]
             PROVE  FALSE
  BY DEF OfFile
<1>1. use \in Uses /\ use.together /\ heads[x].map # map
  BY DEF Sound
<1>2. heads[x].map \in use.maps
  BY DEF Held, MapsHeld, Mapped
<1> QED
  BY <1>1, <1>2 DEF Alone

LEMMA OpenGains ==
    ASSUME Sound, Held, Alone, NamedApart, Open
    PROVE  \E map, h : Gains(map, h)
<1> DEFINE h == IdmNewId(hidm)
           mirror == IdmNewId(IdmNew(hidm))
           H == {0, 1} \cup Opens(heads)
<1>1. PICK map \in Maps \cup {NONE}, rec \in use.records \cup {0}, mirrored \in BOOLEAN :
           rec \in Nat /\ OpensAs(map, rec, mirrored, h, mirror)
  BY OpenIsOpensAs
<1>2. /\ map \in use.maps \cup {NONE} /\ MayOpen(map, rec, mirrored)
      /\ hidm' = Issues(hidm, mirrored) /\ hidm'.last <= LastHandle + 1
      /\ heads' = IF mirrored THEN Mirroring(Opening(h, map, rec), h, mirror)
                    ELSE Opening(h, map, rec)
      /\ mine' = mine \cup {h}
      /\ IF map = NONE THEN UNCHANGED <<files, ids, dbs, mdbs>>
           ELSE /\ mdbs' = Marked(map, h)
                /\ dbs' = IF DbOf[map] = NODB THEN dbs ELSE [dbs EXCEPT ![map] = h]
                /\ ids' = Preceded(ids, FileOf[map], h)
                /\ files' = Joined(files, FileOf[map])
      /\ UNCHANGED <<use, disk>>
  BY <1>1, Zenon DEF OpensAs
<1>3. /\ h \in Nat /\ h \notin H /\ h < hidm'.last /\ hidm'.last \in Nat
      /\ mirrored => mirror = h + 1 /\ mirror \notin H /\ mirror < hidm'.last
  <2>1. hidm \in Manager /\ Accounts(hidm, H) /\ (mirrored => hidm.free = <<>>)
    BY <1>2 DEF Sound, MayOpen
  <2> HIDE DEF H
  <2>2. /\ h \in Nat /\ h \notin H /\ h < hidm'.last /\ hidm' \in Manager
        /\ mirrored => mirror = h + 1 /\ mirror \notin H /\ mirror < hidm'.last
    BY <1>2, <2>1, IssuesAccounts
  <2> QED
    BY <2>2 DEF Manager
<1> HIDE DEF h, mirror
<1>4. h \in Handles /\ (mirrored => mirror \in Handles /\ mirror # h)
  <2>1. h >= 2 /\ LastHandle \in Nat
    BY <1>3, StoreAssumption
  <2> QED
    BY <1>2, <1>3, <2>1 DEF Handles
<1>5. /\ Owned(heads, mine, use.records) /\ mine \subseteq Opens(heads)
      /\ mine \subseteq Handles /\ h \notin Opens(heads) /\ h \notin mine
  BY <1>3, OpensHandles DEF Sound, Owned
<1>6. map # NONE => /\ \A x \in mine : heads[x].map # map /\ (use.together \/ heads[x].map = NONE)
                    /\ OfFile(heads, mine, FileOf[map]) = {}
  <2>1. ASSUME map # NONE
        PROVE  \A x \in mine : heads[x].map # map /\ (use.together \/ heads[x].map = NONE)
    BY <1>2, <2>1 DEF MayOpen
  <2>2. map # NONE => map \in use.maps
    BY <1>2
  <2> QED
    BY <2>1, <2>2, NoOther
<1> DEFINE opening == Opening(h, map, rec)
<1>7. /\ Owned(opening, mine \cup {h}, use.records)
      /\ Opens(opening) = Opens(heads) \cup {h}
      /\ Takes(heads, opening, h, map)
  <2>1. CanOpen(map, rec, h)
    BY <1>1, <1>4, <1>5 DEF CanOpen
  <2> QED
    BY <2>1, OpeningOwned
<1>8. /\ \A x \in Handles : x # h => opening[x] = heads[x]
      /\ map # NONE => opening[h].vals = CopyOf(disk, map)
  BY <1>1, <1>4, <1>6, OpeningAlone
<1> HIDE DEF opening
<1>9. \A x \in mine \cup {h} : heads'[x].map = opening[x].map /\ heads'[x].vals = opening[x].vals
  <2>1. CASE mirrored
    <3>1. mirror \in Handles /\ mirror \notin Opens(opening) /\ h \in mine \cup {h}
      BY <1>3, <1>4, <1>7, <2>1
    <3>2. \A x \in mine \cup {h} : /\ Mirroring(opening, h, mirror)[x].map = opening[x].map
                                   /\ Mirroring(opening, h, mirror)[x].vals = opening[x].vals
      BY <1>7, <3>1, MirroringOwned
    <3>3. heads' = Mirroring(opening, h, mirror)
      BY <1>2, <2>1 DEF opening
    <3> QED
      BY <3>2, <3>3
  <2>2. CASE ~mirrored
    BY <1>2, <2>2 DEF opening
  <2> QED
    BY <2>1, <2>2
<1>10. \A x \in mine : heads'[x].map = heads[x].map /\ heads'[x].vals = heads[x].vals
  BY <1>5, <1>8, <1>9
<1>11. /\ heads'[h].map = map
       /\ map # NONE => heads'[h].vals = CopyOf(disk, map)
  BY <1>7, <1>8, <1>9 DEF Takes
<1>12. Gains(map, h)
  BY <1>2, <1>4, <1>5, <1>6, <1>10, <1>11 DEF Gains
<1> QED
  BY <1>12

(* the client's maps in files, and what they hold *)
Memory(hs, M) == [m \in Maps |-> MemoryOf(hs, M, m)]
Copies(dk) == [m \in Maps |-> CopyOf(dk, m)]

LEMMA InitHeld ==
    ASSUME Init
    PROVE  Held
<1>1. mine = {} /\ dbs = [m \in Maps |-> 0] /\ disk = [f \in Files |-> <<>>]
  BY DEF Init, FreshDbs
<1>2. MapsHeld(use, heads, mine, mdbs) /\ LastHeld(use, heads, mine, dbs)
  BY <1>1 DEF MapsHeld, LastHeld, Mapped
<1>3. \A f \in Files : Short(f, disk[f])
  <2>1. <<>> \in Seq(Block) /\ Len(<<>>) = 0
    OBVIOUS
  <2> QED
    BY <1>1, <2>1 DEF Short
<1> QED
  BY <1>2, <1>3 DEF Held

LEMMA OpenHeld ==
    ASSUME Sound, Held, Alone, NamedApart, Open
    PROVE  Held'
<1>1. PICK map, h : Gains(map, h)
  BY OpenGains
<1>2. /\ map \in use.maps \cup {NONE} /\ h \in Handles /\ h \notin mine
      /\ map # NONE => \A x \in mine : /\ heads[x].map # map
                                       /\ use.together \/ heads[x].map = NONE
      /\ mine' = mine \cup {h} /\ heads'[h].map = map
      /\ \A x \in mine : heads'[x].map = heads[x].map
      /\ use' = use /\ disk' = disk
  BY <1>1 DEF Gains
<1>3. use \in Uses /\ use.maps \subseteq Maps /\ NONE \notin Maps
  BY StoreAssumption DEF Sound
<1>4. MapsHeld(use, heads, mine, mdbs) /\ LastHeld(use, heads, mine, dbs)
      /\ \A f \in Files : Short(f, disk[f])
  BY DEF Held
<1>5. CASE map = NONE
  <2>1. mdbs' = mdbs /\ dbs' = dbs
    BY <1>1, <1>5 DEF Gains
  <2>2. Mapped(heads', mine') = Mapped(heads, mine)
    BY <1>2, <1>5 DEF Mapped
  <2>3. MapsHeld(use, heads', mine', mdbs)
    BY <1>2, <1>4, <2>2 DEF MapsHeld, Mapped
  <2>4. LastHeld(use, heads', mine', dbs)
    BY <1>2, <1>4 DEF LastHeld
  <2> QED
    BY <1>2, <1>4, <2>1, <2>3, <2>4 DEF Held
<1>6. CASE map # NONE
  <2>1. /\ mdbs' = Marked(map, h)
        /\ dbs' = IF DbOf[map] = NODB THEN dbs ELSE [dbs EXCEPT ![map] = h]
        /\ map \in use.maps /\ map \in Maps
    BY <1>1, <1>2, <1>3, <1>6 DEF Gains
  <2>2. Mapped(heads', mine') = Mapped(heads, mine) \cup {h}
    BY <1>2, <1>6 DEF Mapped
  <2>3. \A x \in Mapped(heads, mine) : FileOf[heads[x].map] # FileOf[map] /\ use.together
    <3>1. OfFile(heads, mine, FileOf[map]) = {}
      BY <1>2, <1>6, <2>1, NoOther
    <3> QED
      BY <1>2, <1>6, <3>1 DEF OfFile, Mapped
  <2>4. \A x \in Mapped(heads, mine) : x \in Marked(map, h)
    <3> SUFFICES ASSUME NEW x \in Mapped(heads, mine) PROVE x \in Marked(map, h)
      OBVIOUS
    <3>1. x \in mdbs /\ use.together /\ x \in mine /\ x \in Handles
      BY <1>4, <2>3, OpensHandles DEF MapsHeld, Mapped, Sound
    <3>2. dbs[map] # x
      <4>1. x # 0
        BY <3>1, OpensHandles DEF Sound
      <4>2. dbs[map] # 0 => heads[dbs[map]].map = map
        BY <1>4, <2>1, <3>1 DEF LastHeld
      <4>3. heads[x].map # map
        BY <1>2, <1>6, <3>1
      <4> QED
        BY <4>1, <4>2, <4>3
    <3> QED
      BY <3>1, <3>2 DEF Marked
  <2>5. MapsHeld(use, heads', mine', mdbs')
    <3> SUFFICES ASSUME NEW x \in Mapped(heads, mine) \cup {h}
                 PROVE  /\ x \in mdbs' /\ heads'[x].map \in use.maps
                        /\ \A y \in Mapped(heads, mine) \cup {h} :
                              (~use.together \/ FileOf[heads'[x].map] = FileOf[heads'[y].map])
                              => x = y
      BY <2>2 DEF MapsHeld
    <3>1. \A y \in Mapped(heads, mine) : /\ heads'[y].map = heads[y].map
                                         /\ heads[y].map \in use.maps
      BY <1>2, <1>4 DEF Mapped, MapsHeld
    <3>2. CASE x = h
      BY <1>2, <2>1, <2>3, <3>1, <3>2 DEF Marked
    <3>3. CASE x \in Mapped(heads, mine)
      BY <1>2, <1>4, <2>1, <2>3, <2>4, <3>1, <3>3 DEF MapsHeld
    <3> QED
      BY <3>2, <3>3
  <2>6. LastHeld(use, heads', mine', dbs')
    <3>1. dbs \in [Maps -> Handles \cup {0}]
      BY <1>4 DEF LastHeld
    <3>2. dbs' \in [Maps -> Handles \cup {0}]
      BY <1>2, <2>1, <3>1
    <3>3. ASSUME use.together, NEW m \in Maps, dbs'[m] # 0
          PROVE  dbs'[m] \in mine' /\ heads'[dbs'[m]].map = m
      <4>1. CASE dbs'[m] = dbs[m]
        BY <1>2, <1>4, <3>3, <4>1 DEF LastHeld
      <4>2. CASE m = map /\ dbs'[m] = h
        BY <1>2, <4>2
      <4> QED
        BY <2>1, <3>1, <4>1, <4>2
    <3> QED
      BY <3>2, <3>3 DEF LastHeld
  <2> QED
    BY <1>2, <1>4, <2>5, <2>6 DEF Held
<1> QED
  BY <1>5, <1>6

(* A map stays in its file and keeps its entries. *)
Alike(hs, new, x) == new[x].map = hs[x].map /\ new[x].vals = hs[x].vals

LEMMA AssocKeeps ==
    ASSUME Sound, Assoc
    PROVE  \E h \in mine : /\ heads[h].map = NONE /\ mine' = mine \ {h}
                           /\ \A x \in mine : Alike(heads, heads', x)
<1>1. PICK h \in mine, p \in mine :
        h # p /\ heads[h].map = NONE /\ heads' = Linked(heads, h, p) /\ mine' = mine \ {h}
  BY DEF Assoc
<1>2. heads \in [Handles -> HeadRec] /\ mine \subseteq Handles
  BY OpensHandles DEF Sound
<1>3. \A x \in mine : Alike(heads, heads', x)
  BY <1>1, <1>2, LinkedMaps DEF Alike
<1> QED
  BY <1>1, <1>3

LEMMA PrivateKeeps ==
    ASSUME Sound, OpenPrivate
    PROVE  \A x \in mine : Alike(heads, heads', x)
<1> DEFINE p == IdmNewId(hidm)
<1>1. PICK h \in mine, which \in {"inv", "vstr"} :
        /\ heads[h].record > 0 /\ heads[h].private[which] = 0 /\ p <= LastHandle
        /\ heads' = Given(heads, h, which, p)
  BY DEF OpenPrivate, Given
<1>2. p \in Nat /\ p \notin {0, 1} \cup Opens(heads)
  BY NewAccounts DEF Sound
<1>3. p \in Handles /\ p \notin Opens(heads)
  BY <1>1, <1>2, StoreAssumption DEF Handles
<1>4. Owned(heads, mine, use.records) /\ mine \subseteq Handles /\ mine \subseteq Opens(heads)
  BY OpensHandles DEF Sound, Owned
<1> HIDE DEF p
<1>5. /\ Owned(heads', mine, use.records)
      /\ \A x \in Handles : x # p => heads'[x].map = heads[x].map /\ heads'[x].vals = heads[x].vals
  <2>1. heads[h].record # 0
    BY <1>1
  <2> QED
    BY <1>1, <1>3, <1>4, <2>1, OwnedPrivate
<1> QED
  BY <1>3, <1>4, <1>5 DEF Alike

LEMMA WriteKeeps ==
    ASSUME Sound, Write
    PROVE  \E h \in mine, c \in Contents :
              /\ heads[h].map # NONE /\ heads'[h].map = heads[h].map /\ heads'[h].vals = c
              /\ \A x \in mine : x # h => Alike(heads, heads', x)
<1>1. PICK h \in mine, k \in Keys, v \in Vals \cup {NULL} :
          heads[h].map # NONE /\ heads' = [heads EXCEPT ![h].vals[k] = v]
  BY DEF Write
<1> DEFINE vals == [heads[h].vals EXCEPT ![k] = v]
<1>2. mine \subseteq Handles /\ heads \in [Handles -> HeadRec]
  BY OpensHandles DEF Sound
<1>3. vals \in Contents
  <2>1. heads[h].vals \in Contents
    BY <1>2 DEF HeadRec
  <2> QED
    BY <2>1 DEF Contents
<1>4. heads' = [heads EXCEPT ![h].vals = vals]
  BY <1>1
<1> HIDE DEF vals
<1>5. heads'[h].map = heads[h].map /\ heads'[h].vals = vals
  BY <1>2, <1>4 DEF HeadRec
<1>6. \A x \in mine : x # h => Alike(heads, heads', x)
  BY <1>2, <1>4 DEF Alike
<1> QED
  BY <1>1, <1>3, <1>5, <1>6

LEMMA CloseKeeps ==
    ASSUME LastSpared, Sound, Close
    PROVE  \E h \in mine : /\ use.closes /\ mine' = mine \ {h}
                           /\ \A x \in mine \ {h} : Alike(heads, heads', x)
<1>1. PICK h \in mine :
        /\ use.closes /\ mine' = mine \ {h}
        /\ heads' = [x \in Handles |-> IF Contains(Those(ClosedWith(h), Live), x)
                                         THEN Closed(heads[x]) ELSE heads[x]]
  BY DEF Close
<1>2. Owned(heads, mine, use.records) /\ use \in Uses /\ mine \subseteq Handles
  BY OpensHandles DEF Sound
<1>3. Lists(Those(ClosedWith(h), Live), Family(heads, h))
  BY <1>2, ClosedListed
<1>4. Family(heads, h) \cap mine = {h}
  BY <1>2, FamilyApart
<1>5. \A x \in mine \ {h} : ~Contains(Those(ClosedWith(h), Live), x)
  BY <1>3, <1>4, ListFacts
<1>6. \A x \in mine \ {h} : Alike(heads, heads', x)
  BY <1>1, <1>2, <1>5 DEF Alike
<1> QED
  BY <1>1, <1>6

(* The client's maps in files may become fewer. *)
LEMMA HeldKept ==
    ASSUME NEW u, NEW hs, NEW M, NEW saves, NEW last,
           MapsHeld(u, hs, M, saves), LastHeld(u, hs, M, last),
           NEW new, NEW N, N \subseteq M, \A x \in N : new[x].map = hs[x].map,
           NONE \notin Maps, ~u.together \/ \A x \in M \ N : hs[x].map = NONE
    PROVE  MapsHeld(u, new, N, saves) /\ LastHeld(u, new, N, last)
<1>1. Mapped(new, N) \subseteq Mapped(hs, M)
  BY DEF Mapped
<1>2. MapsHeld(u, new, N, saves)
  BY <1>1 DEF MapsHeld, Mapped
<1>3. LastHeld(u, new, N, last)
  BY DEF LastHeld
<1> QED
  BY <1>2, <1>3

(* What is written for a file: a block for its map that is open, if any. *)
LEMMA SavedShort ==
    ASSUME Sound, Held, NEW f \in Files
    PROVE  /\ Short(f, SavedFile(f))
           /\ OfFile(heads, mine, f) = {} => Len(SavedFile(f)) = 0
           /\ \A h \in OfFile(heads, mine, f) :
                /\ Len(SavedFile(f)) = 1
                /\ SavedFile(f)[1].db = DbOf[heads[h].map]
                /\ SavedFile(f)[1].vals = heads[h].vals
<1> DEFINE kept == Those(ids[f], mdbs)
           S == OfFile(heads, mine, f)
           saved == SavedFile(f)
<1>1. saved \in Seq(Block)
  <2>1. SavedFiles({f}) \in [Files -> Seq(Block)]
    BY SavedTyped
  <2>2. SavedFiles({f})[f] = SavedFile(f)
    BY DEF SavedFiles
  <2> QED
    BY <2>1, <2>2
<1>2. S \cap mdbs = S
  BY DEF Held, MapsHeld, Mapped, OfFile
<1>3. Lists(kept, S)
  <2>1. Lists(ids[f], S)
    BY DEF Sound, ListedIn
  <2>2. Lists(kept, S \cap mdbs)
    <3> HIDE DEF S
    <3> QED
      BY <2>1, ThoseListed
  <2> QED
    BY <1>2, <2>2
<1>4. /\ saved = [i \in DOMAIN kept |-> [db |-> DbOf[heads[kept[i]].map],
                                        vals |-> heads[kept[i]].vals]]
      /\ DOMAIN kept = 1 .. Len(kept) /\ Len(kept) \in Nat
  BY <1>3 DEF SavedFile, Lists
<1> HIDE DEF kept, saved
<1>5. Len(saved) = Len(kept)
  BY <1>1, <1>4
<1>6. CASE S = {}
  <2>1. kept = <<>>
    BY <1>3, <1>6, ListFacts
  <2>2. Len(saved) = 0
    BY <1>5, <2>1
  <2> QED
    BY <1>1, <1>6, <2>2 DEF saved, Short
<1>7. ASSUME NEW h \in S
      PROVE  /\ Len(saved) = 1 /\ saved[1].db = DbOf[heads[h].map]
             /\ saved[1].vals = heads[h].vals
  <2>1. S = {h}
    BY DEF Held, MapsHeld, Mapped, OfFile
  <2>2. Len(kept) = 1 /\ kept[1] = h
    <3>1. /\ \A i \in 1 .. Len(kept) : kept[i] = h
          /\ \A i, j \in 1 .. Len(kept) : kept[i] = kept[j] => i = j
          /\ \E i \in 1 .. Len(kept) : kept[i] = h
      BY <1>3, <2>1 DEF Lists
    <3>2. Len(kept) >= 1
      BY <1>4, <3>1
    <3>3. 1 \in 1 .. Len(kept) /\ Len(kept) \in 1 .. Len(kept)
      BY <1>4, <3>2
    <3> QED
      BY <3>1, <3>3
  <2> QED
    BY <1>4, <1>5, <2>2
<1>8. CASE S # {}
  <2>1. PICK h : h \in S
    BY <1>8
  <2>2. heads[h].map \in Maps /\ FileOf[heads[h].map] = f
    <3>1. h \in mine /\ heads[h].map # NONE
      BY <2>1 DEF OfFile
    <3>2. h \in Handles
      BY <3>1, OpensHandles DEF Sound
    <3> QED
      BY <2>1, <3>1, <3>2, OpensHandles DEF Sound, OfFile
  <2>3. Short(f, saved)
    BY <1>1, <1>7, <2>1, <2>2 DEF Short
  <2> QED
    BY <1>7, <1>8, <2>3 DEF saved
<1> QED
  BY <1>6, <1>8

LEMMA SavedFilesShort ==
    ASSUME Sound, Held, NEW fs
    PROVE  \A f \in Files : Short(f, SavedFiles(fs)[f])
<1> SUFFICES ASSUME NEW f \in Files PROVE Short(f, SavedFiles(fs)[f])
  OBVIOUS
<1>1. SavedFiles(fs)[f] = IF f \in fs THEN SavedFile(f) ELSE disk[f]
  BY DEF SavedFiles
<1>2. Short(f, SavedFile(f)) /\ Short(f, disk[f])
  BY SavedShort DEF Held
<1> QED
  BY <1>1, <1>2

LEMMA NextHeld ==
    ASSUME LastSpared, Alone, NamedApart, Sound, Held, [Next]_vars
    PROVE  Held'
<1>1. /\ MapsHeld(use, heads, mine, mdbs) /\ LastHeld(use, heads, mine, dbs)
      /\ \A f \in Files : Short(f, disk[f])
      /\ NONE \notin Maps /\ use \in Uses
  BY StoreAssumption DEF Held, Sound
<1>2. CASE Open
  BY <1>2, OpenHeld
<1>3. CASE OpenRefused
  BY <1>3 DEF OpenRefused, Held
<1>4. CASE Assoc
  <2>1. PICK h \in mine : /\ heads[h].map = NONE /\ mine' = mine \ {h}
                          /\ \A x \in mine : Alike(heads, heads', x)
    BY <1>4, AssocKeeps
  <2>2. /\ \A x \in mine' : heads'[x].map = heads[x].map /\ mine' \subseteq mine
        /\ \A x \in mine \ mine' : heads[x].map = NONE
    BY <2>1 DEF Alike
  <2>3. MapsHeld(use, heads', mine', mdbs) /\ LastHeld(use, heads', mine', dbs)
    BY <1>1, <2>1, <2>2, HeldKept
  <2>4. UNCHANGED <<use, dbs, mdbs, disk>>
    BY <1>4 DEF Assoc
  <2> QED
    BY <1>1, <2>3, <2>4 DEF Held
<1>5. CASE OpenPrivate
  <2>1. \A x \in mine : heads'[x].map = heads[x].map
    BY <1>5, PrivateKeeps DEF Alike
  <2>2. MapsHeld(use, heads', mine, mdbs) /\ LastHeld(use, heads', mine, dbs)
    BY <1>1, <2>1, HeldKept
  <2>3. UNCHANGED <<use, mine, dbs, mdbs, disk>>
    BY <1>5 DEF OpenPrivate
  <2> QED
    BY <1>1, <2>2, <2>3 DEF Held
<1>6. CASE Write
  <2>1. \A x \in mine : heads'[x].map = heads[x].map
    BY <1>6, WriteKeeps DEF Alike
  <2>2. MapsHeld(use, heads', mine, mdbs) /\ LastHeld(use, heads', mine, dbs)
    BY <1>1, <2>1, HeldKept
  <2>3. UNCHANGED <<use, mine, dbs, mdbs, disk>>
    BY <1>6 DEF Write
  <2> QED
    BY <1>1, <2>2, <2>3 DEF Held
<1>7. CASE Close
  <2>1. PICK h \in mine : /\ use.closes /\ mine' = mine \ {h}
                          /\ \A x \in mine \ {h} : Alike(heads, heads', x)
    BY <1>7, CloseKeeps
  <2>2. ~use.together /\ \A x \in mine' : heads'[x].map = heads[x].map
    BY <1>1, <2>1 DEF Alone, Alike
  <2>3. MapsHeld(use, heads', mine', mdbs) /\ LastHeld(use, heads', mine', dbs)
    BY <1>1, <2>1, <2>2, HeldKept
  <2>4. UNCHANGED <<use, dbs, mdbs, disk>>
    BY <1>7 DEF Close
  <2> QED
    BY <1>1, <2>3, <2>4 DEF Held
<1>8. CASE Save
  <2>1. \A f \in Files : Short(f, disk'[f])
    BY <1>8, SavedFilesShort DEF Save
  <2>2. UNCHANGED <<use, heads, mine, dbs, mdbs>>
    BY <1>8 DEF Save
  <2> QED
    BY <1>1, <2>1, <2>2 DEF Held
<1>9. CASE Restart
  <2>1. \A f \in Files : Short(f, disk'[f])
    BY <1>9, SavedFilesShort DEF Restart
  <2>2. mine' = {} /\ dbs' = [m \in Maps |-> 0]
    BY <1>9 DEF Restart, FreshDbs
  <2>3. MapsHeld(use', heads', mine', mdbs') /\ LastHeld(use', heads', mine', dbs')
    BY <2>2 DEF MapsHeld, LastHeld, Mapped
  <2> QED
    BY <2>1, <2>3 DEF Held
<1>10. CASE UNCHANGED vars
  BY <1>10 DEF vars, Held
<1> QED
  BY <1>2, <1>3, <1>4, <1>5, <1>6, <1>7, <1>8, <1>9, <1>10 DEF Next

-----------------------------------------------------------------------------
(* The steps as steps of DurableMaps *)

(* One map is opened. *)
MemoryOpened(m) ==
    /\ Memory(heads, mine)[m] = NONE
    /\ Memory(heads', mine') = [Memory(heads, mine) EXCEPT ![m] = Copies(disk)[m]]
    /\ Range(files') = Range(files) \cup {FileOf[m]}
    /\ Copies(disk') = Copies(disk)

MemoryWritten(m, c) ==
    /\ Memory(heads, mine)[m] # NONE
    /\ Memory(heads', mine') = [Memory(heads, mine) EXCEPT ![m] = c]
    /\ Copies(disk') = Copies(disk) /\ Range(files') = Range(files)

MemoryClosed(m) ==
    /\ Memory(heads, mine)[m] # NONE
    /\ Memory(heads', mine') = [Memory(heads, mine) EXCEPT ![m] = NONE]
    /\ Copies(disk') = Copies(disk) /\ Range(files') = Range(files)

MemoryKept ==
    /\ Memory(heads', mine') = Memory(heads, mine)
    /\ Copies(disk') = Copies(disk) /\ Range(files') = Range(files)

(* what a save of some files leaves *)
CopiesSaved(fs) == [m \in Maps |-> IF FileOf[m] \notin fs THEN Copies(disk)[m]
                                   ELSE IF Memory(heads, mine)[m] = NONE THEN Empty
                                   ELSE Memory(heads, mine)[m]]

(* A map in a file that is open holds what its head has. *)
LEMMA MemoryHeld ==
    ASSUME Sound, Held
    PROVE  /\ \A x \in mine : heads[x].map # NONE =>
                 /\ heads[x].map \in Maps
                 /\ Memory(heads, mine)[heads[x].map] = heads[x].vals
                 /\ heads[x].vals # NONE
           /\ \A m \in Maps : (\A x \in mine : heads[x].map # m) => Memory(heads, mine)[m] = NONE
<1>1. ASSUME NEW x \in mine, heads[x].map # NONE
      PROVE  /\ heads[x].map \in Maps
             /\ Memory(heads, mine)[heads[x].map] = heads[x].vals
             /\ heads[x].vals # NONE
  <2>1. x \in Handles /\ heads[x].map \in Maps
    BY <1>1, OpensHandles DEF Sound
  <2>2. \A y \in mine : heads[y].map = heads[x].map => y = x
    BY <1>1 DEF Held, MapsHeld, Mapped
  <2>3. MemoryOf(heads, mine, heads[x].map) = heads[x].vals
    BY <2>2, MemoryAt
  <2>4. heads[x] \in HeadRec
    BY <2>1 DEF Sound, Owned
  <2>5. heads[x].vals # NONE
    BY <2>4, StoreAssumption DEF HeadRec, Contents
  <2> QED
    BY <2>1, <2>3, <2>5 DEF Memory
<1>2. ASSUME NEW m \in Maps, \A x \in mine : heads[x].map # m
      PROVE  Memory(heads, mine)[m] = NONE
  BY <1>2, MemoryNone DEF Memory
<1> QED
  BY <1>1, <1>2

LEMMA JoinedRange ==
    ASSUME NEW opened \in Seq(Files), NEW f \in Files
    PROVE  Range(Joined(opened, f)) = Range(opened) \cup {f}
<1>1. CASE Contains(opened, f)
  BY <1>1 DEF Joined, Contains, Range
<1>2. CASE ~Contains(opened, f)
  <2> DEFINE all == Append(opened, f)
  <2>1. /\ Len(opened) \in Nat /\ DOMAIN opened = 1 .. Len(opened)
        /\ DOMAIN all = 1 .. Len(opened) + 1 /\ all[Len(opened) + 1] = f
        /\ \A i \in 1 .. Len(opened) : all[i] = opened[i]
    OBVIOUS
  <2>2. Joined(opened, f) = all
    BY <1>2 DEF Joined
  <2> HIDE DEF all
  <2>3. \A i \in 1 .. Len(opened) + 1 : i \in 1 .. Len(opened) \/ i = Len(opened) + 1
    BY <2>1
  <2>4. \A i \in 1 .. Len(opened) : i \in 1 .. Len(opened) + 1
    BY <2>1
  <2>5. Len(opened) + 1 \in 1 .. Len(opened) + 1
    BY <2>1
  <2> QED
    BY <2>1, <2>2, <2>3, <2>4, <2>5 DEF Range
<1> QED
  BY <1>1, <1>2

LEMMA MemoryFunction ==
    ASSUME NEW hs, NEW M, NEW new, NEW N, NEW m \in Maps, NEW c,
           MemoryOf(new, N, m) = c,
           \A n \in Maps : n # m => MemoryOf(new, N, n) = MemoryOf(hs, M, n)
    PROVE  Memory(new, N) = [Memory(hs, M) EXCEPT ![m] = c]
BY DEF Memory

LEMMA MemoryUnchanged ==
    ASSUME NEW hs, NEW M, NEW new, NEW N, N \subseteq M,
           \A x \in N : Alike(hs, new, x), \A x \in M \ N : hs[x].map \notin Maps
    PROVE  Memory(new, N) = Memory(hs, M)
<1>1. ASSUME NEW m \in Maps PROVE MemoryOf(new, N, m) = MemoryOf(hs, M, m)
  <2>1. /\ \A x \in M : hs[x].map = m => x \in N
        /\ \A x \in N : new[x].map = m => x \in M
        /\ \A x \in M \cap N : new[x].map = hs[x].map /\ (hs[x].map = m => new[x].vals = hs[x].vals)
    BY DEF Alike
  <2> QED
    BY <2>1, MemorySame
<1> QED
  BY <1>1 DEF Memory

LEMMA OpenRefines ==
    ASSUME Sound, Held, Alone, NamedApart, Open
    PROVE  MemoryKept \/ \E m \in Maps : MemoryOpened(m)
<1>1. PICK map, h : Gains(map, h)
  BY OpenGains
<1>2. /\ map \in use.maps \cup {NONE} /\ h \notin mine
      /\ map # NONE => \A x \in mine : heads[x].map # map
      /\ mine' = mine \cup {h} /\ heads'[h].map = map
      /\ \A x \in mine : heads'[x].map = heads[x].map /\ heads'[x].vals = heads[x].vals
      /\ disk' = disk
  BY <1>1 DEF Gains
<1>3. use.maps \subseteq Maps /\ NONE \notin Maps
  BY StoreAssumption DEF Sound
<1>4. ASSUME NEW m \in Maps, m # map
      PROVE  MemoryOf(heads', mine', m) = MemoryOf(heads, mine, m)
  <2>1. /\ \A x \in mine : heads[x].map = m => x \in mine'
        /\ \A x \in mine' : heads'[x].map = m => x \in mine
        /\ \A x \in mine \cap mine' : /\ heads'[x].map = heads[x].map
                                      /\ heads[x].map = m => heads'[x].vals = heads[x].vals
    BY <1>2, <1>4
  <2> QED
    BY <2>1, MemorySame
<1>5. CASE map = NONE
  <2>1. Memory(heads', mine') = Memory(heads, mine)
    BY <1>3, <1>4, <1>5 DEF Memory
  <2>2. files' = files
    BY <1>1, <1>5 DEF Gains
  <2> QED
    BY <1>2, <2>1, <2>2 DEF MemoryKept
<1>6. CASE map # NONE
  <2>1. map \in Maps /\ heads'[h].vals = CopyOf(disk, map) /\ files' = Joined(files, FileOf[map])
    BY <1>1, <1>2, <1>3, <1>6 DEF Gains
  <2>2. MemoryOf(heads', mine', map) = CopyOf(disk, map)
    <3>1. h \in mine' /\ \A y \in mine' : heads'[y].map = map => y = h
      BY <1>2, <1>6
    <3>2. heads'[h].map = map
      BY <1>2
    <3>3. MemoryOf(heads', mine', map) = heads'[h].vals
      BY <3>1, <3>2, MemoryAt
    <3> QED
      BY <2>1, <3>3
  <2>3. Memory(heads', mine') = [Memory(heads, mine) EXCEPT ![map] = CopyOf(disk, map)]
    BY <1>4, <2>1, <2>2, MemoryFunction
  <2>4. Copies(disk)[map] = CopyOf(disk, map)
    BY <2>1 DEF Copies
  <2>5. Memory(heads, mine)[map] = NONE
    BY <1>2, <1>6, <2>1, MemoryHeld
  <2>6. Range(files') = Range(files) \cup {FileOf[map]}
    <3>1. files \in Seq(Files) /\ FileOf[map] \in Files
      BY <2>1, FileTyped DEF Sound, ListedIn
    <3> QED
      BY <2>1, <3>1, JoinedRange
  <2>7. MemoryOpened(map)
    BY <1>2, <2>3, <2>4, <2>5, <2>6, Zenon DEF MemoryOpened
  <2> QED
    BY <2>1, <2>7
<1> QED
  BY <1>5, <1>6

LEMMA AssocRefines ==
    ASSUME Sound, Assoc
    PROVE  MemoryKept
<1>1. PICK h \in mine : /\ heads[h].map = NONE /\ mine' = mine \ {h}
                        /\ \A x \in mine : Alike(heads, heads', x)
  BY AssocKeeps
<1>2. /\ mine' \subseteq mine /\ \A x \in mine' : Alike(heads, heads', x)
      /\ \A x \in mine \ mine' : heads[x].map \notin Maps
  BY <1>1, StoreAssumption
<1>3. Memory(heads', mine') = Memory(heads, mine)
  BY <1>2, MemoryUnchanged
<1> QED
  BY <1>3 DEF Assoc, MemoryKept

LEMMA PrivateRefines ==
    ASSUME Sound, OpenPrivate
    PROVE  MemoryKept
<1>1. mine' = mine /\ \A x \in mine : Alike(heads, heads', x)
  BY PrivateKeeps DEF OpenPrivate
<1>2. Memory(heads', mine) = Memory(heads, mine)
  BY <1>1, MemoryUnchanged
<1> QED
  BY <1>1, <1>2 DEF OpenPrivate, MemoryKept

LEMMA WriteRefines ==
    ASSUME Sound, Held, Write
    PROVE  \E m \in Maps, c \in Contents : MemoryWritten(m, c)
<1>1. PICK h \in mine, c \in Contents :
         /\ heads[h].map # NONE /\ heads'[h].map = heads[h].map /\ heads'[h].vals = c
         /\ \A x \in mine : x # h => Alike(heads, heads', x)
  BY WriteKeeps
<1>2. UNCHANGED <<mine, disk, files>>
  BY DEF Write
<1> DEFINE m == heads[h].map
<1>3. /\ m \in Maps /\ Memory(heads, mine)[m] # NONE
      /\ \A y \in mine : heads[y].map = m => y = h
  <2>1. m \in Maps /\ Memory(heads, mine)[m] # NONE
    BY <1>1, MemoryHeld
  <2>2. \A y \in mine : heads[y].map = m => y = h
    BY <1>1 DEF Held, MapsHeld, Mapped
  <2> QED
    BY <2>1, <2>2
<1>4. MemoryOf(heads', mine, m) = c
  <2>1. heads'[h].map = m /\ \A y \in mine : heads'[y].map = m => y = h
    BY <1>1, <1>3 DEF Alike
  <2> QED
    BY <1>1, <2>1, MemoryAt
<1>5. ASSUME NEW n \in Maps, n # m
      PROVE  MemoryOf(heads', mine, n) = MemoryOf(heads, mine, n)
  <2>1. \A x \in mine : /\ heads'[x].map = heads[x].map
                        /\ heads[x].map = n => heads'[x].vals = heads[x].vals
    BY <1>1, <1>5 DEF Alike
  <2> QED
    BY <2>1, MemorySame
<1> HIDE DEF m
<1>6. Memory(heads', mine) = [Memory(heads, mine) EXCEPT ![m] = c]
  BY <1>3, <1>4, <1>5, MemoryFunction
<1>7. MemoryWritten(m, c)
  BY <1>2, <1>3, <1>6 DEF MemoryWritten
<1> QED
  BY <1>3, <1>7

LEMMA CloseRefines ==
    ASSUME LastSpared, Sound, Held, Close
    PROVE  MemoryKept \/ \E m \in Maps : MemoryClosed(m)
<1>1. PICK h \in mine : /\ mine' = mine \ {h}
                        /\ \A x \in mine \ {h} : Alike(heads, heads', x)
  BY CloseKeeps
<1>2. UNCHANGED <<disk, files>>
  BY DEF Close
<1>3. CASE heads[h].map = NONE
  <2>1. /\ mine' \subseteq mine /\ \A x \in mine' : Alike(heads, heads', x)
        /\ \A x \in mine \ mine' : heads[x].map \notin Maps
    BY <1>1, <1>3, StoreAssumption
  <2>2. Memory(heads', mine') = Memory(heads, mine)
    BY <2>1, MemoryUnchanged
  <2> QED
    BY <1>2, <2>2 DEF MemoryKept
<1>4. CASE heads[h].map # NONE
  <2> DEFINE m == heads[h].map
  <2>1. m \in Maps /\ Memory(heads, mine)[m] # NONE
    BY <1>4, MemoryHeld
  <2>2. \A y \in mine : heads[y].map = m => y = h
    BY <1>4 DEF Held, MapsHeld, Mapped
  <2>3. MemoryOf(heads', mine', m) = NONE
    <3>1. \A y \in mine' : heads'[y].map # m
      BY <1>1, <2>2 DEF Alike
    <3> QED
      BY <3>1, MemoryNone
  <2>4. ASSUME NEW n \in Maps, n # m
        PROVE  MemoryOf(heads', mine', n) = MemoryOf(heads, mine, n)
    <3>1. /\ \A x \in mine : heads[x].map = n => x \in mine'
          /\ \A x \in mine' : heads'[x].map = n => x \in mine
          /\ \A x \in mine \cap mine' : /\ heads'[x].map = heads[x].map
                                        /\ heads[x].map = n => heads'[x].vals = heads[x].vals
      BY <1>1, <2>4 DEF Alike
    <3> QED
      BY <3>1, MemorySame
  <2> HIDE DEF m
  <2>5. Memory(heads', mine') = [Memory(heads, mine) EXCEPT ![m] = NONE]
    BY <2>1, <2>3, <2>4, MemoryFunction
  <2>6. MemoryClosed(m)
    BY <1>2, <2>1, <2>5 DEF MemoryClosed
  <2> QED
    BY <2>1, <2>6
<1> QED
  BY <1>3, <1>4

(* A save copies what is open and drops what is not. *)
LEMMA SavedCopies ==
    ASSUME Sound, Held, NamedApart, NEW fs
    PROVE  Copies(SavedFiles(fs)) = CopiesSaved(fs)
<1> SUFFICES ASSUME NEW m \in Maps
             PROVE  Copies(SavedFiles(fs))[m] = CopiesSaved(fs)[m]
  BY DEF Copies, CopiesSaved
<1> DEFINE f == FileOf[m]
           dk == SavedFiles(fs)
<1>1. /\ f \in Files /\ Short(f, dk[f])
      /\ dk[f] = IF f \in fs THEN SavedFile(f) ELSE disk[f]
  BY FileTyped, SavedFilesShort DEF SavedFiles
<1>2. Copies(dk)[m] = CopyOf(dk, m) /\ Copies(disk)[m] = CopyOf(disk, m)
  BY DEF Copies
<1>3. CopyOf(dk, m) = IF Len(dk[f]) = 1 /\ dk[f][1].db = DbOf[m] THEN dk[f][1].vals ELSE Empty
  BY <1>1, ShortCopy
<1>4. CopiesSaved(fs)[m] = IF f \notin fs THEN Copies(disk)[m]
                           ELSE IF Memory(heads, mine)[m] = NONE THEN Empty
                           ELSE Memory(heads, mine)[m]
  BY DEF CopiesSaved
<1>5. CASE f \notin fs
  <2>1. dk[f] = disk[f]
    BY <1>1, <1>5
  <2>2. CopyOf(dk, m) = CopyOf(disk, m)
    <3> HIDE DEF dk
    <3> QED
      BY <2>1 DEF CopyOf
  <2> QED
    BY <1>2, <1>4, <1>5, <2>2
<1>6. CASE f \in fs
  <2>1. dk[f] = SavedFile(f)
    BY <1>1, <1>6
  <2> HIDE DEF dk, f
  <2>2. CASE \E x \in mine : heads[x].map = m
    <3>1. PICK x \in mine : heads[x].map = m
      BY <2>2
    <3>2. m # NONE /\ x \in OfFile(heads, mine, f)
      BY <3>1, StoreAssumption DEF OfFile, f
    <3>3. Memory(heads, mine)[m] = heads[x].vals /\ heads[x].vals # NONE
      BY <3>1, <3>2, MemoryHeld
    <3>4. Len(SavedFile(f)) = 1 /\ SavedFile(f)[1].db = DbOf[m]
          /\ SavedFile(f)[1].vals = heads[x].vals
      BY <1>1, <3>1, <3>2, SavedShort
    <3> QED
      BY <1>2, <1>3, <1>4, <1>6, <2>1, <3>3, <3>4 DEF dk, f
  <2>3. CASE \A x \in mine : heads[x].map # m
    <3>1. Memory(heads, mine)[m] = NONE
      BY <2>3, MemoryHeld
    <3>2. ~(Len(SavedFile(f)) = 1 /\ SavedFile(f)[1].db = DbOf[m])
      <4>1. CASE OfFile(heads, mine, f) = {}
        BY <1>1, <4>1, SavedShort
      <4>2. ASSUME NEW x \in OfFile(heads, mine, f)
            PROVE  SavedFile(f)[1].db # DbOf[m]
        <5>1. x \in mine /\ heads[x].map # NONE /\ FileOf[heads[x].map] = f
          BY DEF OfFile
        <5>2. heads[x].map \in Maps /\ heads[x].map # m
          BY <2>3, <5>1, MemoryHeld
        <5>3. DbOf[heads[x].map] # DbOf[m]
          BY <5>1, <5>2 DEF NamedApart, f
        <5> QED
          BY <1>1, <5>3, SavedShort
      <4> QED
        BY <4>1, <4>2
    <3> QED
      BY <1>2, <1>3, <1>4, <1>6, <2>1, <3>1, <3>2 DEF dk, f
  <2> QED
    BY <2>2, <2>3
<1> QED
  BY <1>5, <1>6

(* Stopping forgets what is open; some of the files may have been saved. *)
LEMMA RestartRefines ==
    ASSUME Sound, Held, NamedApart, Restart
    PROVE  \E fs \in SUBSET Range(files) :
             /\ Copies(disk') = CopiesSaved(fs)
             /\ Memory(heads', mine') = [m \in Maps |-> NONE] /\ Range(files') = {}
<1>1. PICK n \in 0 .. Len(files) : disk' = SavedFiles({files[i] : i \in 1 .. n})
  BY DEF Restart
<1> DEFINE fs == {files[i] : i \in 1 .. n}
<1>2. fs \subseteq Range(files)
  <2>1. files \in Seq(Files)
    BY DEF Sound, ListedIn
  <2>2. DOMAIN files = 1 .. Len(files) /\ 1 .. n \subseteq 1 .. Len(files)
    BY <2>1
  <2> QED
    BY <2>2 DEF Range
<1>3. disk' = SavedFiles(fs)
  BY <1>1
<1> HIDE DEF fs
<1>4. Copies(disk') = CopiesSaved(fs)
  BY <1>3, SavedCopies
<1>5. Memory(heads', mine') = [m \in Maps |-> NONE]
  BY DEF Restart, Memory, MemoryOf
<1>6. Range(files') = {}
  BY DEF Restart, Range
<1> QED
  BY <1>2, <1>4, <1>5, <1>6

LEMMA InitRefines ==
    ASSUME Init
    PROVE  /\ Memory(heads, mine) = [m \in Maps |-> NONE]
           /\ Copies(disk) = [m \in Maps |-> Empty] /\ Range(files) = {}
<1>1. Memory(heads, mine) = [m \in Maps |-> NONE]
  BY DEF Init, Memory, MemoryOf
<1>2. ASSUME NEW m \in Maps PROVE CopyOf(disk, m) = Empty
  <2>1. disk[FileOf[m]] = <<>>
    BY FileTyped DEF Init
  <2> QED
    BY <2>1 DEF CopyOf
<1>3. Range(files) = {}
  BY DEF Init, Range
<1> QED
  BY <1>1, <1>2, <1>3 DEF Copies

(* The refinement mapping, in the words of these proofs *)
LEMMA Mapping ==
    /\ [m \in Maps |-> InMemory(m)] = Memory(heads, mine)
    /\ [m \in Maps |-> SavedCopy(m)] = Copies(disk)
    /\ [m \in Maps |-> InMemory(m)]' = Memory(heads', mine')
    /\ [m \in Maps |-> SavedCopy(m)]' = Copies(disk')
<1>1. \A m : InMemory(m) = MemoryOf(heads, mine, m) /\ SavedCopy(m) = CopyOf(disk, m)
  BY DEF InMemory, MemoryOf, SavedCopy, CopyOf
<1>2. \A m : InMemory(m)' = MemoryOf(heads', mine', m) /\ SavedCopy(m)' = CopyOf(disk', m)
  BY DEF InMemory, MemoryOf, SavedCopy, CopyOf
<1> QED
  BY <1>1, <1>2 DEF Memory, Copies

(* What a map in a file held at the last save is what it is opened with,   *)
(* whatever was opened, closed or saved in between and wherever the        *)
(* program was stopped: of two files also between the saving of one and of *)
(* the other (qmap_save, qmap_load_file, qmap_destruct).                   *)
THEOREM MapsDurable ==
    ASSUME LastSpared, Alone, NamedApart
    PROVE  Spec => ImplementsDurable
<1> DEFINE mem == [m \in Maps |-> InMemory(m)]
           saved == [m \in Maps |-> SavedCopy(m)]
           used == Range(files)
<1>1. Init => Durable!Init
  BY InitRefines, Mapping DEF Durable!Init
<1>2. Sound /\ Held /\ [Next]_vars => [Durable!Next]_<<mem, saved, used>>
  <2> SUFFICES ASSUME Sound, Held, [Next]_vars
               PROVE  Durable!Next \/ UNCHANGED <<mem, saved, used>>
    OBVIOUS
  <2>1. ASSUME MemoryKept PROVE UNCHANGED <<mem, saved, used>>
    BY <2>1, Mapping DEF MemoryKept
  <2>2. ASSUME NEW m \in Maps, MemoryOpened(m) PROVE Durable!Next
    <3>1. Durable!Open
      BY <2>2, Mapping DEF Durable!Open, MemoryOpened
    <3> QED
      BY <3>1 DEF Durable!Next
  <2>3. CASE Open
    BY <2>1, <2>2, <2>3, OpenRefines
  <2>4. CASE OpenRefused \/ UNCHANGED vars
    BY <2>1, <2>4 DEF OpenRefused, vars, MemoryKept
  <2>5. CASE Assoc
    BY <2>1, <2>5, AssocRefines
  <2>6. CASE OpenPrivate
    BY <2>1, <2>6, PrivateRefines
  <2>7. CASE Write
    <3>1. PICK m \in Maps, c \in Contents : MemoryWritten(m, c)
      BY <2>7, WriteRefines
    <3>2. Durable!Write
      BY <3>1, Mapping DEF Durable!Write, MemoryWritten, Contents
    <3> QED
      BY <3>2 DEF Durable!Next
  <2>8. CASE Close
    <3>1. CASE MemoryKept
      BY <2>1, <3>1
    <3>2. ASSUME NEW m \in Maps, MemoryClosed(m) PROVE Durable!Next
      <4>1. Durable!Close
        BY <3>2, Mapping DEF Durable!Close, MemoryClosed
      <4> QED
        BY <4>1 DEF Durable!Next
    <3> QED
      BY <2>8, <3>1, <3>2, CloseRefines
  <2>9. CASE Save
    <3>1. /\ Copies(disk') = CopiesSaved(Range(files))
          /\ UNCHANGED <<heads, mine, files>>
      BY <2>9, SavedCopies DEF Save
    <3>2. Durable!Save
      BY <3>1, Mapping DEF Durable!Save, Durable!Copied, CopiesSaved
    <3> QED
      BY <3>2 DEF Durable!Next
  <2>10. CASE Restart
    <3>1. PICK fs \in SUBSET Range(files) :
             /\ Copies(disk') = CopiesSaved(fs)
             /\ Memory(heads', mine') = [m \in Maps |-> NONE] /\ Range(files') = {}
      BY <2>10, RestartRefines
    <3>2. Durable!Restart
      BY <3>1, Mapping DEF Durable!Restart, Durable!Copied, CopiesSaved
    <3> QED
      BY <3>2 DEF Durable!Next
  <2> QED
    BY <2>3, <2>4, <2>5, <2>6, <2>7, <2>8, <2>9, <2>10 DEF Next
<1>3. Init => Held
  BY InitHeld
<1>4. Sound /\ Held /\ [Next]_vars => Held'
  BY NextHeld
<1>5. Spec => []Sound
  BY StaysSound
<1> QED
  BY <1>1, <1>2, <1>3, <1>4, <1>5, PTL DEF Spec, ImplementsDurable, Durable!Spec

-----------------------------------------------------------------------------
(* Module Idm: the manager that issues the handles, and every other id,    *)
(* keeps its invariants and implements IdAllocator, for every number of    *)
(* ids.                                                                    *)

(* The inductive invariant: Compact needs that peak bounds the number of   *)
(* ids held, because an id is issued beyond last only when all are held.   *)
IdInv ==
    /\ IdTypeOK
    /\ Partition
    /\ Compact
    /\ grants = Cardinality(held)
    /\ grants <= peak

LEMMA HeldFinite == IdTypeOK => IsFiniteSet(held) /\ Cardinality(held) \in Nat
<1>1. IsFiniteSet(0 .. MaxIds - 1)
  BY MaxIdsAssumption, FS_Interval
<1>2. IdTypeOK => IsFiniteSet(held)
  BY <1>1, FS_Subset DEF IdTypeOK
<1> QED
  BY <1>2, FS_CardinalityType

LEMMA InitIdInv == IdInit => IdInv
<1> SUFFICES ASSUME IdInit PROVE IdInv
  OBVIOUS
<1>1. idm.free = <<>> /\ idm.last = 0 /\ idm \in Manager
  BY EmptySeq, Zenon DEF IdInit, IdmInit, Manager
<1>2. Listed(idm) = {}
  BY <1>1 DEF Listed
<1>3. Accounts(idm, {})
  BY <1>1, <1>2 DEF Accounts
<1> QED
  BY <1>1, <1>3, FS_EmptySet DEF IdInit, IdInv, IdTypeOK, Partition, Compact, Manager

LEMMA NewIdInv == IdInv /\ New => IdInv'
<1> SUFFICES ASSUME IdInv, New PROVE IdInv'
  OBVIOUS
<1> DEFINE id == IdmNewId(idm)
<1>1. idm \in Manager /\ Accounts(idm, held) /\ idm.last \in Nat
  BY DEF IdInv, IdTypeOK, Partition, Manager
<1>2. /\ IdmNew(idm) \in Manager
      /\ id \in Nat
      /\ id \notin held
      /\ Accounts(IdmNew(idm), held \cup {id})
      /\ IdmNew(idm).last \in {idm.last, idm.last + 1}
      /\ idm.free = <<>> => held = 0 .. idm.last - 1
      /\ idm.free # <<>> => IdmNew(idm).last = idm.last
  BY <1>1, NewAccounts
<1> HIDE DEF id
<1>3. /\ idm' = IdmNew(idm)
      /\ held' = held \cup {id}
      /\ grants' = grants + 1
      /\ peak' = Larger(peak, grants')
      /\ id < MaxIds
  BY DEF New, id
<1>8. /\ grants \in Nat /\ peak \in Nat
      /\ peak' \in Nat /\ peak' >= peak /\ peak' >= grants'
  BY <1>3 DEF IdInv, IdTypeOK, Larger
<1>9. held' \subseteq 0 .. MaxIds - 1
  BY <1>2, <1>3, MaxIdsAssumption DEF IdInv, IdTypeOK
<1>4. IdTypeOK'
  BY <1>2, <1>3, <1>8, <1>9 DEF IdTypeOK, Manager
<1>5. Partition'
  BY <1>2, <1>3 DEF Partition
<1>6. grants' = Cardinality(held') /\ grants' <= peak'
  <2>1. Cardinality(held \cup {id}) = Cardinality(held) + 1
    BY <1>2, HeldFinite, FS_AddElement DEF IdInv
  <2> QED
    BY <1>3, <1>8, <2>1 DEF IdInv
<1>7. Compact'
  <2>1. CASE idm.free = <<>>
    <3>1. Cardinality(0 .. idm.last - 1) = idm.last
      BY <1>1, FS_Interval
    <3>2. grants = idm.last
      BY <1>2, <2>1, <3>1 DEF IdInv
    <3> QED
      BY <1>1, <1>2, <1>3, <1>8, <3>2 DEF Compact
  <2>2. CASE idm.free # <<>>
    BY <1>1, <1>2, <1>3, <1>8, <2>2 DEF IdInv, Compact
  <2> QED
    BY <2>1, <2>2
<1> QED
  BY <1>4, <1>5, <1>6, <1>7 DEF IdInv

LEMMA DelIdInv == IdInv /\ Del => IdInv'
<1> SUFFICES ASSUME IdInv, NEW id \in held,
                    idm' = IdmDel(idm, id),
                    held' = held \ {id},
                    grants' = grants - 1,
                    peak' = peak
             PROVE  IdInv'
  BY DEF Del
<1>1. idm \in Manager /\ Accounts(idm, held) /\ idm.last \in Nat
  BY DEF IdInv, IdTypeOK, Partition, Manager
<1>2. /\ idm' \in Manager
      /\ Accounts(idm', held')
      /\ idm'.last <= idm.last
  BY <1>1, DelAccounts
<1>3. Cardinality(held') = Cardinality(held) - 1 /\ Cardinality(held') \in Nat
  BY HeldFinite, FS_RemoveElement, FS_CardinalityType DEF IdInv
<1>4. IdTypeOK'
  BY <1>2, <1>3 DEF IdInv, IdTypeOK, Manager
<1>5. Compact'
  BY <1>1, <1>2 DEF IdInv, IdTypeOK, Compact, Manager
<1> QED
  BY <1>2, <1>3, <1>4, <1>5 DEF IdInv, IdTypeOK, Partition

LEMMA PushIdInv == IdInv /\ Push => IdInv'
<1> SUFFICES ASSUME IdInv, NEW id \in 0 .. MaxIds - 1,
                    idm' = IdmPush(idm, id),
                    held' = held \cup {id},
                    grants' = IF id \in held THEN grants ELSE grants + 1,
                    peak' = Larger(Larger(peak, id + 1), grants')
             PROVE  IdInv'
  BY DEF Push
<1>1. idm \in Manager /\ Accounts(idm, held) /\ idm.last \in Nat /\ id \in Nat
  BY DEF IdInv, IdTypeOK, Partition, Manager
<1>2. /\ idm' \in Manager
      /\ Accounts(idm', held')
      /\ idm'.last = IF idm.last > id THEN idm.last ELSE id + 1
  BY <1>1, PushAccounts
<1>3. grants \in Nat /\ peak \in Nat /\ grants' \in Nat
  BY DEF IdInv, IdTypeOK
<1>4. peak' \in Nat /\ peak' >= peak /\ peak' >= id + 1 /\ peak' >= grants'
  BY <1>1, <1>3 DEF Larger
<1>5. grants' = Cardinality(held')
  <2>1. CASE id \in held
    <3>1. held' = held
      BY <2>1
    <3> QED
      BY <2>1, <3>1 DEF IdInv
  <2>2. CASE id \notin held
    <3>1. Cardinality(held') = Cardinality(held) + 1
      BY <2>2, HeldFinite, FS_AddElement DEF IdInv
    <3> QED
      BY <2>2, <3>1 DEF IdInv
  <2> QED
    BY <2>1, <2>2
<1>6. IdTypeOK'
  BY <1>2, <1>3, <1>4 DEF IdInv, IdTypeOK, Manager
<1>7. Compact'
  BY <1>1, <1>2, <1>3, <1>4 DEF IdInv, Compact
<1> QED
  BY <1>2, <1>4, <1>5, <1>6, <1>7 DEF IdInv, Partition

LEMMA ClearIdInv == IdInv /\ Clear => IdInv'
<1> SUFFICES ASSUME IdInv, Clear PROVE IdInv'
  OBVIOUS
<1>1. idm'.free = <<>> /\ idm'.last = 0 /\ idm' \in Manager
  BY EmptySeq, Zenon DEF Clear, IdInv, IdTypeOK, Manager
<1>2. Listed(idm') = {}
  BY <1>1 DEF Listed
<1>3. Accounts(idm', {})
  BY <1>1, <1>2 DEF Accounts
<1> QED
  BY <1>1, <1>3, FS_EmptySet
  DEF Clear, IdInv, IdTypeOK, Partition, Compact, Manager

THEOREM IdInvariant == IdSpec => []IdInv
<1>1. IdInv /\ [IdNext]_idVars => IdInv'
  <2> SUFFICES ASSUME IdInv, [IdNext]_idVars PROVE IdInv'
    OBVIOUS
  <2>1. CASE New   BY <2>1, NewIdInv
  <2>2. CASE Del   BY <2>2, DelIdInv
  <2>3. CASE Push  BY <2>3, PushIdInv
  <2>4. CASE Clear BY <2>4, ClearIdInv
  <2>5. CASE UNCHANGED idVars
    BY <2>5 DEF idVars, IdInv, IdTypeOK, Partition, Compact
  <2> QED
    BY <2>1, <2>2, <2>3, <2>4, <2>5 DEF IdNext
<1> QED
  BY InitIdInv, <1>1, PTL DEF IdSpec

(* The manager and the history variables keep their types. *)
THEOREM IdTypeCorrect == IdSpec => []IdTypeOK
  BY IdInvariant, PTL DEF IdInv

(* No sequence of calls loses an id or lists one that is still held. *)
THEOREM EveryIdAccountedFor == IdSpec => []Partition
  BY IdInvariant, PTL DEF IdInv

(* The ids stay below the largest number wanted at once. *)
THEOREM IdsStayCompact == IdSpec => []Compact
  BY IdInvariant, PTL DEF IdInv

(* The free list implements an allocator: every call is a step that grants *)
(* an id nobody holds, takes one back, forgets them all, or a stutter.     *)
THEOREM AllocatorImplemented == IdSpec => ImplementsAllocator
<1>1. IdInit => Allocator!Init
  BY DEF IdInit, Allocator!Init
<1>2. IdInv /\ [IdNext]_idVars => [Allocator!Next]_<<held, grants>>
  <2> SUFFICES ASSUME IdInv, [IdNext]_idVars
               PROVE  Allocator!Next \/ UNCHANGED <<held, grants>>
    OBVIOUS
  <2>1. CASE New
    <3>1. IdmNewId(idm) \in (0 .. MaxIds - 1) \ held
      <4>1. IdmNewId(idm) \in Nat /\ IdmNewId(idm) \notin held
        BY NewAccounts DEF IdInv, IdTypeOK, Partition, Manager
      <4> QED
        BY <2>1, <4>1, MaxIdsAssumption DEF New
    <3> QED
      BY <2>1, <3>1 DEF New, Allocator!Next, Allocator!Grant
  <2>2. CASE Del
    BY <2>2 DEF Del, Allocator!Next, Allocator!Return
  <2>3. CASE Push
    <3>1. PICK id \in 0 .. MaxIds - 1 :
             /\ held' = held \cup {id}
             /\ grants' = IF id \in held THEN grants ELSE grants + 1
      BY <2>3 DEF Push
    <3>2. CASE id \in held
      <4>1. held' = held /\ grants' = grants
        BY <3>1, <3>2
      <4> QED
        BY <4>1
    <3>3. CASE id \notin held
      <4>1. id \in (0 .. MaxIds - 1) \ held
        BY <3>3
      <4> QED
        BY <3>1, <3>3, <4>1 DEF Allocator!Next, Allocator!Grant
    <3> QED
      BY <3>2, <3>3
  <2>4. CASE Clear
    BY <2>4 DEF Clear, Allocator!Next, Allocator!Reset
  <2>5. CASE UNCHANGED idVars
    BY <2>5 DEF idVars
  <2> QED
    BY <2>1, <2>2, <2>3, <2>4, <2>5 DEF IdNext
<1> QED
  BY IdInvariant, <1>1, <1>2, PTL
  DEF IdSpec, ImplementsAllocator, Allocator!Spec, Allocator!vars
=============================================================================
