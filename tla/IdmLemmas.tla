----------------------------- MODULE IdmLemmas ------------------------------
(***************************************************************************)
(* What the operations of IdmOps do to the accounts of an id manager.      *)
(***************************************************************************)
EXTENDS IdmOps, SequenceTheorems, WellFoundedInduction, TLAPS

(* Induction over an interval, stated of the set of the numbers for which   *)
(* the claim holds: it has 0 and with each number the next.                *)
LEMMA Induction ==
    ASSUME NEW N \in Nat, NEW T,
           0 \in T, \A n \in 1 .. N : n - 1 \in T => n \in T
    PROVE  \A n \in 0 .. N : n \in T
<1> DEFINE F == {n \in 0 .. N : n \notin T}
           R == OpToRel(<, Nat)
<1> SUFFICES ASSUME F # {} PROVE FALSE
  OBVIOUS
<1>1. PICK x \in F : \A y \in F : ~(<<y, x>> \in R)
  <2>1. IsWellFoundedOn(R, Nat)
    BY NatLessThanWellFounded
  <2>2. F \subseteq Nat
    OBVIOUS
  <2> HIDE DEF R, F
  <2> QED
    BY <2>1, <2>2, WFMin, Zenon
<1>2. x \in 1 .. N
  OBVIOUS
<1>3. x - 1 \in F
  BY <1>2
<1>4. <<x - 1, x>> \in R
  BY <1>2 DEF OpToRel
<1> QED
  BY <1>1, <1>3, <1>4

(* The least number of a set *)
LEMMA MinIsLeast ==
    ASSUME NEW T, T \subseteq Nat, T # {}
    PROVE  Min(T) \in T /\ \A y \in T : Min(T) <= y
<1> DEFINE R == OpToRel(<, Nat)
<1>1. PICK x \in T : \A y \in T : ~(<<y, x>> \in R)
  <2>1. IsWellFoundedOn(R, Nat)
    BY NatLessThanWellFounded
  <2> HIDE DEF R
  <2> QED
    BY <2>1, WFMin, Zenon
<1>2. \A y \in T : x <= y
  <2> SUFFICES ASSUME NEW y \in T PROVE x <= y
    OBVIOUS
  <2>1. x \in Nat /\ y \in Nat
    OBVIOUS
  <2>2. y < x => <<y, x>> \in R
    BY <2>1 DEF OpToRel
  <2> HIDE DEF R
  <2> QED
    BY <1>1, <2>1, <2>2
<1> QED
  BY <1>2 DEF Min

(* A function may be defined by its first value and a step from each value *)
(* to the next.                                                            *)
Steps(N, A) == [1 .. N -> [A -> A]]

Iterations(N, A, first, step) ==
    {f \in [0 .. N -> A] :
        f[0] = first /\ \A n \in 1 .. N : f[n] = step[n][f[n - 1]]}

LEMMA Recursion ==
    ASSUME NEW N \in Nat, NEW A, NEW first \in A, NEW step \in Steps(N, A)
    PROVE  Iterations(N, A, first, step) # {}
<1> DEFINE T == {k \in 0 .. N : Iterations(k, A, first, step) # {}}
<1>1. 0 \in T
  <2>1. [i \in 0 .. 0 |-> first] \in Iterations(0, A, first, step)
    BY DEF Iterations
  <2> QED
    BY <2>1
<1>2. ASSUME NEW k \in 1 .. N, k - 1 \in T PROVE k \in T
  <2>1. PICK f \in [0 .. k - 1 -> A] :
            f[0] = first /\ \A n \in 1 .. k - 1 : f[n] = step[n][f[n - 1]]
    BY <1>2 DEF Iterations
  <2> DEFINE g == [i \in 0 .. k |-> IF i < k THEN f[i] ELSE step[k][f[k - 1]]]
  <2>2. \A i \in 0 .. k - 1 : i \in 0 .. k /\ i < k /\ g[i] = f[i] /\ f[i] \in A
    OBVIOUS
  <2>3. step[k][f[k - 1]] \in A /\ g[k] = step[k][f[k - 1]]
    BY <2>2 DEF Steps
  <2>4. g \in [0 .. k -> A]
    BY <2>2, <2>3
  <2> HIDE DEF g
  <2>5. g[0] = first /\ \A n \in 1 .. k : g[n] = step[n][g[n - 1]]
    BY <2>1, <2>2, <2>3
  <2>6. g \in Iterations(k, A, first, step)
    BY <2>4, <2>5 DEF Iterations
  <2> QED
    BY <2>6
<1>3. \A n \in 0 .. N : n \in T
  <2> HIDE DEF T
  <2> QED
    BY <1>1, <1>2, Induction
<1> QED
  BY <1>3

-----------------------------------------------------------------------------

Manager == [free : Seq(Nat), last : Nat]

(* idm_new yields an id nobody holds, and the manager accounts for it. *)
LEMMA NewAccounts ==
    ASSUME NEW m \in Manager, NEW H, Accounts(m, H)
    PROVE  /\ IdmNew(m) \in Manager
           /\ IdmNewId(m) \in Nat
           /\ IdmNewId(m) \notin H
           /\ Accounts(IdmNew(m), H \cup {IdmNewId(m)})
           /\ IdmNew(m).last \in {m.last, m.last + 1}
           /\ IdmNewId(m) < IdmNew(m).last
           /\ m.free = <<>> => /\ H = 0 .. m.last - 1
                               /\ IdmNewId(m) = m.last
           /\ m.free # <<>> => IdmNew(m).last = m.last
<1>1. CASE m.free = <<>>
  <2>1. Listed(m) = {}
    BY <1>1 DEF Listed
  <2>2. H = 0 .. m.last - 1
    BY <2>1 DEF Accounts
  <2>3. IdmNew(m) = [free |-> <<>>, last |-> m.last + 1]
    BY <1>1 DEF IdmNew, Manager
  <2>4. Listed(IdmNew(m)) = {}
    BY <2>3 DEF Listed
  <2>5. Accounts(IdmNew(m), H \cup {m.last})
    BY <2>2, <2>3, <2>4 DEF Accounts, Manager
  <2> QED
    BY <1>1, <2>2, <2>3, <2>5 DEF IdmNewId, Manager
<1>2. CASE m.free # <<>>
  <2> DEFINE id == m.free[1]
  <2>1. /\ Len(m.free) \in Nat \ {0}
        /\ id \in Nat
        /\ id = m.free[1]
        /\ id \in Listed(m)
    BY <1>2, EmptySeq DEF Manager, Listed
  <2>3. /\ Tail(m.free) \in Seq(Nat)
        /\ Len(Tail(m.free)) = Len(m.free) - 1
        /\ \A i \in 1 .. Len(m.free) - 1 : Tail(m.free)[i] = m.free[i + 1]
    <3>1. m.free \in Seq(Nat)
      BY DEF Manager
    <3> QED
      BY <3>1, <1>2, HeadTailProperties
  <2>2. /\ IdmNew(m) \in Manager
        /\ IdmNew(m).free = Tail(m.free)
        /\ IdmNew(m).last = m.last
        /\ IdmNewId(m) = id
    <3>1. IdmNew(m) = [free |-> Tail(m.free), last |-> m.last]
      BY <1>2 DEF IdmNew, Manager
    <3> QED
      BY <1>2, <2>3, <3>1 DEF IdmNewId, Manager
  <2> HIDE DEF id
  <2>4. Listed(IdmNew(m)) = Listed(m) \ {id}
    <3>1. ASSUME NEW x \in Listed(IdmNew(m)) PROVE x \in Listed(m) \ {id}
      <4>1. PICK i \in 1 .. Len(m.free) - 1 : x = m.free[i + 1]
        BY <2>2, <2>3, <3>1 DEF Listed
      <4>2. i + 1 \in 1 .. Len(m.free) /\ i + 1 # 1 /\ 1 \in 1 .. Len(m.free)
        BY <2>1
      <4> QED
        BY <2>1, <4>1, <4>2 DEF Accounts, Listed
    <3>2. ASSUME NEW x \in Listed(m) \ {id} PROVE x \in Listed(IdmNew(m))
      <4>1. PICK i \in 1 .. Len(m.free) : x = m.free[i]
        BY DEF Listed
      <4>2. i # 1
        BY <4>1, <2>1
      <4>3. i - 1 \in 1 .. Len(m.free) - 1 /\ (i - 1) + 1 = i
        BY <4>2, <2>1
      <4>4. Tail(m.free)[i - 1] = x
        BY <4>1, <4>3, <2>3
      <4> QED
        BY <4>3, <4>4, <2>2, <2>3 DEF Listed
    <3> QED
      BY <3>1, <3>2
  <2>5. /\ id \notin H
        /\ id < m.last
    BY <2>1 DEF Accounts, Manager
  <2>6. \A i, j \in 1 .. Len(Tail(m.free)) :
            Tail(m.free)[i] = Tail(m.free)[j] => i = j
    <3> SUFFICES ASSUME NEW i \in 1 .. Len(m.free) - 1,
                        NEW j \in 1 .. Len(m.free) - 1,
                        m.free[i + 1] = m.free[j + 1]
                 PROVE  i = j
      BY <2>3
    <3>1. i + 1 \in 1 .. Len(m.free) /\ j + 1 \in 1 .. Len(m.free)
      BY <2>1
    <3>2. i + 1 = j + 1
      BY <3>1 DEF Accounts
    <3> QED
      BY <3>2
  <2>7. Accounts(IdmNew(m), H \cup {id})
    <3>1. /\ H \cap Listed(m) = {}
          /\ H \cup Listed(m) = 0 .. m.last - 1
      BY DEF Accounts
    <3>2. /\ (H \cup {id}) \cap Listed(IdmNew(m)) = {}
          /\ (H \cup {id}) \cup Listed(IdmNew(m)) = 0 .. m.last - 1
      BY <2>1, <2>4, <2>5, <3>1
    <3> QED
      BY <2>2, <2>6, <3>2 DEF Accounts
  <2> QED
    BY <1>2, <2>1, <2>2, <2>5, <2>7 DEF Manager
<1> QED
  BY <1>1, <1>2

(* idm_del of a held id leaves a manager that accounts for the others. *)
LEMMA DelAccounts ==
    ASSUME NEW m \in Manager, NEW H, Accounts(m, H), NEW id \in H
    PROVE  /\ IdmDel(m, id) \in Manager
           /\ Accounts(IdmDel(m, id), H \ {id})
           /\ IdmDel(m, id).last <= m.last
           /\ id \in Nat
<1>1. id \in 0 .. m.last - 1 /\ id \notin Listed(m)
  BY DEF Accounts
<1>2. id \in Nat /\ id < m.last /\ m.last \in Nat
  BY <1>1 DEF Manager
<1>3. CASE id + 1 = m.last
  <2>1. IdmDel(m, id) = [free |-> m.free, last |-> m.last - 1]
    BY <1>2, <1>3 DEF IdmDel, Manager
  <2>2. Listed(IdmDel(m, id)) = Listed(m)
    BY <2>1 DEF Listed
  <2>3. (H \ {id}) \cup Listed(m) = 0 .. (m.last - 1) - 1
    BY <1>1, <1>2, <1>3 DEF Accounts
  <2> QED
    BY <1>2, <1>3, <2>1, <2>2, <2>3 DEF Accounts, Manager
<1>4. CASE id + 1 # m.last
  <2> DEFINE f == <<id>> \o m.free
  <2>1. /\ m.free \in Seq(Nat)
        /\ Len(m.free) \in Nat
        /\ <<id>> \in Seq(Nat) /\ Len(<<id>>) = 1 /\ <<id>>[1] = id
    BY <1>2 DEF Manager
  <2>2. /\ f \in Seq(Nat)
        /\ Len(f) = Len(m.free) + 1
        /\ f[1] = id
        /\ \A i \in 1 .. Len(m.free) : f[i + 1] = m.free[i]
    <3>1. /\ f \in Seq(Nat)
          /\ Len(f) = 1 + Len(m.free)
          /\ \A i \in 1 .. 1 + Len(m.free) :
                f[i] = IF i <= 1 THEN <<id>>[i] ELSE m.free[i - 1]
      BY <2>1, ConcatProperties
    <3>2. \A i \in 1 .. Len(m.free) :
             i + 1 \in 1 .. 1 + Len(m.free) /\ ~(i + 1 <= 1) /\ (i + 1) - 1 = i
      BY <2>1
    <3> QED
      BY <2>1, <3>1, <3>2
  <2>9. /\ IdmDel(m, id) \in Manager
        /\ IdmDel(m, id).free = f
        /\ IdmDel(m, id).last = m.last
    <3>1. ~(m.last <= id) /\ ~(id + 1 = m.last)
      BY <1>2, <1>4
    <3> HIDE DEF f
    <3>2. IdmDel(m, id) = [m EXCEPT !.free = f]
      BY <3>1 DEF IdmDel, f
    <3> QED
      BY <2>2, <3>2 DEF Manager
  <2> HIDE DEF f
  <2>3. \A i \in 1 .. Len(f) : i = 1 \/ i - 1 \in 1 .. Len(m.free)
    BY <2>2
  <2>4. ASSUME NEW i \in 1 .. Len(f) PROVE f[i] = IF i = 1 THEN id ELSE m.free[i - 1]
    <3>1. CASE i = 1
      BY <2>2, <3>1, Zenon
    <3>2. CASE i # 1
      <4>1. i - 1 \in 1 .. Len(m.free)
        BY <2>3, <3>2
      <4>2. f[(i - 1) + 1] = m.free[i - 1]
        BY <2>2, <4>1, Zenon
      <4>3. (i - 1) + 1 = i
        BY <2>2
      <4> QED
        BY <3>2, <4>2, <4>3, Zenon
    <3> QED
      BY <3>1, <3>2
  <2>5. \A i \in 2 .. Len(f) : m.free[i - 1] \in Listed(m)
    BY <2>2, <2>3 DEF Listed
  <2>6. {f[i] : i \in 1 .. Len(f)} = Listed(m) \cup {id}
    <3>1. ASSUME NEW x \in Listed(m) PROVE x \in {f[i] : i \in 1 .. Len(f)}
      <4>1. PICK i \in 1 .. Len(m.free) : x = m.free[i]
        BY DEF Listed
      <4>2. i + 1 \in 1 .. Len(f) /\ f[i + 1] = x
        BY <4>1, <2>2
      <4> QED
        BY <4>2
    <3>2. id \in {f[i] : i \in 1 .. Len(f)}
      BY <2>1, <2>2
    <3>3. ASSUME NEW i \in 1 .. Len(f) PROVE f[i] \in Listed(m) \cup {id}
      <4>1. CASE i = 1
        BY <4>1, <2>2
      <4>2. CASE i # 1
        <5>1. i \in 2 .. Len(f)
          BY <4>2, <2>1, <2>2
        <5> QED
          BY <5>1, <4>2, <2>4, <2>5
      <4> QED
        BY <4>1, <4>2
    <3> QED
      BY <3>1, <3>2, <3>3
  <2>7. \A i, j \in 1 .. Len(f) : f[i] = f[j] => i = j
    <3> SUFFICES ASSUME NEW i \in 1 .. Len(f), NEW j \in 1 .. Len(f), f[i] = f[j]
                 PROVE  i = j
      OBVIOUS
    <3>0. ASSUME NEW k \in 1 .. Len(f), k # 1
          PROVE  f[k] # id
      <4>1. k \in 2 .. Len(f)
        BY <3>0, <2>1, <2>2
      <4>2. f[k] \in Listed(m)
        BY <2>4, <2>5, <3>0, <4>1
      <4> QED
        BY <4>2 DEF Accounts
    <3>1. i = 1 <=> j = 1
      BY <2>2, <3>0
    <3>2. CASE i # 1 /\ j # 1
      <4>1. i - 1 \in 1 .. Len(m.free) /\ j - 1 \in 1 .. Len(m.free)
        BY <2>3, <3>2
      <4>2. m.free[i - 1] = m.free[j - 1]
        BY <2>4, <3>2
      <4>3. i - 1 = j - 1
        BY <4>1, <4>2 DEF Accounts
      <4> QED
        BY <4>3
    <3> QED
      BY <3>1, <3>2
  <2>8. Accounts(IdmDel(m, id), H \ {id})
    <3>1. Listed(IdmDel(m, id)) = Listed(m) \cup {id}
      BY <2>6, <2>9 DEF Listed
    <3>2. /\ (H \ {id}) \cap (Listed(m) \cup {id}) = {}
          /\ (H \ {id}) \cup (Listed(m) \cup {id}) = 0 .. m.last - 1
      BY DEF Accounts
    <3> QED
      BY <2>7, <2>9, <3>1, <3>2 DEF Accounts
  <2> QED
    BY <1>2, <2>8, <2>9
<1> QED
  BY <1>3, <1>4

(* The ids of a list are given back one after the other. *)
GivenBack(m, H, list, n, d) ==
    /\ d \in Manager
    /\ Accounts(d, H \ {list[i] : i \in 1 .. n})
    /\ d.last <= m.last

LEMMA DelNext ==
    ASSUME NEW m \in Manager, NEW H, NEW list \in Seq(H),
           \A i, j \in 1 .. Len(list) : list[i] = list[j] => i = j,
           NEW n \in 1 .. Len(list), NEW d, GivenBack(m, H, list, n - 1, d)
    PROVE  GivenBack(m, H, list, n, IdmDel(d, list[n]))
<1> DEFINE gone == {list[i] : i \in 1 .. n - 1}
           id == list[n]
<1>1. /\ d \in Manager /\ Accounts(d, H \ gone) /\ d.last <= m.last
      /\ Len(list) \in Nat
  BY DEF GivenBack
<1>2. id \in H \ gone
  <2>1. id \in H
    OBVIOUS
  <2>2. \A i \in 1 .. n - 1 : i \in 1 .. Len(list) /\ i # n
    BY <1>1
  <2> QED
    BY <1>1, <2>1, <2>2
<1>3. (H \ gone) \ {id} = H \ {list[i] : i \in 1 .. n}
  <2>1. \A i \in 1 .. n : i \in 1 .. n - 1 \/ i = n
    BY <1>1
  <2>2. \A i \in 1 .. n - 1 : i \in 1 .. n
    BY <1>1
  <2>3. n \in 1 .. n
    BY <1>1
  <2> QED
    BY <2>1, <2>2, <2>3
<1> HIDE DEF gone, id
<1>4. /\ IdmDel(d, id) \in Manager
      /\ Accounts(IdmDel(d, id), (H \ gone) \ {id})
      /\ IdmDel(d, id).last <= d.last
  BY <1>1, <1>2, DelAccounts
<1>5. IdmDel(d, id).last <= m.last
  BY <1>1, <1>4 DEF Manager
<1> QED
  BY <1>3, <1>4, <1>5 DEF GivenBack, id

LEMMA DelAllAccounts ==
    ASSUME NEW m \in Manager, NEW H, Accounts(m, H), NEW list \in Seq(H),
           \A i, j \in 1 .. Len(list) : list[i] = list[j] => i = j
    PROVE  /\ IdmDelAll(m, list) \in Manager
           /\ Accounts(IdmDelAll(m, list), H \ {list[i] : i \in 1 .. Len(list)})
           /\ IdmDelAll(m, list).last <= m.last
<1> DEFINE N == Len(list)
           step == [n \in 1 .. N |-> [d \in Manager |->
                      IF IdmDel(d, list[n]) \in Manager THEN IdmDel(d, list[n]) ELSE d]]
           Rule(f) == [n \in 0 .. N |-> IF n = 0 THEN m ELSE IdmDel(f[n - 1], list[n])]
           after == CHOOSE f : f = Rule(f)
<1>1. IdmDelAll(m, list) = after[N]
  BY DEF IdmDelAll
<1>2. N \in Nat
  OBVIOUS
<1>3. step \in Steps(N, Manager)
  BY DEF Steps
<1> HIDE DEF step, N, Rule
<1>4. PICK g \in [0 .. N -> Manager] :
          g[0] = m /\ \A n \in 1 .. N : g[n] = step[n][g[n - 1]]
  BY <1>2, <1>3, Recursion DEF Iterations
<1> DEFINE T == {n \in 0 .. N : GivenBack(m, H, list, n, g[n])}
<1>5. ASSUME NEW n \in 1 .. N, n - 1 \in T
      PROVE  /\ GivenBack(m, H, list, n, IdmDel(g[n - 1], list[n]))
             /\ g[n] = IdmDel(g[n - 1], list[n])
  <2>1. GivenBack(m, H, list, n, IdmDel(g[n - 1], list[n]))
    BY <1>5, DelNext DEF N
  <2>2. g[n - 1] \in Manager
    BY <1>2, <1>4
  <2> QED
    BY <1>4, <2>1, <2>2 DEF step, GivenBack
<1>6. \A n \in 0 .. N : n \in T
  <2>1. 0 \in T
    <3>1. H \ {list[i] : i \in 1 .. 0} = H
      OBVIOUS
    <3>2. m.last <= m.last
      BY DEF Manager
    <3>3. Accounts(m, H \ {list[i] : i \in 1 .. 0})
      BY <3>1, Zenon
    <3>4. GivenBack(m, H, list, 0, m)
      BY <3>2, <3>3, Zenon DEF GivenBack
    <3> QED
      BY <1>2, <1>4, <3>4
  <2>2. ASSUME NEW n \in 1 .. N, n - 1 \in T PROVE n \in T
    BY <1>5, <2>2
  <2> HIDE DEF T
  <2> QED
    BY <1>2, <2>1, <2>2, Induction
<1>7. \A n \in 1 .. N : g[n] = IdmDel(g[n - 1], list[n])
  <2>1. \A n \in 1 .. N : n - 1 \in 0 .. N
    BY <1>2
  <2> QED
    BY <1>5, <1>6, <2>1
<1>8. g = Rule(g)
  <2> DEFINE h == [n \in 0 .. N |-> IF n = 0 THEN m ELSE IdmDel(g[n - 1], list[n])]
  <2>1. \A n \in 0 .. N : g[n] = h[n]
    BY <1>2, <1>4, <1>7
  <2>2. g = h
    BY <1>4, <2>1
  <2> QED
    BY <2>2 DEF Rule
<1>9. after = Rule(after)
  BY <1>8
<1> HIDE DEF after
<1> DEFINE U == {n \in 0 .. N : after[n] = g[n]}
<1>10. \A n \in 0 .. N : n \in U
  <2>0. \A n \in 0 .. N : after[n] = IF n = 0 THEN m ELSE IdmDel(after[n - 1], list[n])
    BY <1>9 DEF Rule
  <2>1. 0 \in U
    BY <1>2, <1>4, <2>0
  <2>2. ASSUME NEW n \in 1 .. N, n - 1 \in U PROVE n \in U
    BY <1>7, <2>0, <2>2
  <2> HIDE DEF U
  <2> QED
    BY <1>2, <2>1, <2>2, Induction
<1>11. N \in T /\ N \in U
  BY <1>2, <1>6, <1>10
<1> QED
  BY <1>1, <1>11 DEF N, GivenBack

(* Removing an id from a free list that holds it once leaves the others. *)
LEMMA RemoveListed ==
    ASSUME NEW s \in Seq(Nat), NEW id \in Nat,
           \A i, j \in 1 .. Len(s) : s[i] = s[j] => i = j
    PROVE  LET r == RemoveFirst(s, id)
           IN  /\ r \in Seq(Nat)
               /\ \A i, j \in 1 .. Len(r) : r[i] = r[j] => i = j
               /\ {r[i] : i \in 1 .. Len(r)} = {s[i] : i \in 1 .. Len(s)} \ {id}
<1> DEFINE r == RemoveFirst(s, id)
<1>1. CASE ~ \E i \in 1 .. Len(s) : s[i] = id
  <2>1. r = s
    BY <1>1 DEF RemoveFirst
  <2> QED
    BY <1>1, <2>1
<1>2. CASE \E i \in 1 .. Len(s) : s[i] = id
  <2>1. PICK k \in 1 .. Len(s) : s[k] = id
    BY <1>2
  <2>2. Len(s) \in Nat /\ k \in Nat
    OBVIOUS
  <2>3. {i \in 1 .. Len(s) : s[i] = id} = {k}
    BY <2>1
  <2>4. Min({k}) = k
    BY <2>2 DEF Min
  <2>5. r = SubSeq(s, 1, k - 1) \o SubSeq(s, k + 1, Len(s))
    BY <1>2, <2>3, <2>4 DEF RemoveFirst, RemoveAt, SelectInSeq
  <2> DEFINE a == SubSeq(s, 1, k - 1)
             b == SubSeq(s, k + 1, Len(s))
  <2>6. /\ a \in Seq(Nat)
        /\ Len(a) = k - 1
        /\ \A i \in 1 .. k - 1 : a[i] = s[i]
    <3>1. \A i \in 1 .. k - 1 : s[i] \in Nat
      BY <2>2, ElementOfSeq
    <3>2. /\ a \in Seq(Nat)
          /\ Len(a) = IF 1 <= k - 1 THEN (k - 1) - 1 + 1 ELSE 0
          /\ \A i \in 1 .. (k - 1) - 1 + 1 : a[i] = s[1 + i - 1]
      BY <2>2, <3>1, SubSeqProperties
    <3> QED
      BY <2>2, <3>2
  <2>7. /\ b \in Seq(Nat)
        /\ Len(b) = Len(s) - k
        /\ \A i \in 1 .. Len(s) - k : b[i] = s[k + i]
    <3>1. \A i \in k + 1 .. Len(s) : s[i] \in Nat
      BY <2>2, ElementOfSeq
    <3>2. /\ b \in Seq(Nat)
          /\ Len(b) = IF k + 1 <= Len(s) THEN Len(s) - (k + 1) + 1 ELSE 0
          /\ \A i \in 1 .. Len(s) - (k + 1) + 1 : b[i] = s[(k + 1) + i - 1]
      BY <2>2, <3>1, SubSeqProperties
    <3> QED
      BY <2>2, <3>2
  <2>5a. r = a \o b
    BY <2>5
  <2> HIDE DEF a, b, r
  <2>8. /\ r \in Seq(Nat)
        /\ Len(r) = Len(s) - 1
        /\ \A i \in 1 .. Len(s) - 1 : r[i] = IF i < k THEN s[i] ELSE s[i + 1]
    <3>1. /\ r \in Seq(Nat)
          /\ Len(r) = Len(a) + Len(b)
          /\ \A i \in 1 .. Len(a) + Len(b) :
                r[i] = IF i <= Len(a) THEN a[i] ELSE b[i - Len(a)]
      <4>1. a \in Seq(Nat) /\ b \in Seq(Nat)
        BY <2>6, <2>7
      <4>2. /\ a \o b \in Seq(Nat)
            /\ Len(a \o b) = Len(a) + Len(b)
            /\ \A i \in 1 .. Len(a) + Len(b) :
                  (a \o b)[i] = IF i <= Len(a) THEN a[i] ELSE b[i - Len(a)]
        BY ONLY <4>1, ConcatProperties, Zenon
      <4> QED
        BY <2>5a, <4>2, Zenon
    <3>2. Len(a) + Len(b) = Len(s) - 1
      BY <2>2, <2>6, <2>7
    <3>3. ASSUME NEW i \in 1 .. Len(s) - 1
          PROVE  r[i] = IF i < k THEN s[i] ELSE s[i + 1]
      <4>1. CASE i < k
        <5>1. i \in 1 .. k - 1 /\ i \in 1 .. Len(a) + Len(b) /\ i <= Len(a)
          BY <2>2, <2>6, <3>2, <4>1
        <5> QED
          BY <2>6, <3>1, <4>1, <5>1
      <4>2. CASE ~(i < k)
        <5>1. i - (k - 1) \in 1 .. Len(s) - k /\ k + (i - (k - 1)) = i + 1
          BY <2>2, <4>2
        <5>2. i \in 1 .. Len(a) + Len(b) /\ ~(i <= Len(a)) /\ i - Len(a) = i - (k - 1)
          BY <2>2, <2>6, <3>2, <4>2
        <5>3. b[i - (k - 1)] = s[i + 1]
          BY <2>7, <5>1, Zenon
        <5>4. r[i] = b[i - (k - 1)]
          BY <3>1, <5>2, Zenon
        <5> QED
          BY <4>2, <5>3, <5>4, Zenon
      <4> QED
        BY <4>1, <4>2
    <3> QED
      BY <3>1, <3>2, <3>3
  <2> DEFINE from(i) == IF i < k THEN i ELSE i + 1
  <2>9. ASSUME NEW i \in 1 .. Len(r)
        PROVE  /\ from(i) \in 1 .. Len(s)
               /\ from(i) # k
               /\ r[i] = s[from(i)]
    <3>1. i \in 1 .. Len(s) - 1 /\ Len(s) \in Nat /\ i \in Int /\ k \in Int
      BY <2>2, <2>8
    <3>2. r[i] = s[from(i)]
      BY <2>8, <3>1
    <3> QED
      BY <3>1, <3>2
  <2>10. ASSUME NEW i \in 1 .. Len(r), NEW j \in 1 .. Len(r), from(i) = from(j)
         PROVE  i = j
    <3>1. i \in Int /\ j \in Int /\ k \in Int
      BY <2>2, <2>8
    <3> QED
      BY <2>10, <3>1
  <2>11. ASSUME NEW j \in 1 .. Len(s), j # k
         PROVE  \E i \in 1 .. Len(r) : from(i) = j
    <3>1. Len(r) = Len(s) - 1 /\ Len(s) \in Nat /\ j \in Int /\ k \in 1 .. Len(s)
      BY <2>2, <2>8
    <3>2. CASE j < k
      <4>1. j \in 1 .. Len(r) /\ from(j) = j
        BY <3>1, <3>2
      <4> QED
        BY <4>1
    <3>3. CASE ~(j < k)
      <4>1. j - 1 \in 1 .. Len(r) /\ from(j - 1) = j
        BY <2>11, <3>1, <3>3
      <4> QED
        BY <4>1
    <3> QED
      BY <3>2, <3>3
  <2> HIDE DEF from
  <2>13. \A i, j \in 1 .. Len(r) : r[i] = r[j] => i = j
    BY <2>9, <2>10, <2>1
  <2>14. \A i \in 1 .. Len(r) : r[i] \in {s[j] : j \in 1 .. Len(s)} \ {id}
    BY <2>1, <2>9
  <2>15. ASSUME NEW j \in 1 .. Len(s), s[j] # id
         PROVE  s[j] \in {r[i] : i \in 1 .. Len(r)}
    <3>1. j # k
      BY <2>1, <2>15
    <3>2. PICK i \in 1 .. Len(r) : from(i) = j
      BY <2>11, <3>1
    <3> QED
      BY <2>9, <3>2
  <2>16. {r[i] : i \in 1 .. Len(r)} = {s[j] : j \in 1 .. Len(s)} \ {id}
    <3>1. ASSUME NEW x \in {s[j] : j \in 1 .. Len(s)} \ {id}
          PROVE  x \in {r[i] : i \in 1 .. Len(r)}
      <4>1. PICK j \in 1 .. Len(s) : x = s[j]
        BY <3>1
      <4> QED
        BY <2>15, <3>1, <4>1, Zenon
    <3>2. ASSUME NEW x \in {r[i] : i \in 1 .. Len(r)}
          PROVE  x \in {s[j] : j \in 1 .. Len(s)} \ {id}
      <4>1. PICK i \in 1 .. Len(r) : x = r[i]
        BY <3>2
      <4> QED
        BY <2>14, <4>1, Zenon
    <3> QED
      BY <3>1, <3>2, Zenon
  <2> QED
    BY <2>8, <2>13, <2>16 DEF r
<1> QED
  BY <1>1, <1>2

(* idm_push takes the id it names from wherever it is: off the free list,  *)
(* or beyond last, and then lists the ids it skipped.                      *)
LEMMA PushAccounts ==
    ASSUME NEW m \in Manager, NEW H, NEW id \in Nat, Accounts(m, H)
    PROVE  /\ IdmPush(m, id) \in Manager
           /\ Accounts(IdmPush(m, id), H \cup {id})
           /\ IdmPush(m, id).last = IF m.last > id THEN m.last ELSE id + 1
<1>1. /\ m.free \in Seq(Nat)
      /\ Len(m.free) \in Nat
      /\ m.last \in Nat
  BY DEF Manager
<1>2. CASE m.last > id
  <2> DEFINE r == RemoveFirst(m.free, id)
  <2>1. /\ r \in Seq(Nat)
        /\ \A i, j \in 1 .. Len(r) : r[i] = r[j] => i = j
        /\ {r[i] : i \in 1 .. Len(r)} =
              {m.free[i] : i \in 1 .. Len(m.free)} \ {id}
    BY <1>1, RemoveListed DEF Accounts
  <2> HIDE DEF r
  <2>2. IdmPush(m, id) = [m EXCEPT !.free = r]
    BY <1>2 DEF IdmPush, r
  <2>3. /\ IdmPush(m, id) \in Manager
        /\ IdmPush(m, id).free = r
        /\ IdmPush(m, id).last = m.last
    BY <2>1, <2>2 DEF Manager
  <2>4. Listed(IdmPush(m, id)) = Listed(m) \ {id}
    <3>1. Listed(IdmPush(m, id)) = {r[i] : i \in 1 .. Len(r)}
      BY <2>3, Zenon DEF Listed
    <3> QED
      BY <2>1, <3>1, Zenon DEF Listed
  <2>5. /\ (H \cup {id}) \cap (Listed(m) \ {id}) = {}
        /\ (H \cup {id}) \cup (Listed(m) \ {id}) = 0 .. m.last - 1
    <3>1. id \in 0 .. m.last - 1
      BY <1>1, <1>2
    <3> QED
      BY <3>1 DEF Accounts
  <2> QED
    BY <1>2, <2>1, <2>3, <2>4, <2>5 DEF Accounts
<1>3. CASE ~(m.last > id)
  <2> DEFINE n == id - m.last
             a == [k \in 1 .. n |-> id - k]
             f == a \o m.free
  <2>1. n \in Nat /\ \A k \in 1 .. n : id - k \in m.last .. id - 1
    BY <1>1, <1>3
  <2>2. /\ a \in Seq(Nat)
        /\ Len(a) = n
        /\ \A k \in 1 .. n : a[k] = id - k
    <3>1. \A k \in 1 .. n : id - k \in Nat
      BY <1>1, <2>1
    <3> HIDE DEF n
    <3>2. a \in [1 .. n -> Nat]
      BY <3>1
    <3>3. a \in Seq(Nat)
      <4> HIDE DEF a, f
      <4>1. a \in UNION {[1 .. k -> Nat] : k \in Nat}
        BY <2>1, <3>2
      <4> QED
        BY <4>1, SeqDef, Zenon
    <3>4. Len(a) = n
      BY <2>1, <3>2, <3>3, LenProperties
    <3> QED
      BY <3>3, <3>4
  <2>3. /\ f \in Seq(Nat)
        /\ Len(f) = n + Len(m.free)
        /\ \A i \in 1 .. n + Len(m.free) :
              f[i] = IF i <= n THEN a[i] ELSE m.free[i - n]
    <3> HIDE DEF a, n
    <3>1. /\ a \o m.free \in Seq(Nat)
          /\ Len(a \o m.free) = Len(a) + Len(m.free)
          /\ \A i \in 1 .. Len(a) + Len(m.free) : (a \o m.free)[i] =
                IF i <= Len(a) THEN a[i] ELSE m.free[i - Len(a)]
      BY <1>1, <2>2, ConcatProperties, Zenon
    <3> QED
      BY <2>2, <3>1, Zenon
  <2>4. IdmPush(m, id) = [free |-> f, last |-> id + 1]
    BY <1>3 DEF IdmPush
  <2> HIDE DEF n, a, f
  <2>5. /\ IdmPush(m, id) \in Manager
        /\ IdmPush(m, id).free = f
        /\ IdmPush(m, id).last = id + 1
    BY <2>3, <2>4 DEF Manager
  <2>6. ASSUME NEW i \in 1 .. Len(f)
        PROVE  \/ i \in 1 .. n /\ f[i] = id - i /\ f[i] \in m.last .. id - 1
               \/ /\ i \notin 1 .. n
                  /\ i - n \in 1 .. Len(m.free)
                  /\ f[i] = m.free[i - n]
                  /\ f[i] \in 0 .. m.last - 1
    <3>1. CASE i <= n
      <4>1. i \in 1 .. n /\ i \in 1 .. n + Len(m.free)
        BY <1>1, <2>1, <2>3, <3>1
      <4>2. f[i] = id - i
        BY <2>2, <2>3, <3>1, <4>1, Zenon
      <4> QED
        BY <2>1, <4>1, <4>2
    <3>2. CASE ~(i <= n)
      <4>1. /\ i \notin 1 .. n
            /\ i - n \in 1 .. Len(m.free)
            /\ i \in 1 .. n + Len(m.free)
        BY <1>1, <2>1, <2>3, <3>2
      <4>2. f[i] = m.free[i - n]
        BY <2>3, <3>2, <4>1, Zenon
      <4>3. m.free[i - n] \in Listed(m)
        BY <4>1 DEF Listed
      <4>4. m.free[i - n] \in 0 .. m.last - 1
        BY <4>3 DEF Accounts
      <4> QED
        BY <4>1, <4>2, <4>4
    <3> QED
      BY <3>1, <3>2
  <2>7. ASSUME NEW i \in 1 .. Len(f), NEW j \in 1 .. Len(f), f[i] = f[j]
        PROVE  i = j
    <3>0. n \in Int /\ i \in Int /\ j \in Int /\ id \in Int /\ m.last \in Int
      BY <1>1, <2>1, <2>3
    <3>1. CASE i \in 1 .. n
      <4>1. f[i] = id - i /\ f[i] \in m.last .. id - 1
        BY <2>6, <3>1
      <4>2. f[j] \notin 0 .. m.last - 1
        BY <2>7, <3>0, <4>1
      <4>3. f[j] = id - j
        BY <2>6, <4>2
      <4>4. id - i = id - j
        BY <2>7, <4>1, <4>3, Zenon
      <4> QED
        BY <3>0, <4>4
    <3>2. CASE i \notin 1 .. n
      <4>1. /\ i - n \in 1 .. Len(m.free)
            /\ f[i] = m.free[i - n]
            /\ f[i] \in 0 .. m.last - 1
        BY <2>6, <3>2
      <4>2. f[j] \notin m.last .. id - 1
        BY <2>7, <3>0, <4>1
      <4>4. j - n \in 1 .. Len(m.free) /\ f[j] = m.free[j - n]
        BY <2>6, <4>2
      <4>3. i - n = j - n
        BY <2>7, <4>1, <4>4, Zenon DEF Accounts
      <4> QED
        BY <3>0, <4>3
    <3> QED
      BY <3>1, <3>2
  <2>8. Listed(IdmPush(m, id)) = (m.last .. id - 1) \cup Listed(m)
    <3>1. ASSUME NEW x \in m.last .. id - 1
          PROVE  \E i \in 1 .. Len(f) : f[i] = x
      <4>1. /\ id - x \in 1 .. n
            /\ id - x \in 1 .. n + Len(m.free)
            /\ id - (id - x) = x
        BY <1>1, <2>1 DEF n
      <4>2. f[id - x] = x
        BY <2>2, <2>3, <4>1
      <4> QED
        BY <2>3, <4>1, <4>2
    <3>2. ASSUME NEW j \in 1 .. Len(m.free)
          PROVE  \E i \in 1 .. Len(f) : f[i] = m.free[j]
      <4>1. /\ j + n \in 1 .. n + Len(m.free)
            /\ ~(j + n <= n)
            /\ (j + n) - n = j
        BY <1>1, <2>1
      <4>2. f[j + n] = m.free[j]
        BY <2>3, <4>1
      <4> QED
        BY <2>3, <4>1, <4>2
    <3>3. ASSUME NEW i \in 1 .. Len(f)
          PROVE  f[i] \in (m.last .. id - 1) \cup Listed(m)
      <4>1. CASE i \in 1 .. n
        BY <2>6, <4>1
      <4>2. CASE i \notin 1 .. n
        BY <2>6, <4>2 DEF Listed
      <4> QED
        BY <4>1, <4>2
    <3>4. Listed(IdmPush(m, id)) = {f[i] : i \in 1 .. Len(f)}
      BY <2>5 DEF Listed
    <3>5. ASSUME NEW x \in (m.last .. id - 1) \cup Listed(m)
          PROVE  x \in {f[i] : i \in 1 .. Len(f)}
      BY <3>1, <3>2 DEF Listed
    <3> QED
      BY <3>3, <3>4, <3>5
  <2>9. /\ (H \cup {id}) \cap ((m.last .. id - 1) \cup Listed(m)) = {}
        /\ (H \cup {id}) \cup ((m.last .. id - 1) \cup Listed(m)) = 0 .. id
    <3>1. H \cup Listed(m) = 0 .. m.last - 1 /\ H \cap Listed(m) = {}
      BY DEF Accounts
    <3>2. /\ (0 .. m.last - 1) \cap (m.last .. id) = {}
          /\ (0 .. m.last - 1) \cup (m.last .. id) = 0 .. id
          /\ m.last .. id = (m.last .. id - 1) \cup {id}
          /\ id \notin m.last .. id - 1
      BY <1>1, <1>3
    <3> QED
      BY <3>1, <3>2
  <2>10. 0 .. (id + 1) - 1 = 0 .. id
    OBVIOUS
  <2> QED
    BY <1>3, <2>5, <2>7, <2>8, <2>9, <2>10 DEF Accounts
<1> QED
  BY <1>2, <1>3
=============================================================================
