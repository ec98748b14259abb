---------------------------- MODULE CursorProofs ----------------------------
(***************************************************************************)
(* For every number of loops, keys and entries, as long as loops that are  *)
(* not nested leave deleting to others: cursor_idm accounts for the        *)
(* cursors of the loops under way, and a loop that ended by itself, by     *)
(* position or in key order, has returned every entry that lasted through  *)
(* it, none twice, however the table grew under it, and whatever was put   *)
(* and deleted.                                                            *)
(***************************************************************************)
EXTENDS Cursors, TableLemmas, FiniteSetTheorems

(* Loops that begin and end in any order do not delete entries: qmap_del   *)
(* releases its cursor twice, which is harmless only for the highest one.  *)
Careful == \A u \in Uses : ~u.nested => "del" \notin u.calls

(* the cursors of the loops under way *)
Held == {client[c].id : c \in Iterating}

(* Nested loops keep cursor_idm without a free list: the cursor of the     *)
(* n-th loop is n - 1, and one released before is not below last.          *)
Nested ==
    /\ idm.free = <<>>
    /\ idm.last = Len(opened)
    /\ \A i \in 1 .. Len(opened) :
           client[opened[i]].phase = "open" /\ client[opened[i]].id = i - 1
    /\ \A c \in Iterating : \E i \in 1 .. Len(opened) : opened[i] = c
    /\ \A c \in Clients : client[c].phase = "ended" => client[c].id >= idm.last

(* Other loops release a cursor once. *)
Apart ==
    /\ \A c \in Clients : client[c].phase # "ended"
    /\ Accounted

IInv ==
    /\ use \in Uses
    /\ idm \in Manager
    /\ client \in [Clients -> [phase : {"idle", "open", "ended"}, id : Nat]]
    /\ opened \in Seq(Clients)
    /\ IF use.nested THEN Nested ELSE Apart

LEMMA InitIInv == Init => IInv
<1> SUFFICES ASSUME Init PROVE IInv
  OBVIOUS
<1>1. idm.free = <<>> /\ idm.last = 0 /\ idm \in Manager
  BY EmptySeq, Zenon DEF Init, IdmInit, Manager
<1>2. /\ client \in [Clients -> [phase : {"idle", "open", "ended"}, id : Nat]]
      /\ \A c \in Clients : client[c].phase = "idle"
      /\ opened = <<>> /\ use \in Uses
  BY DEF Init, Idle
<1>3. Iterating = {}
  BY <1>2 DEF Iterating
<1>4. Accounted
  BY <1>1, <1>3 DEF Accounted, Accounts, Listed
<1>5. Nested
  BY <1>1, <1>2, <1>3 DEF Nested
<1> QED
  BY <1>1, <1>2, <1>4, <1>5 DEF IInv, Apart

(* What the nested loops' invariant says of cursor_idm. *)
LEMMA NestedAccounts == IInv /\ use.nested => Accounted
<1> SUFFICES ASSUME IInv, use.nested PROVE Accounted
  OBVIOUS
<1>1. /\ Nested
      /\ idm \in Manager /\ Len(opened) \in Nat
      /\ \A i \in 1 .. Len(opened) : opened[i] \in Clients
  BY DEF IInv
<1>2. ASSUME NEW c \in Iterating, NEW d \in Iterating, client[c].id = client[d].id
      PROVE  c = d
  <2>1. PICK i \in 1 .. Len(opened) : opened[i] = c
    BY <1>1 DEF Nested
  <2>2. PICK j \in 1 .. Len(opened) : opened[j] = d
    BY <1>1 DEF Nested
  <2> QED
    BY <1>1, <1>2, <2>1, <2>2 DEF Nested
<1>3. Held = 0 .. idm.last - 1
  <2>1. ASSUME NEW c \in Iterating PROVE client[c].id \in 0 .. idm.last - 1
    BY <1>1 DEF Nested
  <2>2. ASSUME NEW n \in 0 .. idm.last - 1 PROVE \E c \in Iterating : client[c].id = n
    <3>1. n + 1 \in 1 .. Len(opened)
      BY <1>1 DEF Nested
    <3>2. opened[n + 1] \in Iterating /\ client[opened[n + 1]].id = n
      BY <1>1, <3>1 DEF Nested, Iterating
    <3> QED
      BY <3>2
  <2> QED
    BY <2>1, <2>2 DEF Held
<1>4. Listed(idm) = {}
  BY <1>1 DEF Nested, Listed
<1>5. Accounts(idm, Held)
  BY <1>1, <1>3, <1>4 DEF Accounts, Nested
<1> QED
  BY <1>2, <1>5 DEF Accounted, Held

(* A call of the library that takes a cursor and releases it leaves the    *)
(* others' accounts alone, and without a free list a second release has no *)
(* effect.                                                                 *)
LEMMA Borrowed ==
    ASSUME NEW m \in Manager, NEW H, Accounts(m, H)
    PROVE  /\ IdmDel(IdmNew(m), IdmNewId(m)) \in Manager
           /\ Accounts(IdmDel(IdmNew(m), IdmNewId(m)), H)
           /\ IdmNewId(m) \notin H
           /\ m.free # <<>> => IdmDel(IdmNew(m), IdmNewId(m)).last <= m.last
           /\ m.free = <<>> =>
                  /\ IdmDel(IdmNew(m), IdmNewId(m)) = m
                  /\ IdmDel(IdmDel(IdmNew(m), IdmNewId(m)), IdmNewId(m)) = m
<1> DEFINE id == IdmNewId(m)
           n  == IdmNew(m)
<1>1. /\ n \in Manager /\ id \notin H /\ Accounts(n, H \cup {id})
      /\ m.free # <<>> => n.last = m.last
  BY NewAccounts, Zenon
<1>2. /\ IdmDel(n, id) \in Manager /\ Accounts(IdmDel(n, id), (H \cup {id}) \ {id})
      /\ IdmDel(n, id).last <= n.last
  <2> HIDE DEF id, n
  <2>1. id \in H \cup {id}
    OBVIOUS
  <2> QED
    BY <1>1, <2>1, DelAccounts
<1>3. (H \cup {id}) \ {id} = H
  BY <1>1
<1>4. ASSUME m.free = <<>> PROVE IdmDel(n, id) = m /\ IdmDel(IdmDel(n, id), id) = m
  <2>1. id = m.last /\ n = [m EXCEPT !.last = m.last + 1] /\ m.last \in Nat
    BY <1>4 DEF IdmNewId, IdmNew, Manager
  <2>2. n.last = m.last + 1 /\ n = [free |-> m.free, last |-> m.last + 1]
    BY <2>1 DEF Manager
  <2> HIDE DEF id, n
  <2>3. IdmDel(n, id) = [free |-> m.free, last |-> m.last]
    <3>1. ~(n.last <= id) /\ id + 1 = n.last /\ n.last - 1 = m.last
      BY <2>1, <2>2
    <3>2. IdmDel(n, id) = [n EXCEPT !.last = n.last - 1]
      BY <3>1 DEF IdmDel
    <3> QED
      BY <2>2, <3>1, <3>2
  <2>4. m = [free |-> m.free, last |-> m.last]
    BY DEF Manager
  <2>5. IdmDel(m, id) = m
    BY <2>1 DEF IdmDel
  <2>6. IdmDel(n, id) = m
    BY <2>3, <2>4, Zenon
  <2> QED
    BY <2>5, <2>6
<1> HIDE DEF id, n
<1>5. m.free # <<>> => IdmDel(n, id).last <= m.last
  BY <1>1, <1>2
<1> QED
  BY <1>1, <1>2, <1>3, <1>4, <1>5 DEF id, n

(* A loop that begins: with nested loops the highest id, else one that     *)
(* nobody holds.                                                           *)
LEMMA OpenIInv == ASSUME NEW c \in Clients, IInv, Open(c) PROVE IInv'
<1> DEFINE id == IdmNewId(idm)
<1>1. /\ client[c].phase = "idle"
      /\ \A d \in Clients : client[d].phase # "ended"
      /\ idm' = IdmNew(idm)
      /\ client' = [client EXCEPT ![c] = [phase |-> "open", id |-> id]]
      /\ opened' = IF use.nested THEN Append(opened, c) ELSE opened
      /\ use' = use
  BY DEF Open
<1>2. /\ use \in Uses /\ idm \in Manager /\ opened \in Seq(Clients)
      /\ client \in [Clients -> [phase : {"idle", "open", "ended"}, id : Nat]]
  BY DEF IInv
<1>3. Accounted
  BY NestedAccounts DEF IInv, Apart
<1>4. Accounts(idm, Held)
  BY <1>3 DEF Accounted, Held
<1>5. /\ idm' \in Manager /\ id \in Nat /\ id \notin Held
      /\ Accounts(idm', Held \cup {id})
      /\ idm.free = <<>> => id = idm.last
  BY <1>1, <1>2, <1>4, NewAccounts
<1> HIDE DEF id
<1>6. /\ client' \in [Clients -> [phase : {"idle", "open", "ended"}, id : Nat]]
      /\ client'[c].phase = "open" /\ client'[c].id = id
      /\ \A d \in Clients \ {c} : client'[d] = client[d]
      /\ opened' \in Seq(Clients) /\ use' \in Uses
  BY <1>1, <1>2, <1>5
<1>7. Iterating' = Iterating \cup {c} /\ c \notin Iterating
  BY <1>1, <1>6 DEF Iterating
<1>8. CASE ~use.nested
  <2>0. \A d \in Iterating : d # c /\ d \in Clients /\ client'[d].id = client[d].id
    BY <1>6, <1>7 DEF Iterating
  <2>1. Held' = Held \cup {id}
    <3>1. Held' = {client'[d].id : d \in Iterating \cup {c}}
      BY <1>7 DEF Held
    <3>2. {client'[d].id : d \in Iterating} = Held
      BY <2>0, Zenon DEF Held
    <3>3. {client'[d].id : d \in Iterating \cup {c}} =
              {client'[d].id : d \in Iterating} \cup {client'[c].id}
      BY Zenon
    <3>4. client'[c].id = id
      BY <1>6
    <3> QED
      BY <3>1, <3>2, <3>3, <3>4, Zenon
  <2>2. Accounts(idm', Held')
    BY <1>5, <2>1
  <2>3. ASSUME NEW d \in Iterating', NEW e \in Iterating', client'[d].id = client'[e].id
        PROVE  d = e
    BY <1>3, <1>5, <1>6, <1>7, <2>3 DEF Accounted, Held, Iterating
  <2>4. Accounted'
    BY <2>2, <2>3 DEF Accounted, Held
  <2>5. \A d \in Clients : client'[d].phase # "ended"
    BY <1>1, <1>6
  <2> QED
    BY <1>1, <1>5, <1>6, <1>8, <2>4, <2>5 DEF IInv, Apart
<1>9. CASE use.nested
  <2>1. Nested /\ Len(opened) \in Nat
    BY <1>2, <1>9 DEF IInv
  <2>2. id = Len(opened) /\ idm.last = Len(opened)
    BY <1>5, <2>1 DEF Nested
  <2>3. idm' = [idm EXCEPT !.last = @ + 1]
    BY <1>1, <2>1 DEF Nested, IdmNew
  <2>4. idm'.free = <<>> /\ idm'.last = Len(opened) + 1
    BY <1>2, <2>1, <2>2, <2>3 DEF Nested, Manager
  <2>5. /\ opened' = Append(opened, c) /\ Len(opened') = Len(opened) + 1
        /\ \A i \in 1 .. Len(opened) : opened'[i] = opened[i]
        /\ opened'[Len(opened) + 1] = c
    BY <1>1, <1>2, <1>9
  <2>6. \A i \in 1 .. Len(opened) : opened[i] \in Clients /\ opened[i] # c
    BY <1>1, <1>2, <2>1 DEF Nested
  <2>7. \A i \in 1 .. Len(opened') :
           client'[opened'[i]].phase = "open" /\ client'[opened'[i]].id = i - 1
    <3> SUFFICES ASSUME NEW i \in 1 .. Len(opened')
                 PROVE  /\ client'[opened'[i]].phase = "open"
                        /\ client'[opened'[i]].id = i - 1
      OBVIOUS
    <3>1. i = Len(opened) + 1 \/ i \in 1 .. Len(opened)
      BY <2>1, <2>5
    <3>2. CASE i = Len(opened) + 1
      <4>1. opened'[i] = c /\ i - 1 = id
        BY <2>1, <2>2, <2>5, <3>2
      <4> QED
        BY <1>6, <4>1
    <3>3. CASE i \in 1 .. Len(opened)
      <4>1. opened'[i] = opened[i] /\ client'[opened[i]] = client[opened[i]]
        BY <1>6, <2>5, <2>6, <3>3
      <4>2. client[opened[i]].phase = "open" /\ client[opened[i]].id = i - 1
        BY <2>1, <3>3 DEF Nested
      <4> QED
        BY <4>1, <4>2
    <3> QED
      BY <3>1, <3>2, <3>3
  <2>8. \A d \in Iterating' : \E i \in 1 .. Len(opened') : opened'[i] = d
    BY <1>7, <2>1, <2>5 DEF Nested
  <2>9. \A d \in Clients : client'[d].phase # "ended"
    BY <1>1, <1>6
  <2>10. Nested'
    BY <2>4, <2>5, <2>7, <2>8, <2>9 DEF Nested
  <2> QED
    BY <1>1, <1>5, <1>6, <1>9, <2>10 DEF IInv
<1> QED
  BY <1>8, <1>9

(* A loop that releases its cursor while it holds it: the top one, if      *)
(* loops are nested, which may be left to call qmap_fin.                   *)
LEMMA ReleaseIInv ==
    ASSUME NEW c \in Clients, IInv,
           client[c].phase = "open", OnTop(c),
           idm' = IdmDel(idm, client[c].id),
           \/ client' = [client EXCEPT ![c] = Idle]
           \/ use.nested /\ client' = [client EXCEPT ![c].phase = "ended"],
           opened' = IF use.nested THEN Front(opened) ELSE opened,
           use' = use
    PROVE  IInv'
<1> DEFINE id == client[c].id
<1>1. /\ use \in Uses /\ idm \in Manager /\ opened \in Seq(Clients)
      /\ client \in [Clients -> [phase : {"idle", "open", "ended"}, id : Nat]]
      /\ id \in Nat
  BY DEF IInv
<1>2. Accounted
  BY NestedAccounts DEF IInv, Apart
<1>3. c \in Iterating /\ id \in Held /\ Accounts(idm, Held)
  BY <1>2 DEF Accounted, Held, Iterating
<1>4. idm' \in Manager /\ Accounts(idm', Held \ {id})
  BY <1>1, <1>3, DelAccounts
<1>5. /\ client' \in [Clients -> [phase : {"idle", "open", "ended"}, id : Nat]]
      /\ client'[c].phase \in {"idle", "ended"}
      /\ client'[c].phase = "ended" => use.nested /\ client'[c].id = id
      /\ \A d \in Clients \ {c} : client'[d] = client[d]
  <2>1. CASE client' = [client EXCEPT ![c] = Idle]
    BY <1>1, <2>1 DEF Idle
  <2>2. CASE use.nested /\ client' = [client EXCEPT ![c].phase = "ended"]
    <3> DEFINE e == [client[c] EXCEPT !.phase = "ended"]
    <3>1. e \in [phase : {"idle", "open", "ended"}, id : Nat] /\ e.phase = "ended" /\ e.id = id
      BY <1>1
    <3> HIDE DEF e
    <3>2. client' = [client EXCEPT ![c] = e]
      BY <2>2 DEF e
    <3> QED
      BY <1>1, <2>2, <3>1, <3>2
  <2> QED
    BY <2>1, <2>2
<1>6. Iterating' = Iterating \ {c}
  BY <1>5 DEF Iterating
<1>7. CASE ~use.nested
  <2>1. \A d \in Iterating \ {c} : d \in Clients /\ client'[d].id = client[d].id
    BY <1>5 DEF Iterating
  <2>2. \A d \in Iterating \ {c} : client[d].id # id
    BY <1>2, <1>3 DEF Accounted
  <2>3. Held' = Held \ {id}
    <3>1. Held' = {client'[d].id : d \in Iterating \ {c}}
      BY <1>6 DEF Held
    <3>2. {client'[d].id : d \in Iterating \ {c}} = {client[d].id : d \in Iterating \ {c}}
      BY <2>1, Zenon
    <3>3. {client[d].id : d \in Iterating \ {c}} = {client[d].id : d \in Iterating} \ {client[c].id}
      BY <2>2, Zenon
    <3> QED
      BY <3>1, <3>2, <3>3, Zenon DEF Held
  <2>4. Accounts(idm', Held')
    BY <1>4, <2>3
  <2>5. ASSUME NEW d \in Iterating', NEW e \in Iterating', client'[d].id = client'[e].id
        PROVE  d = e
    BY <1>2, <1>6, <2>1, <2>5 DEF Accounted
  <2>6. Accounted'
    BY <2>4, <2>5 DEF Accounted, Held
  <2>7. \A d \in Clients : client'[d].phase # "ended"
    BY <1>5, <1>7 DEF IInv, Apart
  <2> QED
    BY <1>1, <1>4, <1>5, <1>7, <2>6, <2>7 DEF IInv, Apart
<1>8. CASE use.nested
  <2> DEFINE k == Len(opened)
  <2>1. Nested /\ k \in Nat /\ opened \in Seq(Clients)
    BY <1>1, <1>8 DEF IInv
  <2>2. k > 0 /\ opened[k] = c
    <3>1. PICK i \in 1 .. k : opened[i] = c
      BY <1>3, <2>1 DEF Nested
    <3> QED
      BY <1>8, <2>1, <3>1 DEF OnTop, Last
  <2>3. id = k - 1 /\ idm.last = k /\ idm.free = <<>>
    BY <2>1, <2>2 DEF Nested
  <2>4. /\ opened' = SubSeq(opened, 1, k - 1)
        /\ opened' \in Seq(Clients) /\ Len(opened') = k - 1
        /\ \A i \in 1 .. k - 1 : opened'[i] = opened[i]
    <3>1. opened' = SubSeq(opened, 1, k - 1)
      BY <1>8, Zenon DEF Front
    <3> HIDE DEF k
    <3>2. \A i \in 1 .. k - 1 : opened[i] \in Clients
      BY <2>1 DEF k
    <3>3. /\ SubSeq(opened, 1, k - 1) \in Seq(Clients)
          /\ Len(SubSeq(opened, 1, k - 1)) = IF 1 <= k - 1 THEN k - 1 - 1 + 1 ELSE 0
          /\ \A i \in 1 .. k - 1 - 1 + 1 : SubSeq(opened, 1, k - 1)[i] = opened[1 + i - 1]
      BY <2>1, <3>2, SubSeqProperties
    <3>4. \A i \in 1 .. k - 1 : i \in 1 .. k - 1 - 1 + 1 /\ 1 + i - 1 = i
      BY <2>1
    <3>5. \A i \in 1 .. k - 1 : SubSeq(opened, 1, k - 1)[i] = opened[i]
      BY <3>3, <3>4
    <3>6. Len(SubSeq(opened, 1, k - 1)) = k - 1
      BY <2>1, <2>2, <3>3
    <3> QED
      BY <3>1, <3>3, <3>5, <3>6, Zenon
  <2> HIDE DEF k, id
  <2>5. idm'.free = <<>> /\ idm'.last = k - 1
    <3>1. ~(idm.last <= id) /\ id + 1 = idm.last
      BY <2>1, <2>3
    <3>2. idm' = [idm EXCEPT !.last = idm.last - 1]
      BY <3>1 DEF IdmDel, id
    <3> QED
      BY <1>1, <2>3, <3>2 DEF Manager
  <2>6. \A i \in 1 .. k - 1 :
           /\ opened[i] \in Clients /\ opened[i] # c
           /\ client[opened[i]].phase = "open" /\ client[opened[i]].id = i - 1
    BY <2>1, <2>2, <2>3 DEF Nested, id, k
  <2>7. \A i \in 1 .. Len(opened') :
           client'[opened'[i]].phase = "open" /\ client'[opened'[i]].id = i - 1
    BY <1>5, <2>1, <2>4, <2>6
  <2>8. ASSUME NEW d \in Iterating' PROVE \E i \in 1 .. Len(opened') : opened'[i] = d
    <3>1. d \in Iterating /\ d # c
      BY <1>6
    <3>2. PICK i \in 1 .. k : opened[i] = d
      BY <2>1, <3>1 DEF Nested, k
    <3>3. i \in 1 .. k - 1
      BY <2>1, <2>2, <3>1, <3>2
    <3> QED
      BY <2>4, <3>2, <3>3
  <2>9. ASSUME NEW d \in Clients, client'[d].phase = "ended"
        PROVE  client'[d].id >= idm'.last
    <3>1. CASE d = c
      BY <1>5, <2>1, <2>3, <2>5, <2>9, <3>1
    <3>2. CASE d # c
      <4>1. client[d].phase = "ended" /\ client'[d].id = client[d].id /\ client[d].id \in Nat
        BY <1>1, <1>5, <2>9, <3>2
      <4>2. client[d].id >= idm.last
        BY <2>1, <4>1 DEF Nested
      <4> QED
        BY <2>1, <2>3, <2>5, <4>1, <4>2
    <3> QED
      BY <3>1, <3>2
  <2>10. Nested'
    BY <2>4, <2>5, <2>7, <2>8, <2>9 DEF Nested
  <2> QED
    BY <1>1, <1>4, <1>5, <1>8, <2>4, <2>10 DEF IInv
<1> QED
  BY <1>7, <1>8

(* qmap_fin after the cursor was exhausted: its id is not below last. *)
LEMMA FinEndedIInv ==
    ASSUME NEW c \in Clients, IInv, Fin(c), client[c].phase = "ended"
    PROVE  IInv'
<1>1. use.nested /\ Nested /\ idm \in Manager /\ opened \in Seq(Clients)
  BY DEF IInv, Apart
<1>2. /\ client \in [Clients -> [phase : {"idle", "open", "ended"}, id : Nat]]
      /\ client[c].id \in Nat /\ client[c].id >= idm.last /\ idm.last \in Nat
  BY <1>1 DEF IInv, Nested, Manager
<1>3. idm' = idm
  <2>1. idm' = IdmDel(idm, client[c].id) /\ idm.last <= client[c].id
    BY <1>1, <1>2 DEF Fin
  <2> QED
    BY <1>2, <2>1 DEF IdmDel
<1>4. /\ client' \in [Clients -> [phase : {"idle", "open", "ended"}, id : Nat]]
      /\ client'[c].phase = "idle"
      /\ \A d \in Clients \ {c} : client'[d] = client[d]
      /\ opened' = opened /\ use' = use
  BY <1>2 DEF Fin, Idle
<1>5. Iterating' = Iterating
  BY <1>4 DEF Iterating
<1>6. ASSUME NEW i \in 1 .. Len(opened)
      PROVE  client'[opened'[i]].phase = "open" /\ client'[opened'[i]].id = i - 1
  <2>1. opened[i] \in Clients /\ client[opened[i]].phase = "open" /\ client[opened[i]].id = i - 1
    BY <1>1 DEF Nested
  <2>2. opened[i] # c
    BY <2>1
  <2> QED
    BY <1>4, <2>1, <2>2
<1>7. Nested'
  BY <1>1, <1>3, <1>4, <1>5, <1>6 DEF Nested
<1> QED
  BY <1>1, <1>3, <1>4, <1>7 DEF IInv

(* A step that leaves cursor_idm and the loops as they are. *)
LEMMA SameIInv ==
    ASSUME IInv, idm' \in Manager, idm.free = <<>> => idm' = idm,
           Accounted => Accounts(idm', Held),
           UNCHANGED <<use, client, opened>>
    PROVE  IInv'
<1>1. CASE use.nested
  <2>1. Nested /\ idm' = idm
    BY <1>1 DEF IInv, Nested
  <2>2. Nested'
    BY <2>1 DEF Nested, Iterating
  <2> QED
    BY <1>1, <2>2 DEF IInv
<1>2. CASE ~use.nested
  <2>1. Apart /\ Accounts(idm', Held)
    BY <1>2 DEF IInv, Apart
  <2>2. Apart'
    BY <2>1 DEF Apart, Accounted, Held, Iterating
  <2> QED
    BY <1>2, <2>2 DEF IInv
<1> QED
  BY <1>1, <1>2

LEMMA NextIInv == ASSUME Careful, IInv, [Next]_vars PROVE IInv'
<1>1. Accounted /\ idm \in Manager
  BY NestedAccounts DEF IInv, Apart
<1>2. Accounts(idm, Held)
  BY <1>1 DEF Accounted, Held
<1>3. ASSUME NEW c \in Clients, Open(c) PROVE IInv'
  BY <1>3, OpenIInv
<1>4. ASSUME NEW c \in Clients, Fetch(c) PROVE IInv'
  <2>1. UNCHANGED <<use, idm, client, opened>>
    BY <1>4 DEF Fetch
  <2> QED
    BY <1>1, <1>2, <2>1, SameIInv
<1>5. ASSUME NEW c \in Clients, End(c) PROVE IInv'
  <2>1. /\ client[c].phase = "open" /\ OnTop(c)
        /\ idm' = IdmDel(idm, client[c].id)
        /\ \/ client' = [client EXCEPT ![c] = Idle]
           \/ use.nested /\ client' = [client EXCEPT ![c].phase = "ended"]
        /\ opened' = IF use.nested THEN Front(opened) ELSE opened
        /\ use' = use
    BY <1>5 DEF End
  <2> QED
    BY <2>1, ReleaseIInv
<1>6. ASSUME NEW c \in Clients, Fin(c) PROVE IInv'
  <2>1. CASE client[c].phase = "ended"
    BY <1>6, <2>1, FinEndedIInv
  <2>2. CASE client[c].phase = "open" /\ OnTop(c)
    <3>1. /\ idm' = IdmDel(idm, client[c].id)
          /\ client' = [client EXCEPT ![c] = Idle]
          /\ opened' = IF use.nested THEN Front(opened) ELSE opened
          /\ use' = use
      BY <1>6, <2>2 DEF Fin
    <3> QED
      BY <2>2, <3>1, ReleaseIInv
  <2> QED
    BY <1>6, <2>1, <2>2 DEF Fin
<1>7. ASSUME Put PROVE IInv'
  <2>1. UNCHANGED <<use, idm, client, opened>>
    BY <1>7 DEF Put
  <2> QED
    BY <1>1, <1>2, <2>1, SameIInv
<1>8. ASSUME GetKey PROVE IInv'
  <2>1. /\ idm' = IdmDel(IdmNew(idm), IdmNewId(idm))
        /\ UNCHANGED <<use, client, opened>>
    BY <1>8 DEF GetKey
  <2>2. /\ idm' \in Manager /\ Accounts(idm', Held)
        /\ idm.free = <<>> => idm' = idm
    BY <1>1, <1>2, <2>1, Borrowed
  <2> QED
    BY <2>1, <2>2, SameIInv
<1>9. ASSUME Del PROVE IInv'
  <2>1. /\ idm' = IdmDel(IdmDel(IdmNew(idm), IdmNewId(idm)), IdmNewId(idm))
        /\ "del" \in use.calls
        /\ UNCHANGED <<use, client, opened>>
    BY <1>9 DEF Del
  <2>2. use.nested /\ use \in Uses
    BY <2>1 DEF Careful, IInv
  <2>3. idm.free = <<>>
    BY <2>2 DEF IInv, Nested
  <2>4. idm' = idm
    BY <1>1, <1>2, <2>1, <2>3, Borrowed
  <2> QED
    BY <1>1, <1>2, <2>1, <2>4, SameIInv
<1>10. ASSUME UNCHANGED vars PROVE IInv'
  <2>1. UNCHANGED <<use, idm, client, opened>>
    BY <1>10 DEF vars
  <2> QED
    BY <1>1, <1>2, <2>1, SameIInv
<1> QED
  BY <1>3, <1>4, <1>5, <1>6, <1>7, <1>8, <1>9, <1>10 DEF Next

(* Loops under way have cursors of their own, and cursor_idm accounts for  *)
(* exactly those, for every number of nested loops that may delete, and of *)
(* loops in any order that do not.                                         *)
THEOREM CursorsAccounted == Careful => (Spec => []Accounted)
<1> SUFFICES ASSUME Careful PROVE Spec => []Accounted
  OBVIOUS
<1>1. IInv /\ [Next]_vars => IInv'
  BY NextIInv
<1>2. IInv => Accounted
  BY NestedAccounts DEF IInv, Apart
<1> QED
  BY InitIInv, <1>1, <1>2, PTL DEF Spec

-----------------------------------------------------------------------------
(* The cells of qmap_cursors *)

(* cursor_idm never issues more ids than there are loops, and one more for *)
(* the call of the library.                                                *)
CInv ==
    /\ IInv
    /\ idm.last <= Cardinality(Clients)
    /\ DOMAIN cur = Ids

LEMMA HeldBounded ==
    /\ IsFiniteSet(Iterating) /\ Cardinality(Iterating) \in Nat
    /\ Cardinality(Held) <= Cardinality(Iterating)
<1> DEFINE f == [c \in Iterating |-> client[c].id]
<1>1. IsFiniteSet(Iterating)
  BY CursorsAssumption, FS_Subset DEF Iterating
<1>2. f \in Surjection(Iterating, Held)
  BY DEF Surjection, Held
<1> HIDE DEF f
<1>3. Cardinality(Held) <= Cardinality(Iterating)
  BY <1>1, <1>2, FS_Surjection
<1> QED
  BY <1>1, <1>3, FS_CardinalityType

LEMMA HeldIds ==
    ASSUME CInv, NEW c \in Iterating
    PROVE  client[c].id \in Held /\ client[c].id \in Ids
<1>1. Accounted /\ idm \in Manager /\ idm.last <= Cardinality(Clients)
  BY NestedAccounts DEF CInv, IInv, Apart
<1>2. client[c].id \in Held /\ Held \subseteq 0 .. idm.last - 1
  BY <1>1 DEF Accounted, Accounts, Held
<1>3. Cardinality(Clients) \in Nat /\ idm.last \in Nat
  BY <1>1, CursorsAssumption, FS_CardinalityType DEF Manager
<1>4. 0 .. idm.last - 1 \subseteq 0 .. Cardinality(Clients)
  BY <1>1, <1>3
<1> QED
  BY <1>2, <1>4, Zenon DEF Ids

LEMMA InitCInv == Init => CInv
<1> SUFFICES ASSUME Init PROVE CInv
  OBVIOUS
<1>1. idm.last = 0 /\ DOMAIN cur = Ids
  BY DEF Init, IdmInit
<1> QED
  BY <1>1, InitIInv, CursorsAssumption, FS_CardinalityType DEF CInv

LEMMA NextCInv == ASSUME Careful, CInv, [Next]_vars PROVE CInv'
<1>1. IInv /\ IInv' /\ idm.last <= Cardinality(Clients) /\ DOMAIN cur = Ids
  BY NextIInv DEF CInv
<1>2. Accounted /\ idm \in Manager /\ idm.last \in Nat
  BY <1>1, NestedAccounts DEF IInv, Apart, Manager
<1>3. Accounts(idm, Held) /\ idm' \in Manager /\ idm'.last \in Nat
  BY <1>1, <1>2 DEF Accounted, Held, IInv, Manager
<1>4. Cardinality(Clients) \in Nat
  BY CursorsAssumption, FS_CardinalityType
<1>5. DOMAIN cur' = Ids
  BY <1>1 DEF Next, Open, Fetch, End, Fin, Put, GetKey, Del, InUse, vars
<1>6. ASSUME NEW c \in Clients, Open(c) PROVE idm'.last <= Cardinality(Clients)
  <2>1. /\ idm' = IdmNew(idm) /\ c \notin Iterating
    BY <1>6 DEF Open, Iterating
  <2>2. /\ idm'.last \in {idm.last, idm.last + 1}
        /\ idm.free = <<>> => Held = 0 .. idm.last - 1
        /\ idm.free # <<>> => idm'.last = idm.last
    BY <1>2, <1>3, <2>1, NewAccounts
  <2>3. CASE idm.free = <<>>
    <3>1. Cardinality(Held) = idm.last
      BY <1>2, <2>2, <2>3, FS_Interval
    <3>2. IsFiniteSet(Clients \ {c}) /\ Cardinality(Clients \ {c}) = Cardinality(Clients) - 1
      BY CursorsAssumption, FS_RemoveElement
    <3>3. Iterating \subseteq Clients \ {c}
      BY <2>1 DEF Iterating
    <3>4. Cardinality(Iterating) <= Cardinality(Clients) - 1
      BY <3>2, <3>3, FS_Subset
    <3> QED
      BY <1>2, <1>3, <1>4, <2>2, <3>1, <3>4, HeldBounded
  <2> QED
    BY <1>1, <2>2, <2>3
<1>7. ASSUME NEW c \in Clients, End(c) \/ Fin(c) PROVE idm'.last <= Cardinality(Clients)
  <2>1. idm' = IdmDel(idm, client[c].id)
    BY <1>7 DEF End, Fin
  <2>2. CASE client[c].phase = "open"
    <3>1. client[c].id \in Held
      BY <2>2 DEF Held, Iterating
    <3>2. idm'.last <= idm.last
      BY <1>2, <1>3, <2>1, <3>1, DelAccounts
    <3> QED
      BY <1>1, <1>2, <1>3, <1>4, <3>2
  <2>3. CASE client[c].phase # "open"
    <3>1. Fin(c) /\ client[c].phase = "ended"
      BY <1>7, <2>3 DEF End, Fin
    <3>2. use.nested /\ Nested /\ client \in [Clients -> [phase : {"idle", "open", "ended"}, id : Nat]]
      BY <1>1, <3>1 DEF IInv, Apart
    <3>3. idm.last <= client[c].id /\ client[c].id \in Nat
      BY <1>2, <3>1, <3>2 DEF Nested
    <3>4. idm' = idm
      BY <1>2, <2>1, <3>3 DEF IdmDel
    <3> QED
      BY <1>1, <3>4
  <2> QED
    BY <2>2, <2>3
<1>8. ASSUME GetKey PROVE idm'.last <= Cardinality(Clients)
  <2>1. idm' = IdmDel(IdmNew(idm), IdmNewId(idm))
    BY <1>8 DEF GetKey
  <2>2. idm'.last <= idm.last
    <3>1. idm.free = <<>> => idm' = idm
      BY <1>2, <1>3, <2>1, Borrowed
    <3>2. idm.free # <<>> => idm'.last <= idm.last
      BY <1>2, <1>3, <2>1, Borrowed
    <3> QED
      BY <1>2, <3>1, <3>2
  <2> QED
    BY <1>1, <1>2, <1>3, <1>4, <2>2
<1>9. ASSUME Del PROVE idm'.last <= Cardinality(Clients)
  <2>1. /\ idm' = IdmDel(IdmDel(IdmNew(idm), IdmNewId(idm)), IdmNewId(idm))
        /\ "del" \in use.calls
    BY <1>9 DEF Del
  <2>2. idm.free = <<>>
    BY <1>1, <2>1 DEF Careful, IInv, Nested
  <2>3. idm' = idm
    BY <1>2, <1>3, <2>1, <2>2, Borrowed
  <2> QED
    BY <1>1, <2>3
<1>10. ASSUME UNCHANGED idm PROVE idm'.last <= Cardinality(Clients)
  BY <1>1, <1>10
<1>11. idm'.last <= Cardinality(Clients)
  <2>1. ASSUME NEW c \in Clients, Fetch(c) PROVE UNCHANGED idm
    BY <2>1 DEF Fetch
  <2>2. Put \/ UNCHANGED vars => UNCHANGED idm
    BY DEF Put, vars
  <2> QED
    BY <1>6, <1>7, <1>8, <1>9, <1>10, <2>1, <2>2 DEF Next
<1> QED
  BY <1>1, <1>5, <1>11 DEF CInv

(* What leaves the cell of a loop alone: all but the loop's own qmap_next. *)
Elsewhere(c) ==
    \/ \E d \in Clients : Open(d) \/ End(d) \/ Fin(d)
    \/ \E d \in Clients \ {c} : Fetch(d)
    \/ Put \/ GetKey \/ Del \/ UNCHANGED vars

LEMMA CellStays ==
    ASSUME CInv, NEW c \in Iterating, client'[c].phase = "open", Elsewhere(c)
    PROVE  cur'[client[c].id] = cur[client[c].id]
<1> DEFINE id == client[c].id
<1>1. /\ id \in Held /\ id \in Ids /\ c \in Clients /\ client[c].phase = "open"
      /\ DOMAIN cur = Ids
  BY HeldIds DEF CInv, Iterating
<1>2. Accounted /\ idm \in Manager /\ Accounts(idm, Held)
      /\ client \in [Clients -> [phase : {"idle", "open", "ended"}, id : Nat]]
  BY NestedAccounts DEF CInv, IInv, Apart, Accounted, Held
<1>3. IdmNewId(idm) # id
  BY <1>1, <1>2, Borrowed
<1>4. ASSUME NEW cells, NEW loops, cells[id] = cur[id],
             loops[c].phase = "open", loops[c].id = id
      PROVE  InUse(cells, loops)[id] = cur[id]
  BY <1>1, <1>4 DEF InUse
<1>5. ASSUME NEW k, NEW v, k # id PROVE [cur EXCEPT ![k] = v][id] = cur[id]
  BY <1>1, <1>5
<1>6. ASSUME NEW d \in Clients, Open(d) PROVE cur'[id] = cur[id]
  <2>1. PICK v : /\ cur' = InUse([cur EXCEPT ![IdmNewId(idm)] = v], client')
                 /\ client' = [client EXCEPT ![d] = [phase |-> "open", id |-> IdmNewId(idm)]]
                 /\ client[d].phase = "idle"
    BY <1>6 DEF Open
  <2>2. client'[c] = client[c]
    BY <1>1, <1>2, <2>1
  <2>3. [cur EXCEPT ![IdmNewId(idm)] = v][id] = cur[id]
    BY <1>3, <1>5
  <2> QED
    BY <1>1, <1>4, <2>1, <2>2, <2>3
<1>7. ASSUME NEW d \in Clients \ {c}, Fetch(d) PROVE cur'[id] = cur[id]
  <2>1. PICK v : cur' = InUse([cur EXCEPT ![client[d].id] = v], client)
    BY <1>7 DEF Fetch
  <2>2. d # c /\ d \in Iterating
    BY <1>7 DEF Fetch, Iterating
  <2>3. client[d].id # id
    BY <1>2, <2>2 DEF Accounted
  <2>4. [cur EXCEPT ![client[d].id] = v][id] = cur[id]
    BY <1>5, <2>3
  <2> QED
    BY <1>1, <1>4, <2>1, <2>4
<1>8. ASSUME NEW d \in Clients, End(d) \/ Fin(d) PROVE cur'[id] = cur[id]
  <2>1. /\ cur' = InUse(cur, client')
        /\ \/ client' = [client EXCEPT ![d] = Idle]
           \/ client' = [client EXCEPT ![d].phase = "ended"]
    BY <1>8 DEF End, Fin
  <2>2. d # c
    BY <1>1, <1>2, <2>1 DEF Idle
  <2>3. client'[c] = client[c]
    BY <1>1, <1>2, <2>1, <2>2
  <2> QED
    BY <1>1, <1>4, <2>1, <2>3
<1>9. ASSUME GetKey PROVE cur'[id] = cur[id]
  <2>1. PICK v : cur' = InUse([cur EXCEPT ![IdmNewId(idm)] = v], client)
    BY <1>9 DEF GetKey
  <2>2. [cur EXCEPT ![IdmNewId(idm)] = v][id] = cur[id]
    BY <1>3, <1>5
  <2> QED
    BY <1>1, <1>4, <2>1, <2>2
<1>10. ASSUME Del PROVE cur'[id] = cur[id]
  <2>1. PICK v : cur' = InUse([cur EXCEPT ![IdmNewId(idm)] = v], client)
    BY <1>10 DEF Del
  <2>2. [cur EXCEPT ![IdmNewId(idm)] = v][id] = cur[id]
    BY <1>3, <1>5
  <2> QED
    BY <1>1, <1>4, <2>1, <2>2
<1>11. ASSUME Put \/ UNCHANGED vars PROVE cur'[id] = cur[id]
  BY <1>11 DEF Put, vars
<1> HIDE DEF id
<1>12. cur'[id] = cur[id]
  BY <1>6, <1>7, <1>8, <1>9, <1>10, <1>11 DEF Elsewhere
<1> QED
  BY <1>12 DEF id

(* A cursor moves only when its own loop asks for the next entry, for      *)
(* every number of loops and whatever the others, puts, lookups and        *)
(* deletes do in between.                                                  *)
THEOREM CursorsUndisturbed == Careful => (Spec => Undisturbed)
<1> SUFFICES ASSUME Careful PROVE Spec => Undisturbed
  OBVIOUS
<1> DEFINE Stays == \A c \in Iterating :
        client'[c].phase = "open" /\ ~Fetch(c) => cur'[client[c].id] = cur[client[c].id]
<1>1. CInv /\ [Next]_vars => CInv'
  BY NextCInv
<1>2. CInv /\ [Next]_vars => Stays
  <2>1. ASSUME [Next]_vars, NEW c, ~Fetch(c) PROVE Elsewhere(c)
    BY <2>1 DEF Next, Elsewhere
  <2> QED
    BY <2>1, CellStays
<1> HIDE DEF Stays
<1>3. Spec => [][Stays]_vars
  BY InitCInv, <1>1, <1>2, PTL DEF Spec
<1> QED
  BY <1>3 DEF Undisturbed, Stays

-----------------------------------------------------------------------------
(* What loops return *)

(* Only loops with QM_RANGE over a QM_SORTED map read it in key order. *)
ByPosition == ~(use.range /\ use.sorted)

Cell == [pos : Nat \cup {MISS}, ipos : Nat \cup {MISS},
         key : Keys \cup {NULL}, range : BOOLEAN]

(* The entries a loop owes are ahead of its cursor; the one of a cursor on *)
(* a key is where the cursor started, and still is.                        *)
OwedAhead(t, cell, range, rest) ==
    /\ cell \in Cell
    /\ cell.range = range
    /\ rest \subseteq Ahead(t, cell)
    /\ cell.key # NULL /\ ~cell.range =>
           \A p \in rest : p = cell.ipos /\ p = cell.pos

Plain(t) == ~t.kind.multi /\ ~t.kind.shared

LInv ==
    /\ CInv
    /\ Healthy(tab) /\ Plain(tab)
    /\ DOMAIN owed = Clients
    /\ \A c \in Clients : client[c].phase # "open" => owed[c] = {}
    /\ \A c \in Iterating : OwedAhead(tab, cur[client[c].id], use.range, owed[c])

LEMMA InitLInv == Init => LInv
<1> SUFFICES ASSUME Init PROVE LInv
  OBVIOUS
<1> DEFINE kind == [hash |-> Hash, multi |-> FALSE, nogrow |-> FALSE, shared |-> FALSE]
<1>1. tab = EmptyTable(InitM, kind)
  BY DEF Init
<1>2. kind \in Kind /\ InitM \in Nat /\ InitM > 1 /\ ~kind.multi /\ ~kind.shared /\ ~kind.nogrow
  BY CursorsAssumption DEF Kind
<1> HIDE DEF kind
<1>3. Sound(tab) /\ tab.n = 0 /\ tab.m = InitM /\ tab.kind = kind
  BY <1>1, <1>2, EmptySound
<1>4. Healthy(tab) /\ Plain(tab)
  BY <1>2, <1>3 DEF Healthy, LoadBounded, Plain
<1>5. /\ DOMAIN owed = Clients /\ \A c \in Clients : owed[c] = {}
      /\ Iterating = {}
  BY DEF Init, Idle, Iterating
<1> QED
  BY <1>4, <1>5, InitCInv DEF LInv

(* A table that retains the entries has them ahead of the same cursors. *)
LEMMA StillAhead ==
    ASSUME NEW t, NEW u, NEW cell, NEW range, NEW rest, NEW less,
           OwedAhead(t, cell, range, rest), less \subseteq rest,
           \A q \in less : q \in Live(u) /\ u.omap[q] = t.omap[q]
    PROVE  OwedAhead(u, cell, range, less)
  BY DEF OwedAhead, Ahead

(* qmap_lnext by position *)
LEMMA LnextFinds ==
    ASSUME NEW t, NEW cell \in Cell, ~(cell.range /\ use.sorted)
    PROVE  LET next == Lnext(t, cell)
           IN  \/ /\ next.sn = MISS
                  /\ \/ Ahead(t, cell) = {}
                     \/ /\ cell.key # NULL /\ ~cell.range
                        /\ Min(Ahead(t, cell)) # cell.ipos
               \/ /\ next.sn # MISS /\ next.sn \in Ahead(t, cell)
                  /\ next.sn = Min(Ahead(t, cell))
                  /\ next.cur = [cell EXCEPT !.pos = next.sn + 1]
                  /\ cell.key # NULL /\ ~cell.range => next.sn = cell.ipos
<1>1. Lnext(t, cell) = LnextByPosition(t, cell)
  BY DEF Lnext
<1>2. Ahead(t, cell) \subseteq Nat
  BY DEF Ahead, Live
<1>3. CASE Ahead(t, cell) = {}
  BY <1>1, <1>3 DEF LnextByPosition
<1>4. CASE Ahead(t, cell) # {}
  <2> DEFINE p == Min(Ahead(t, cell))
  <2>1. p \in Ahead(t, cell) /\ p \in Nat /\ p # MISS
    BY <1>2, <1>4, MinIsLeast DEF MISS
  <2> HIDE DEF p
  <2>2. CASE cell.key # NULL /\ ~cell.range /\ p # cell.ipos
    <3>1. LnextByPosition(t, cell) = [sn |-> MISS, cur |-> [cell EXCEPT !.pos = p]]
      BY <1>4, <2>2 DEF LnextByPosition, p
    <3> QED
      BY <1>1, <2>2, <3>1 DEF p
  <2>3. CASE ~(cell.key # NULL /\ ~cell.range /\ p # cell.ipos)
    <3>1. LnextByPosition(t, cell) = [sn |-> p, cur |-> Moved(cell, p)]
      BY <1>4, <2>3 DEF LnextByPosition, p
    <3> QED
      BY <1>1, <2>1, <2>3, <3>1 DEF Moved, p
  <2> QED
    BY <2>2, <2>3
<1> QED
  BY <1>3, <1>4

(* A loop whose next entry is missing owes nothing. *)
LEMMA NothingOwed ==
    ASSUME NEW t, NEW cell, NEW rest, OwedAhead(t, cell, use.range, rest),
           ~(use.range /\ use.sorted), Lnext(t, cell).sn = MISS
    PROVE  rest = {}
<1> SUFFICES ASSUME NEW q \in rest PROVE FALSE
  OBVIOUS
<1>1. /\ cell \in Cell /\ ~(cell.range /\ use.sorted) /\ q \in Ahead(t, cell)
      /\ Ahead(t, cell) \subseteq Nat
  BY DEF OwedAhead, Ahead, Live
<1>2. cell.key # NULL /\ ~cell.range /\ Min(Ahead(t, cell)) # cell.ipos
  BY <1>1, LnextFinds
<1>3. q = cell.ipos /\ q = cell.pos
  BY <1>2 DEF OwedAhead
<1>4. Min(Ahead(t, cell)) \in Ahead(t, cell) /\ Min(Ahead(t, cell)) <= q
  BY <1>1, MinIsLeast
<1>5. Min(Ahead(t, cell)) >= cell.pos
  BY <1>4 DEF Ahead
<1> QED
  BY <1>1, <1>2, <1>3, <1>4, <1>5

(* After it returned an entry the cursor is behind it. *)
LEMMA OwedAfterNext ==
    ASSUME NEW t, NEW cell, NEW rest, OwedAhead(t, cell, use.range, rest),
           ~(use.range /\ use.sorted), Lnext(t, cell).sn # MISS
    PROVE  OwedAhead(t, Lnext(t, cell).cur, use.range, rest \ {Lnext(t, cell).sn})
<1> DEFINE sn == Lnext(t, cell).sn
           after == Lnext(t, cell).cur
<1>1. /\ cell \in Cell /\ ~(cell.range /\ use.sorted) /\ rest \subseteq Ahead(t, cell)
      /\ cell.range = use.range /\ Ahead(t, cell) \subseteq Nat
  BY DEF OwedAhead, Ahead, Live
<1>2. /\ sn \in Ahead(t, cell) /\ sn = Min(Ahead(t, cell))
      /\ after = [cell EXCEPT !.pos = sn + 1]
      /\ cell.key # NULL /\ ~cell.range => sn = cell.ipos
  BY <1>1, LnextFinds
<1> HIDE DEF sn, after
<1>3. /\ sn \in Nat /\ sn + 1 # MISS
      /\ after \in Cell /\ after.pos = sn + 1 /\ after.ipos = cell.ipos
      /\ after.key = cell.key /\ after.range = cell.range
  BY <1>1, <1>2 DEF Cell, MISS
<1>4. \A q \in rest \ {sn} : q \in Nat /\ q >= sn + 1
  BY <1>1, <1>2, <1>3, MinIsLeast
<1>5. rest \ {sn} \subseteq Ahead(t, after)
  BY <1>1, <1>3, <1>4 DEF Ahead
<1>6. cell.key # NULL /\ ~cell.range => rest \ {sn} = {}
  BY <1>2 DEF OwedAhead
<1> QED
  BY <1>1, <1>3, <1>5, <1>6 DEF OwedAhead, sn, after

(* A loop that begins owes what is ahead of its cursor. *)
LEMMA OwedAtStart ==
    ASSUME NEW t, Typed(t), NEW key \in Keys \cup {NULL}, NEW range \in BOOLEAN,
           ~(range /\ use.sorted), NEW rest,
           rest = IF key = NULL THEN Live(t)
                  ELSE IF range THEN {p \in Live(t) : t.omap[p] >= key}
                  ELSE Live(t) \cap {Started(t, key, range).pos}
    PROVE  OwedAhead(t, Started(t, key, range), range, rest)
<1> DEFINE s == Started(t, key, range)
<1>1. Live(t) \subseteq Nat /\ MISS \notin Nat /\ 0 \in Nat
  BY DEF Live, MISS
<1>2. CASE key = NULL \/ range
  <2>1. s = [pos |-> 0, ipos |-> 0, key |-> key, range |-> range]
    BY <1>2 DEF Started
  <2> HIDE DEF s
  <2>2. s \in Cell /\ s.range = range /\ s.pos = 0 /\ s.key = key
    BY <1>1, <2>1 DEF Cell
  <2>3. rest \subseteq Ahead(t, s)
    BY <1>1, <1>2, <2>2 DEF Ahead
  <2> QED
    BY <1>2, <2>2, <2>3 DEF OwedAhead, s
<1>3. CASE key # NULL /\ ~range
  <2> DEFINE id == Lookup(t, key)
             at == IF id = MISS THEN MISS ELSE t.map[id]
  <2>1. s = [pos |-> at, ipos |-> at, key |-> key, range |-> range]
    BY <1>3 DEF Started
  <2>2. at \in Nat \cup {MISS}
    BY <1>3, Fields, LookupStops
  <2> HIDE DEF s, at
  <2>3. s \in Cell /\ s.range = range /\ s.pos = at /\ s.ipos = at
    BY <1>1, <2>1, <2>2 DEF Cell
  <2>4. rest = Live(t) \cap {at}
    BY <1>3, <2>3 DEF s
  <2>5. rest \subseteq Ahead(t, s)
    BY <1>1, <1>3, <2>3, <2>4 DEF Ahead
  <2> QED
    BY <1>3, <2>3, <2>4, <2>5 DEF OwedAhead, s
<1> QED
  BY <1>2, <1>3

(* Loops other than those that act keep what they owe. *)
LEMMA OthersKeep ==
    ASSUME LInv, NEW c \in Iterating, client'[c] = client[c], use' = use,
           Elsewhere(c), NEW gone, owed'[c] = owed[c] \ gone,
           \A q \in Live(tab) \ gone : q \in Live(tab') /\ tab'.omap[q] = tab.omap[q]
    PROVE  OwedAhead(tab', cur'[client'[c].id], use'.range, owed'[c])
<1>1. OwedAhead(tab, cur[client[c].id], use.range, owed[c]) /\ CInv
      /\ client'[c].phase = "open"
  BY DEF LInv, Iterating
<1>2. cur'[client'[c].id] = cur[client[c].id]
  BY <1>1, CellStays
<1>3. owed[c] \subseteq Live(tab)
  BY <1>1 DEF OwedAhead, Ahead
<1>4. \A q \in owed'[c] : q \in Live(tab') /\ tab'.omap[q] = tab.omap[q]
  BY <1>3
<1>5. OwedAhead(tab', cur[client[c].id], use.range, owed'[c])
  BY <1>1, <1>4, StillAhead
<1> QED
  BY <1>2, <1>5

LEMMA OpenLInv ==
    ASSUME ByPosition, LInv, CInv', NEW c \in Clients, Open(c)
    PROVE  LInv'
<1> DEFINE id == IdmNewId(idm)
<1>1. PICK key \in Keys \cup {NULL} :
         /\ client[c].phase = "idle"
         /\ idm' = IdmNew(idm)
         /\ client' = [client EXCEPT ![c] = [phase |-> "open", id |-> id]]
         /\ owed' = [owed EXCEPT ![c] =
                IF key = NULL THEN Live(tab)
                ELSE IF use.range THEN {p \in Live(tab) : tab.omap[p] >= key}
                ELSE Live(tab) \cap {Started(tab, key, use.range).pos}]
         /\ cur' = InUse([cur EXCEPT ![id] = Started(tab, key, use.range)], client')
         /\ use' = use /\ tab' = tab
  BY DEF Open
<1> DEFINE s == Started(tab, key, use.range)
<1>2. /\ CInv /\ use \in Uses /\ idm \in Manager /\ DOMAIN cur = Ids
      /\ client \in [Clients -> [phase : {"idle", "open", "ended"}, id : Nat]]
      /\ DOMAIN owed = Clients /\ Typed(tab) /\ use.range \in BOOLEAN
      /\ ~(use.range /\ use.sorted)
  BY CursorsAssumption DEF LInv, CInv, IInv, Healthy, Sound, ByPosition
<1>3. Accounts(idm, Held)
  BY <1>2, NestedAccounts DEF CInv, IInv, Apart, Accounted, Held
<1>4. id \in Ids
  <2>1. id \in Nat /\ id < IdmNew(idm).last /\ IdmNew(idm) \in Manager
    BY <1>2, <1>3, NewAccounts
  <2>2. idm'.last <= Cardinality(Clients) /\ Cardinality(Clients) \in Nat
    BY CursorsAssumption, FS_CardinalityType DEF CInv
  <2> HIDE DEF id
  <2> QED
    BY <1>1, <2>1, <2>2 DEF Ids, Manager
<1> HIDE DEF id, s
<1>5. /\ client'[c].phase = "open" /\ client'[c].id = id
      /\ \A d \in Clients \ {c} : client'[d] = client[d] /\ owed'[d] = owed[d]
      /\ DOMAIN owed' = Clients
      /\ owed'[c] = IF key = NULL THEN Live(tab)
                    ELSE IF use.range THEN {p \in Live(tab) : tab.omap[p] >= key}
                    ELSE Live(tab) \cap {s.pos}
  BY <1>1, <1>2 DEF s
<1>6. cur'[client'[c].id] = s
  <2>1. InUse([cur EXCEPT ![id] = s], client')[id] = [cur EXCEPT ![id] = s][id]
    BY <1>4, <1>5 DEF InUse
  <2>2. [cur EXCEPT ![id] = s][id] = s
    BY <1>2, <1>4
  <2> QED
    BY <1>1, <1>5, <2>1, <2>2 DEF s
<1>7. OwedAhead(tab', cur'[client'[c].id], use'.range, owed'[c])
  <2>1. OwedAhead(tab, s, use.range, owed'[c])
    BY <1>2, <1>5, OwedAtStart DEF s
  <2> QED
    BY <1>1, <1>6, <2>1
<1>8. ASSUME NEW d \in Iterating', d # c
      PROVE  OwedAhead(tab', cur'[client'[d].id], use'.range, owed'[d])
  <2>1. d \in Iterating /\ client'[d] = client[d] /\ owed'[d] = owed[d] \ {}
    BY <1>5, <1>8 DEF Iterating
  <2>2. Elsewhere(d)
    BY DEF Elsewhere
  <2>3. \A q \in Live(tab) \ {} : q \in Live(tab') /\ tab'.omap[q] = tab.omap[q]
    BY <1>1
  <2> QED
    BY <1>1, <2>1, <2>2, <2>3, OthersKeep
<1>9. ASSUME NEW d \in Clients, client'[d].phase # "open" PROVE owed'[d] = {}
  BY <1>5, <1>9 DEF LInv
<1>10. Healthy(tab') /\ Plain(tab')
  BY <1>1 DEF LInv
<1> QED
  BY <1>5, <1>7, <1>8, <1>9, <1>10 DEF LInv

LEMMA FetchLInv ==
    ASSUME ByPosition, LInv, CInv', NEW c \in Clients, Fetch(c)
    PROVE  LInv'
<1> DEFINE id == client[c].id
           next == Lnext(tab, cur[id])
<1>1. /\ client[c].phase = "open" /\ next.sn # MISS
      /\ owed' = [owed EXCEPT ![c] = owed[c] \ {next.sn}]
      /\ cur' = InUse([cur EXCEPT ![id] = next.cur], client)
      /\ UNCHANGED <<use, tab, client>>
  BY DEF Fetch
<1>2. /\ CInv /\ use \in Uses /\ ~(use.range /\ use.sorted)
      /\ DOMAIN cur = Ids /\ DOMAIN owed = Clients
      /\ c \in Iterating
  BY <1>1 DEF LInv, CInv, IInv, ByPosition, Iterating
<1>3. id \in Ids
  BY <1>2, HeldIds
<1>4. OwedAhead(tab, cur[id], use.range, owed[c])
  BY <1>2 DEF LInv
<1>5. OwedAhead(tab, next.cur, use.range, owed[c] \ {next.sn})
  BY <1>1, <1>2, <1>4, OwedAfterNext
<1> HIDE DEF next
<1>6. cur'[id] = next.cur
  <2>1. InUse([cur EXCEPT ![id] = next.cur], client)[id] = [cur EXCEPT ![id] = next.cur][id]
    BY <1>1, <1>3 DEF InUse
  <2>2. [cur EXCEPT ![id] = next.cur][id] = next.cur
    BY <1>2, <1>3
  <2> QED
    BY <1>1, <2>1, <2>2
<1>7. OwedAhead(tab', cur'[client'[c].id], use'.range, owed'[c])
  BY <1>1, <1>2, <1>5, <1>6
<1>8. ASSUME NEW d \in Iterating', d # c
      PROVE  OwedAhead(tab', cur'[client'[d].id], use'.range, owed'[d])
  <2>1. d \in Iterating /\ client'[d] = client[d] /\ owed'[d] = owed[d] \ {}
    BY <1>1, <1>2, <1>8 DEF Iterating
  <2>2. Elsewhere(d)
    BY <1>8 DEF Elsewhere
  <2>3. \A q \in Live(tab) \ {} : q \in Live(tab') /\ tab'.omap[q] = tab.omap[q]
    BY <1>1
  <2> QED
    BY <1>1, <2>1, <2>2, <2>3, OthersKeep
<1>9. DOMAIN owed' = Clients
      /\ \A d \in Clients : client'[d].phase # "open" => owed'[d] = {}
  BY <1>1, <1>2 DEF LInv
<1>10. Healthy(tab') /\ Plain(tab')
  BY <1>1 DEF LInv
<1> QED
  BY <1>7, <1>8, <1>9, <1>10 DEF LInv

(* qmap_next at the end of a loop, and qmap_fin *)
LEMMA LeaveLInv ==
    ASSUME ByPosition, LInv, CInv', NEW c \in Clients, End(c) \/ Fin(c)
    PROVE  LInv'
<1>1. /\ UNCHANGED <<use, tab>>
      /\ \/ client' = [client EXCEPT ![c] = Idle]
         \/ client' = [client EXCEPT ![c].phase = "ended"]
  BY DEF End, Fin
<1>2. /\ CInv /\ use \in Uses /\ ~(use.range /\ use.sorted)
      /\ DOMAIN owed = Clients
      /\ client \in [Clients -> [phase : {"idle", "open", "ended"}, id : Nat]]
  BY DEF LInv, CInv, IInv, ByPosition
<1>3. /\ DOMAIN owed' = Clients /\ owed'[c] = {}
      /\ \A d \in Clients \ {c} : owed'[d] = owed[d]
  <2>1. CASE Fin(c)
    BY <1>2, <2>1 DEF Fin
  <2>2. CASE End(c)
    <3>1. /\ client[c].phase = "open" /\ owed' = owed
          /\ Lnext(tab, cur[client[c].id]).sn = MISS
      BY <2>2 DEF End
    <3>2. OwedAhead(tab, cur[client[c].id], use.range, owed[c])
      BY <3>1 DEF LInv, Iterating
    <3>3. owed[c] = {}
      BY <1>2, <3>1, <3>2, NothingOwed
    <3> QED
      BY <1>2, <3>1, <3>3
  <2> QED
    BY <2>1, <2>2
<1>4. /\ client'[c].phase # "open"
      /\ \A d \in Clients \ {c} : client'[d] = client[d]
  BY <1>1, <1>2 DEF Idle
<1>5. ASSUME NEW d \in Iterating'
      PROVE  OwedAhead(tab', cur'[client'[d].id], use'.range, owed'[d])
  <2>1. d # c /\ d \in Clients
    BY <1>4, <1>5 DEF Iterating
  <2>2. d \in Iterating /\ client'[d] = client[d] /\ owed'[d] = owed[d] \ {}
    BY <1>3, <1>4, <1>5, <2>1 DEF Iterating
  <2>3. Elsewhere(d)
    BY DEF Elsewhere
  <2>4. \A q \in Live(tab) \ {} : q \in Live(tab') /\ tab'.omap[q] = tab.omap[q]
    BY <1>1
  <2> QED
    BY <1>1, <2>2, <2>3, <2>4, OthersKeep
<1>6. \A d \in Clients : client'[d].phase # "open" => owed'[d] = {}
  BY <1>3, <1>4 DEF LInv
<1>7. Healthy(tab') /\ Plain(tab')
  BY <1>1 DEF LInv
<1> QED
  BY <1>3, <1>5, <1>6, <1>7 DEF LInv

(* The other calls: loops lose at most the entries deleted. *)
LEMMA CallLInv ==
    ASSUME LInv, CInv', UNCHANGED <<use, client>>,
           Put \/ GetKey \/ Del \/ UNCHANGED vars,
           Healthy(tab'), Plain(tab'), DOMAIN owed' = Clients, NEW gone,
           \A c \in Clients : owed'[c] = owed[c] \ gone,
           \A q \in Live(tab) \ gone : q \in Live(tab') /\ tab'.omap[q] = tab.omap[q]
    PROVE  LInv'
<1>1. ASSUME NEW c \in Iterating'
      PROVE  OwedAhead(tab', cur'[client'[c].id], use'.range, owed'[c])
  <2>1. c \in Iterating /\ client'[c] = client[c] /\ owed'[c] = owed[c] \ gone
    BY <1>1 DEF Iterating
  <2>2. Elsewhere(c)
    BY DEF Elsewhere
  <2> QED
    BY <2>1, <2>2, OthersKeep
<1>2. \A c \in Clients : client'[c].phase # "open" => owed'[c] = {}
  BY DEF LInv
<1> QED
  BY <1>1, <1>2 DEF LInv

LEMMA PutLInv == ASSUME LInv, CInv', Put PROVE LInv'
<1>1. PICK key \in Keys, val \in Vals :
         /\ tab' = PutKey(tab, key, val, MISS).tab
         /\ UNCHANGED <<use, client, owed>>
  BY DEF Put
<1>2. Healthy(tab) /\ ~tab.kind.multi /\ ~tab.kind.shared /\ DOMAIN owed = Clients
  BY DEF LInv, Plain
<1>3. Healthy(tab') /\ tab'.kind = tab.kind /\ Retains(tab, tab')
  BY <1>1, <1>2, PutKeySound
<1>4. Plain(tab')
  BY <1>2, <1>3 DEF Plain
<1>5. \A c \in Clients : owed'[c] = owed[c] \ {}
  BY <1>1
<1>6. \A q \in Live(tab) \ {} : q \in Live(tab') /\ tab'.omap[q] = tab.omap[q]
  BY <1>3 DEF Retains
<1> QED
  BY <1>1, <1>2, <1>3, <1>4, <1>5, <1>6, CallLInv

(* qmap_del finds the entry of its key, and no other. *)
LEMMA DelFinds ==
    ASSUME NEW t, Typed(t), NEW key \in Keys,
           Lnext(t, Started(t, key, FALSE)).sn # MISS
    PROVE  LET id == Lookup(t, key)
           IN  /\ id \in Slots(t) /\ t.map[id] # MISS
               /\ Lnext(t, Started(t, key, FALSE)).sn = t.map[id]
               /\ t.omap[t.map[id]] = key
<1> DEFINE s  == Started(t, key, FALSE)
           id == Lookup(t, key)
           sn == Lnext(t, s).sn
<1>1. s = [pos |-> IF id = MISS THEN MISS ELSE t.map[id],
           ipos |-> IF id = MISS THEN MISS ELSE t.map[id],
           key |-> key, range |-> FALSE]
  BY Sentinels DEF Started
<1>2. key # NULL /\ MISS \notin Nat
  BY Sentinels
<1> HIDE DEF s
<1>3. /\ s.key = key /\ ~s.range /\ s.pos = s.ipos
      /\ s.pos = IF id = MISS THEN MISS ELSE t.map[id]
  BY <1>1
<1>4. (IF id = MISS THEN MISS ELSE t.map[id]) \in Nat \cup {MISS}
  BY Fields, LookupStops
<1>5. s \in Cell
  BY <1>1, <1>4 DEF Cell
<1>6. sn # MISS /\ sn \in Ahead(t, s) /\ sn = s.ipos
  BY <1>2, <1>3, <1>5, LnextFinds DEF s
<1> HIDE DEF sn
<1>7. id # MISS /\ sn = t.map[id]
  BY <1>3, <1>6
<1> HIDE DEF id
<1>8. id \in Slots(t) /\ (t.map[id] = MISS \/ t.omap[t.map[id]] = key)
  BY <1>7, LookupStops DEF id
<1> QED
  BY <1>6, <1>7, <1>8 DEF sn, id, s

LEMMA DelLInv == ASSUME LInv, CInv', Del PROVE LInv'
<1>1. PICK key \in Keys :
        LET found == Lnext(tab, Started(tab, key, FALSE))
        IN  /\ IF found.sn = MISS THEN UNCHANGED <<tab, owed>>
               ELSE /\ tab' = DeleteAt(tab, found.sn)
                    /\ owed' = [c \in Clients |-> owed[c] \ {found.sn}]
            /\ UNCHANGED <<use, client>>
  BY DEF Del
<1> DEFINE sn == Lnext(tab, Started(tab, key, FALSE)).sn
<1>2. Healthy(tab) /\ Plain(tab) /\ DOMAIN owed = Clients /\ Sound(tab) /\ Typed(tab)
  BY DEF LInv, Healthy, Sound
<1>3. CASE sn = MISS
  <2>1. UNCHANGED <<use, client, tab, owed>>
    BY <1>1, <1>3
  <2>2. \A c \in Clients : owed'[c] = owed[c] \ {}
    BY <2>1
  <2>3. \A q \in Live(tab) \ {} : q \in Live(tab') /\ tab'.omap[q] = tab.omap[q]
    BY <2>1
  <2>4. Healthy(tab') /\ Plain(tab') /\ DOMAIN owed' = Clients
    BY <1>2, <2>1
  <2> QED
    BY <2>1, <2>2, <2>3, <2>4, CallLInv
<1>4. CASE sn # MISS
  <2> DEFINE id == Lookup(tab, key)
             u  == DeleteAt(tab, tab.map[id])
  <2>1. /\ id \in Slots(tab) /\ tab.map[id] # MISS /\ sn = tab.map[id]
        /\ tab.omap[tab.map[id]] = key
    BY <1>2, <1>4, DelFinds
  <2>2. tab' = u /\ owed' = [c \in Clients |-> owed[c] \ {sn}] /\ UNCHANGED <<use, client>>
    BY <1>1, <1>4, <2>1
  <2>3. id = Lookup(tab, tab.omap[tab.map[id]])
    BY <2>1
  <2>4. /\ Sound(u)
        /\ u.n = tab.n - 1 /\ u.m = tab.m /\ u.kind = tab.kind
        /\ EntriesSlotted(tab) => EntriesSlotted(u)
        /\ \A q \in Live(tab) \ {tab.map[id]} : q \in Live(u) /\ u.omap[q] = tab.omap[q]
    BY <1>2, <2>1, <2>3, DeleteSound
  <2> HIDE DEF u, sn, id
  <2>5. tab.n \in Nat /\ tab.m \in Nat
    BY <1>2, Fields
  <2>6. LoadBounded(tab) => LoadBounded(u)
    BY <2>4, <2>5 DEF LoadBounded
  <2>7. Healthy(tab') /\ Plain(tab')
    BY <1>2, <2>2, <2>4, <2>6 DEF Healthy, Plain
  <2>8. DOMAIN owed' = Clients /\ \A c \in Clients : owed'[c] = owed[c] \ {sn}
    BY <2>2
  <2>9. \A q \in Live(tab) \ {sn} : q \in Live(tab') /\ tab'.omap[q] = tab.omap[q]
    BY <2>1, <2>2, <2>4
  <2> QED
    BY <2>2, <2>7, <2>8, <2>9, CallLInv
<1> QED
  BY <1>3, <1>4

LEMMA NextLInv == ASSUME Careful, ByPosition, LInv, [Next]_vars PROVE LInv'
<1>1. CInv'
  BY NextCInv DEF LInv
<1>2. ASSUME GetKey \/ UNCHANGED vars PROVE LInv'
  <2>1. UNCHANGED <<use, client, tab, owed>>
    BY <1>2 DEF GetKey, vars
  <2>2. \A c \in Clients : owed'[c] = owed[c] \ {}
    BY <2>1
  <2>3. \A q \in Live(tab) \ {} : q \in Live(tab') /\ tab'.omap[q] = tab.omap[q]
    BY <2>1
  <2>4. Healthy(tab') /\ Plain(tab') /\ DOMAIN owed' = Clients
    BY <2>1 DEF LInv
  <2> QED
    BY <1>1, <1>2, <2>1, <2>2, <2>3, <2>4, CallLInv
<1> QED
  BY <1>1, <1>2, OpenLInv, FetchLInv, LeaveLInv, PutLInv, DelLInv DEF Next

-----------------------------------------------------------------------------
(* No entry twice *)

(* A loop has returned only positions behind its cursor. *)
Behind(cell, been) == \A p \in been : p \in Nat /\ cell.pos # MISS /\ p < cell.pos

SInv ==
    /\ LInv
    /\ DOMAIN seen = Clients
    /\ \A c \in Iterating : Behind(cur[client[c].id], seen[c])

LEMMA OthersSeen ==
    ASSUME SInv, NEW c \in Iterating, client'[c] = client[c], Elsewhere(c),
           seen'[c] \subseteq seen[c]
    PROVE  Behind(cur'[client'[c].id], seen'[c])
<1>1. CInv /\ client'[c].phase = "open" /\ Behind(cur[client[c].id], seen[c])
  BY DEF SInv, LInv, Iterating
<1>2. cur'[client'[c].id] = cur[client[c].id]
  BY <1>1, CellStays
<1> QED
  BY <1>1, <1>2 DEF Behind

LEMMA NextSInv == ASSUME Careful, ByPosition, SInv, [Next]_vars PROVE SInv'
<1>1. /\ LInv /\ LInv' /\ CInv /\ use \in Uses /\ ~(use.range /\ use.sorted)
      /\ DOMAIN seen = Clients /\ DOMAIN cur = Ids
      /\ client \in [Clients -> [phase : {"idle", "open", "ended"}, id : Nat]]
  BY NextLInv DEF SInv, LInv, CInv, IInv, ByPosition
<1>2. ASSUME NEW c \in Clients, Open(c) \/ End(c) \/ Fin(c) PROVE SInv'
  <2>1. /\ seen' = [seen EXCEPT ![c] = {}]
        /\ \A d \in Clients \ {c} : client'[d] = client[d]
    BY <1>1, <1>2 DEF Open, End, Fin
  <2>2. ASSUME NEW d \in Iterating' PROVE Behind(cur'[client'[d].id], seen'[d])
    <3>1. CASE d = c
      BY <1>1, <2>1, <3>1 DEF Behind
    <3>2. CASE d # c
      <4>1. d \in Iterating /\ client'[d] = client[d] /\ seen'[d] \subseteq seen[d]
        BY <1>1, <2>1, <2>2, <3>2 DEF Iterating
      <4>2. Elsewhere(d)
        BY <1>2 DEF Elsewhere
      <4> QED
        BY <4>1, <4>2, OthersSeen
    <3> QED
      BY <3>1, <3>2
  <2> QED
    BY <1>1, <2>1, <2>2 DEF SInv
<1>3. ASSUME NEW c \in Clients, Fetch(c) PROVE SInv'
  <2> DEFINE id == client[c].id
             next == Lnext(tab, cur[id])
  <2>1. /\ client[c].phase = "open" /\ next.sn # MISS
        /\ seen' = [seen EXCEPT ![c] = seen[c] \cup {next.sn}]
        /\ cur' = InUse([cur EXCEPT ![id] = next.cur], client)
        /\ UNCHANGED <<use, tab, client>>
    BY <1>3 DEF Fetch
  <2>2. c \in Iterating /\ id \in Ids
    BY <1>1, <2>1, HeldIds DEF Iterating
  <2>3. /\ OwedAhead(tab, cur[id], use.range, owed[c])
        /\ Behind(cur[id], seen[c])
    BY <1>1, <2>2 DEF SInv, LInv
  <2>4. cur[id] \in Cell /\ ~(cur[id].range /\ use.sorted)
    BY <1>1, <2>3 DEF OwedAhead
  <2>5. next.sn \in Ahead(tab, cur[id]) /\ next.cur = [cur[id] EXCEPT !.pos = next.sn + 1]
    BY <2>1, <2>4, LnextFinds
  <2> HIDE DEF next
  <2>6. /\ next.sn \in Nat /\ cur[id].pos # MISS /\ next.sn >= cur[id].pos
        /\ next.sn + 1 # MISS /\ next.cur.pos = next.sn + 1
        /\ cur[id].pos \in Nat
    BY <2>4, <2>5 DEF Ahead, Live, Cell, MISS
  <2>7. Behind(next.cur, seen[c] \cup {next.sn})
    BY <2>3, <2>6 DEF Behind
  <2>8. cur'[id] = next.cur
    <3>1. InUse([cur EXCEPT ![id] = next.cur], client)[id] = [cur EXCEPT ![id] = next.cur][id]
      BY <2>1, <2>2 DEF InUse
    <3>2. [cur EXCEPT ![id] = next.cur][id] = next.cur
      BY <1>1, <2>2
    <3> QED
      BY <2>1, <3>1, <3>2
  <2>9. ASSUME NEW d \in Iterating' PROVE Behind(cur'[client'[d].id], seen'[d])
    <3>1. CASE d = c
      BY <1>1, <2>1, <2>7, <2>8, <3>1
    <3>2. CASE d # c
      <4>1. d \in Iterating /\ client'[d] = client[d] /\ seen'[d] \subseteq seen[d]
        BY <1>1, <2>1, <2>9, <3>2 DEF Iterating
      <4>2. Elsewhere(d)
        BY <1>3, <3>2 DEF Elsewhere
      <4> QED
        BY <4>1, <4>2, OthersSeen
    <3> QED
      BY <3>1, <3>2
  <2> QED
    BY <1>1, <2>1, <2>9 DEF SInv
<1>4. ASSUME Put \/ GetKey \/ Del \/ UNCHANGED vars PROVE SInv'
  <2>1. /\ UNCHANGED client /\ DOMAIN seen' = Clients
        /\ \A c \in Clients : seen'[c] \subseteq seen[c]
    <3>1. CASE Put \/ GetKey \/ UNCHANGED vars
      BY <1>1, <3>1 DEF Put, GetKey, vars
    <3>2. CASE Del
      <4>1. PICK sn : /\ seen' = seen \/ seen' = [c \in Clients |-> seen[c] \ {sn}]
                      /\ UNCHANGED client
        BY <3>2 DEF Del
      <4> QED
        BY <1>1, <4>1
    <3> QED
      BY <1>4, <3>1, <3>2
  <2>2. ASSUME NEW c \in Iterating' PROVE Behind(cur'[client'[c].id], seen'[c])
    <3>1. c \in Iterating /\ client'[c] = client[c] /\ seen'[c] \subseteq seen[c]
      BY <2>1, <2>2 DEF Iterating
    <3>2. Elsewhere(c)
      BY <1>4 DEF Elsewhere
    <3> QED
      BY <3>1, <3>2, OthersSeen
  <2> QED
    BY <1>1, <2>1, <2>2 DEF SInv
<1> QED
  BY <1>2, <1>3, <1>4 DEF Next

LEMMA ByPositionOnce == ASSUME SInv, ByPosition PROVE Once
<1> SUFFICES ASSUME NEW c \in Iterating,
                    Lnext(tab, cur[client[c].id]).sn # MISS
             PROVE  LET cell == cur[client[c].id]
                        sn   == Lnext(tab, cell).sn
                    IN  /\ sn \notin seen[c]
                        /\ use.range /\ cell.key # NULL => tab.omap[sn] >= cell.key
                        /\ ~(use.range /\ use.sorted)
  BY DEF Once
<1> DEFINE cell == cur[client[c].id]
           sn == Lnext(tab, cell).sn
<1>1. /\ cell \in Cell /\ cell.range = use.range /\ Behind(cell, seen[c])
      /\ ~(use.range /\ use.sorted)
  BY DEF SInv, LInv, OwedAhead, ByPosition
<1>2. sn \in Ahead(tab, cell)
  BY <1>1, LnextFinds
<1> HIDE DEF cell, sn
<1>3. /\ sn \in Nat /\ cell.pos \in Nat /\ sn >= cell.pos
      /\ use.range /\ cell.key # NULL => tab.omap[sn] >= cell.key
  BY <1>1, <1>2 DEF Ahead, Live, Cell
<1>4. sn \notin seen[c]
  BY <1>1, <1>3 DEF Behind
<1> QED
  BY <1>1, <1>3, <1>4 DEF cell, sn

-----------------------------------------------------------------------------
(* Types *)

(* A cell that no loop uses is blank, and the history is of positions. *)
Shape ==
    /\ cur = InUse(cur, client)
    /\ client \in [Clients -> [phase : {"idle", "open", "ended"}, id : Ids]]
    /\ owed \in [Clients -> SUBSET Nat] /\ seen \in [Clients -> SUBSET Nat]

LEMMA InitShape == Init => Shape
<1> SUFFICES ASSUME Init PROVE Shape
  OBVIOUS
<1>1. 0 \in Ids
  BY CursorsAssumption, FS_CardinalityType DEF Ids
<1>2. cur = InUse(cur, client)
  BY DEF Init, InUse
<1> QED
  BY <1>1, <1>2 DEF Init, Shape, Idle

LEMMA InUseAgain ==
    ASSUME NEW cells, NEW loops
    PROVE  InUse(cells, loops) = InUse(InUse(cells, loops), loops)
BY DEF InUse

(* the id that a loop gets *)
LEMMA OpenedId ==
    ASSUME CInv, CInv', NEW c \in Clients, Open(c)
    PROVE  IdmNewId(idm) \in Ids
<1>1. IInv /\ idm \in Manager /\ idm' = IdmNew(idm)
  BY DEF CInv, IInv, Open
<1>2. Accounts(idm, Held)
  BY <1>1, NestedAccounts DEF IInv, Apart, Accounted, Held
<1>3. IdmNewId(idm) \in Nat /\ IdmNewId(idm) < IdmNew(idm).last /\ IdmNew(idm) \in Manager
  BY <1>1, <1>2, NewAccounts
<1>4. idm'.last <= Cardinality(Clients) /\ Cardinality(Clients) \in Nat
  BY CursorsAssumption, FS_CardinalityType DEF CInv
<1> QED
  BY <1>1, <1>3, <1>4 DEF Ids, Manager

LEMMA NextShape ==
    ASSUME CInv, CInv', Shape, [Next]_vars,
           \A c \in Clients : Fetch(c) => Lnext(tab, cur[client[c].id]).sn \in Nat
    PROVE  Shape'
<1> DEFINE Loops == [phase : {"idle", "open", "ended"}, id : Ids]
           Sets == [Clients -> SUBSET Nat]
<1>1. Live(tab) \subseteq Nat
  BY DEF Live
<1>2. cur' = InUse(cur', client')
  <2>1. CASE \E c \in Clients : Open(c) \/ Fetch(c) \/ End(c) \/ Fin(c)
    <3>1. PICK cells : cur' = InUse(cells, client')
      BY <2>1, Zenon DEF Open, Fetch, End, Fin
    <3> QED
      BY <3>1, InUseAgain
  <2>2. CASE GetKey \/ Del
    <3>1. PICK cells : cur' = InUse(cells, client')
      BY <2>2, Zenon DEF GetKey, Del
    <3> QED
      BY <3>1, InUseAgain
  <2>3. CASE Put \/ UNCHANGED vars
    BY <2>3 DEF Put, vars, Shape
  <2> QED
    BY <2>1, <2>2, <2>3 DEF Next
<1>3. client' \in [Clients -> Loops] /\ owed' \in Sets /\ seen' \in Sets
  <2>1. ASSUME NEW c \in Clients, Open(c)
        PROVE  client' \in [Clients -> Loops] /\ owed' \in Sets /\ seen' \in Sets
    <3>1. IdmNewId(idm) \in Ids
      BY <1>1, <2>1, OpenedId
    <3>2. PICK rest \in SUBSET Nat :
            /\ client' = [client EXCEPT ![c] = [phase |-> "open", id |-> IdmNewId(idm)]]
            /\ owed' = [owed EXCEPT ![c] = rest] /\ seen' = [seen EXCEPT ![c] = {}]
      <4>1. PICK key \in Keys \cup {NULL} :
            /\ client' = [client EXCEPT ![c] = [phase |-> "open", id |-> IdmNewId(idm)]]
            /\ owed' = [owed EXCEPT ![c] =
                IF key = NULL THEN Live(tab)
                ELSE IF use.range THEN {p \in Live(tab) : tab.omap[p] >= key}
                ELSE Live(tab) \cap {Started(tab, key, use.range).pos}]
            /\ seen' = [seen EXCEPT ![c] = {}]
        BY <2>1 DEF Open
      <4> DEFINE rest == IF key = NULL THEN Live(tab)
                ELSE IF use.range THEN {p \in Live(tab) : tab.omap[p] >= key}
                ELSE Live(tab) \cap {Started(tab, key, use.range).pos}
      <4>2. rest \in SUBSET Nat
        BY <1>1
      <4> QED
        BY <4>1, <4>2
    <3> QED
      BY <3>1, <3>2 DEF Shape
  <2>2. ASSUME NEW c \in Clients, Fetch(c)
        PROVE  client' \in [Clients -> Loops] /\ owed' \in Sets /\ seen' \in Sets
    <3> DEFINE sn == Lnext(tab, cur[client[c].id]).sn
    <3>1. /\ client[c].phase = "open" /\ sn # MISS /\ client' = client
          /\ owed' = [owed EXCEPT ![c] = owed[c] \ {sn}]
          /\ seen' = [seen EXCEPT ![c] = seen[c] \cup {sn}]
      BY <2>2 DEF Fetch
    <3>2. sn \in Nat
      BY <2>2
    <3> QED
      BY <3>1, <3>2 DEF Shape
  <2>3. ASSUME NEW c \in Clients, End(c) \/ Fin(c)
        PROVE  client' \in [Clients -> Loops] /\ owed' \in Sets /\ seen' \in Sets
    <3>1. Idle \in Loops
      BY CursorsAssumption, FS_CardinalityType DEF Ids, Idle
    <3>2. /\ client' = [client EXCEPT ![c] = Idle] \/ client' = [client EXCEPT ![c].phase = "ended"]
          /\ owed' = owed \/ owed' = [owed EXCEPT ![c] = {}]
          /\ seen' = [seen EXCEPT ![c] = {}]
      BY <2>3 DEF End, Fin
    <3>3. client' \in [Clients -> Loops]
      <4>1. client \in [Clients -> Loops]
        BY DEF Shape
      <4> QED
        BY <3>1, <3>2, <4>1
    <3>4. owed' \in Sets
      BY <3>2 DEF Shape
    <3>5. seen' \in Sets
      BY <3>2 DEF Shape
    <3> QED
      BY <3>3, <3>4, <3>5
  <2>4. CASE Put \/ GetKey \/ UNCHANGED vars
    BY <2>4 DEF Put, GetKey, vars, Shape
  <2>5. CASE Del
    <3>1. PICK sn : /\ client' = client
                    /\ \/ owed' = owed /\ seen' = seen
                       \/ /\ owed' = [c \in Clients |-> owed[c] \ {sn}]
                          /\ seen' = [c \in Clients |-> seen[c] \ {sn}]
      BY <2>5 DEF Del
    <3> QED
      BY <3>1 DEF Shape
  <2> QED
    BY <2>1, <2>2, <2>3, <2>4, <2>5 DEF Next
<1> QED
  BY <1>2, <1>3 DEF Shape

LEMMA NextByPosition ==
    ASSUME Careful, ByPosition, SInv, Shape, [Next]_vars
    PROVE  SInv' /\ Shape'
<1>1. SInv' /\ CInv /\ CInv'
  BY NextSInv DEF SInv, LInv
<1>2. ASSUME NEW c \in Clients, Fetch(c)
      PROVE  Lnext(tab, cur[client[c].id]).sn \in Nat
  <2>1. client[c].phase = "open" /\ Lnext(tab, cur[client[c].id]).sn # MISS
    BY <1>2 DEF Fetch
  <2>2. OwedAhead(tab, cur[client[c].id], use.range, owed[c])
    BY <2>1 DEF SInv, LInv, Iterating
  <2>3. cur[client[c].id] \in Cell /\ ~(cur[client[c].id].range /\ use.sorted)
    BY <2>2 DEF OwedAhead, ByPosition
  <2>4. Lnext(tab, cur[client[c].id]).sn \in Ahead(tab, cur[client[c].id])
    BY <2>1, <2>3, LnextFinds
  <2> QED
    BY <2>4 DEF Ahead, Live
<1> QED
  BY <1>1, <1>2, NextShape

(* A cursor stays a position, or QM_MISS, whatever the map becomes. *)
LEMMA CellsTyped ==
    ASSUME CInv, Shape, Typed(tab), \A c \in Iterating : cur[client[c].id] \in Cell
    PROVE  TypeOK
<1>1. idm \in [free : Seq(Nat), last : Nat]
  BY DEF CInv, IInv, Manager
<1>2. ASSUME NEW id \in Ids PROVE cur[id] \in Cell
  <2>1. ASSUME NEW c \in Clients, client[c].phase = "open", client[c].id = id
        PROVE  cur[id] \in Cell
    BY <2>1 DEF Iterating
  <2>2. CASE ~ \E c \in Clients : client[c].phase = "open" /\ client[c].id = id
    <3>1. cur[id] = Blank
      BY <2>2 DEF Shape, InUse
    <3> QED
      BY <3>1 DEF Blank, Cell
  <2> QED
    BY <2>1, <2>2
<1>3. cur \in [Ids -> Cell]
  <2>1. cur = [id \in Ids |-> cur[id]]
    BY DEF Shape, InUse
  <2> QED
    BY <1>2, <2>1
<1> QED
  BY <1>1, <1>3 DEF Shape, TypeOK, Cell

-----------------------------------------------------------------------------
(* In key order *)

(* No two keys share a home slot of a table that holds two entries, if     *)
(* entries are deleted while loops read the map in key order.              *)
Roomy(m) == IF m = 2 THEN 4 ELSE m
OrderSafe == \A u \in Uses : u.range /\ u.sorted /\ "del" \in u.calls =>
    KeysApart(Hash, Keys, Roomy(InitM))

(* What keeps every key within reach, and so with one entry alone. *)
Tidy(t) ==
    /\ Healthy(t) /\ Plain(t) /\ Findable(t)
    /\ ~t.kind.nogrow /\ t.kind.hash = Hash
    /\ "del" \in use.calls => AtHome(t) /\ KeysApart(Hash, Keys, Roomy(t.m))

LEMMA LiveKeyed ==
    ASSUME NEW t, Typed(t), NEW p \in Live(t)
    PROVE  t.omap[p] \in Keys /\ t.omap[p] \in Nat
<1>1. p \in Slots(t) /\ t.omap[p] # NULL
  BY LiveFinite DEF Live
<1> QED
  BY <1>1, Fields, TableAssumption

LEMMA InitTidy ==
    ASSUME OrderSafe, Init, ~ByPosition
    PROVE  Tidy(tab)
<1> DEFINE kind == [hash |-> Hash, multi |-> FALSE, nogrow |-> FALSE, shared |-> FALSE]
<1>1. tab = EmptyTable(InitM, kind) /\ use \in Uses
  BY DEF Init
<1>2. /\ kind \in Kind /\ InitM \in Nat /\ InitM > 1
      /\ ~kind.multi /\ ~kind.shared /\ ~kind.nogrow /\ kind.hash = Hash
  BY CursorsAssumption DEF Kind
<1> HIDE DEF kind
<1>3. Sound(tab) /\ tab.n = 0 /\ tab.m = InitM /\ tab.kind = kind /\ tab.idm.last = 0
  BY <1>1, <1>2, EmptySound DEF EmptyTable, IdmInit
<1>4. Live(tab) = {}
  BY <1>3 DEF Live
<1>5. Healthy(tab) /\ Plain(tab)
  BY <1>2, <1>3 DEF Healthy, LoadBounded, Plain
<1>6. Findable(tab) /\ AtHome(tab)
  BY <1>3, <1>4 DEF Findable, Chained, KeyedOnce, AtHome
<1>7. "del" \in use.calls => KeysApart(Hash, Keys, Roomy(tab.m))
  BY <1>1, <1>3 DEF OrderSafe, ByPosition
<1> QED
  BY <1>2, <1>3, <1>5, <1>6, <1>7 DEF Tidy

(* Growth leaves the entries where they are, and each in its home slot. *)
LEMMA TidyRoom ==
    ASSUME NEW t, Tidy(t)
    PROVE  LET r == MakeRoom(t)
           IN  Tidy(r) /\ SameEntries(t, r) /\ (r.n + 1) * 4 < r.m * 3
<1> DEFINE r == MakeRoom(t)
<1>1. /\ Healthy(t) /\ Sound(t) /\ Typed(t) /\ Findable(t) /\ Plain(t)
      /\ ~t.kind.nogrow /\ LoadBounded(t) /\ t.kind.hash = Hash
      /\ t.m \in Nat /\ t.m > 1
  BY Fields DEF Tidy, Healthy, Findable, Sound
<1>2. /\ Sound(r) /\ Typed(r) /\ r.kind = t.kind /\ SameEntries(t, r)
      /\ r = t \/ r.m = 2 * t.m
      /\ (r.n + 1) * 4 < r.m * 3
  BY <1>1, MakeRoomSound DEF Sound
<1>3. Findable(r)
  BY <1>1, MakeRoomFindable
<1>4. ASSUME "del" \in use.calls, r # t
      PROVE  AtHome(r) /\ KeysApart(Hash, Keys, Roomy(r.m))
  <2>1. /\ r.m = 2 * t.m /\ r.m # 2 /\ AtHome(t) /\ KeysApart(Hash, Keys, Roomy(t.m))
        /\ Hash \in [Keys -> Nat]
    BY <1>1, <1>2, <1>4, CursorsAssumption DEF Tidy
  <2>2. KeysApart(Hash, Keys, r.m)
    <3>1. CASE t.m = 2
      BY <2>1, <3>1 DEF Roomy
    <3>2. CASE t.m # 2
      BY <1>1, <2>1, <3>2, KeysApartDoubled DEF Roomy
    <3> QED
      BY <3>1, <3>2
  <2>3. HomesApart(r)
    <3> SUFFICES ASSUME NEW p \in Live(r), NEW q \in Live(r),
                        Home(r, r.omap[p]) = Home(r, r.omap[q])
                 PROVE  p = q
      BY DEF HomesApart
    <3>1. r.omap[p] \in Keys /\ r.omap[q] \in Keys
      BY <1>2, LiveKeyed
    <3>2. r.omap[p] = r.omap[q]
      BY <1>1, <1>2, <2>2, <3>1, HomeMod DEF KeysApart
    <3> QED
      BY <1>3, <3>2 DEF Findable, KeyedOnce
  <2>4. AtHome(r)
    BY <1>1, <2>1, <2>3, MakeRoomAtHome
  <2> QED
    BY <2>1, <2>2, <2>4 DEF Roomy
<1> HIDE DEF r
<1>5. "del" \in use.calls => AtHome(r) /\ KeysApart(Hash, Keys, Roomy(r.m))
  BY <1>4 DEF Tidy
<1>6. r.n \in Nat /\ r.m \in Nat
  BY <1>2, Fields
<1>7. Healthy(r) /\ Plain(r)
  BY <1>1, <1>2, <1>6 DEF Healthy, LoadBounded, Plain
<1> QED
  BY <1>1, <1>2, <1>3, <1>5, <1>7 DEF Tidy, r

LEMMA TidyEntered ==
    ASSUME NEW t, Tidy(t), (t.n + 1) * 4 < t.m * 3,
           NEW key \in Keys, NEW val, NEW p, NEW u, Healthy(u),
           Lookup(t, key) # MISS, t.map[Lookup(t, key)] = MISS,
           Entered(t, u, key, val, p, Lookup(t, key))
    PROVE  Tidy(u) /\ \A q \in Live(t) : t.omap[q] # key
<1> DEFINE id == Lookup(t, key)
<1>1. /\ Sound(t) /\ Typed(t) /\ Findable(t) /\ Sound(u)
      /\ u.m = t.m /\ u.kind = t.kind /\ t.kind.hash = Hash
      /\ t.n \in Nat /\ t.m \in Nat
  BY Fields DEF Tidy, Healthy, Findable, Sound, Entered
<1>2. Findable(u) /\ \A q \in Live(t) : t.omap[q] # key
  BY <1>1, EnteredFindable
<1>3. ASSUME "del" \in use.calls PROVE AtHome(u)
  <2>1. AtHome(t) /\ KeysApart(Hash, Keys, Roomy(t.m))
    BY <1>3 DEF Tidy
  <2>2. ASSUME NEW q \in Live(t) PROVE Home(t, t.omap[q]) # Home(t, key)
    <3>1. t.omap[q] \in Keys /\ t.omap[q] # key
      BY <1>1, <1>2, LiveKeyed
    <3>2. CASE t.m = 2
      <4>1. t.n = 0
        BY <1>1, <3>2
      <4>2. IsFiniteSet(Live(t)) /\ Cardinality(Live(t)) = 0
        BY <1>1, <4>1, LiveFinite DEF Sound
      <4> QED
        BY <4>2, FS_EmptySet
    <3>3. CASE t.m # 2
      BY <1>1, <2>1, <3>1, <3>3, HomeMod DEF KeysApart, Roomy
    <3> QED
      BY <3>2, <3>3
  <2>3. id = Home(t, key) /\ t.map[Home(t, key)] = MISS
    BY <1>1, <2>1, <2>2, LookupHomes
  <2> QED
    BY <1>1, <2>1, <2>3, EnteredAtHome
<1>4. Plain(u) /\ ~u.kind.nogrow /\ u.kind.hash = Hash
  BY <1>1 DEF Tidy, Plain
<1>5. "del" \in use.calls => AtHome(u) /\ KeysApart(Hash, Keys, Roomy(u.m))
  BY <1>1, <1>3 DEF Tidy
<1> QED
  BY <1>2, <1>4, <1>5 DEF Tidy

(* A put changes no entry's key, and adds none with a key that has one. *)
LEMMA TidyPut ==
    ASSUME NEW t, Tidy(t), NEW key \in Keys, NEW val \in Vals
    PROVE  LET u == PutKey(t, key, val, MISS).tab
           IN  /\ Tidy(u) /\ Retains(t, u)
               /\ \A p \in Live(u) \ Live(t) :
                      u.omap[p] = key /\ \A q \in Live(t) : t.omap[q] # key
<1> DEFINE r == MakeRoom(t)
           u == PutKey(t, key, val, MISS).tab
           id == Lookup(r, key)
<1>1. Tidy(r) /\ SameEntries(t, r) /\ (r.n + 1) * 4 < r.m * 3
  BY TidyRoom
<1>2. Healthy(u) /\ u.kind = t.kind /\ Retains(t, u) /\ PutCases(r, key, val, u)
  BY PutKeySound DEF Tidy, Plain
<1> HIDE DEF r, u
<1>3. Typed(r) /\ Findable(r) /\ Sound(u) /\ Live(r) \subseteq Slots(r)
  BY <1>1, <1>2, LiveFinite DEF Tidy, Findable, Healthy, Sound
<1>4. CASE u = r
  BY <1>1, <1>2, <1>4 DEF SameEntries, r, u
<1>5. CASE /\ id # MISS /\ r.map[id] = MISS
           /\ Entered(r, u, key, val, IdmNewId(r.idm), id)
  <2>1. Tidy(u) /\ \A q \in Live(r) : r.omap[q] # key
    BY <1>1, <1>2, <1>5, TidyEntered
  <2>2. /\ IdmNewId(r.idm) \in Slots(r) /\ Live(u) = Live(r) \cup {IdmNewId(r.idm)}
        /\ u.omap = [r.omap EXCEPT ![IdmNewId(r.idm)] = key]
    BY <1>5 DEF Entered
  <2>3. u.omap[IdmNewId(r.idm)] = key
    BY <1>3, <2>2, Fields
  <2> QED
    BY <1>1, <1>2, <2>1, <2>2, <2>3 DEF SameEntries, u
<1>6. CASE /\ id # MISS /\ r.map[id] # MISS /\ r.omap[r.map[id]] = key
           /\ Replaced(r, u, val, id)
  <2>1. Findable(u)
    BY <1>3, <1>6, ReplacedFindable
  <2>2. u.m = r.m /\ u.kind = r.kind /\ Live(u) = Live(r) /\ (AtHome(r) => AtHome(u))
    BY <1>6, ReplacedAtHome DEF Replaced
  <2>3. Tidy(u)
    BY <1>1, <1>2, <2>1, <2>2 DEF Tidy, Plain
  <2> QED
    BY <1>1, <1>2, <2>2, <2>3 DEF SameEntries, u
<1> QED
  BY <1>2, <1>4, <1>5, <1>6 DEF PutCases

LEMMA TidyDel ==
    ASSUME NEW t, Tidy(t), "del" \in use.calls, NEW key \in Keys,
           Lookup(t, key) # MISS, t.map[Lookup(t, key)] # MISS
    PROVE  LET p == t.map[Lookup(t, key)]
               u == DeleteAt(t, p)
           IN  /\ Tidy(u) /\ p \in Live(t) /\ t.omap[p] = key
               /\ Live(u) = Live(t) \ {p}
               /\ \A q \in Live(u) : u.omap[q] = t.omap[q]
<1> DEFINE id == Lookup(t, key)
           p == t.map[id]
           u == DeleteAt(t, p)
<1>1. /\ Sound(t) /\ Typed(t) /\ Findable(t) /\ AtHome(t)
      /\ LoadBounded(t) /\ ~t.kind.nogrow /\ t.n \in Nat /\ t.m \in Nat
  BY Fields DEF Tidy, Healthy, Findable, Sound
<1>2. id \in Slots(t) /\ t.map[id] \in Live(t) /\ t.omap[t.map[id]] = key
  BY <1>1, LookupStops DEF Sound, SlotsPoint
<1>3. id = Lookup(t, t.omap[t.map[id]])
  BY <1>2
<1>4. /\ Sound(u) /\ Deleted(t, u, id)
      /\ u.n = t.n - 1 /\ u.m = t.m /\ u.kind = t.kind
  BY <1>1, <1>2, <1>3, DeleteSound
<1>5. Findable(u) /\ AtHome(u)
  BY <1>1, <1>4, DeletedFindable
<1> HIDE DEF u
<1>6. Healthy(u)
  BY <1>1, <1>4 DEF Healthy, LoadBounded
<1>7. Tidy(u)
  BY <1>4, <1>5, <1>6 DEF Tidy, Plain
<1> QED
  BY <1>2, <1>4, <1>7 DEF Deleted, u

(* The entries that a loop in key order has left behind: those below its   *)
(* key, and those up to an entry that it has returned.                     *)
Passed(t, cell, been) == {p \in Live(t) :
    \/ cell.key # NULL /\ t.omap[p] < cell.key
    \/ \E q \in been : t.omap[p] <= t.omap[q]}

(* Its cursor counts them, and what it owes is not among them. *)
Counting(t, cell, been, rest) ==
    /\ cell \in Cell /\ cell.range
    /\ been \subseteq Live(t)
    /\ rest \subseteq Live(t) \ Passed(t, cell, been)
    /\ cell.pos = Cardinality(Passed(t, cell, been))

LEMMA PassedFinite ==
    ASSUME NEW t, Typed(t), NEW P \in SUBSET Live(t)
    PROVE  /\ IsFiniteSet(P) /\ Cardinality(P) \in Nat
           /\ Cardinality(P) <= Cardinality(Live(t))
           /\ Cardinality(Live(t)) = Cardinality(P) => Live(t) = P
           /\ Cardinality(Live(t)) \in Nat
BY LiveFinite, FS_Subset, FS_CardinalityType

LEMMA PassedCloses ==
    ASSUME NEW t, Typed(t), NEW cell \in Cell, NEW been, been \subseteq Live(t)
    PROVE  /\ been \subseteq Passed(t, cell, been)
           /\ \A p \in Passed(t, cell, been), q \in Live(t) :
                  t.omap[q] <= t.omap[p] => q \in Passed(t, cell, been)
<1>1. \A p \in Live(t) : t.omap[p] \in Nat
  BY LiveKeyed
<1>2. cell.key # NULL => cell.key \in Nat
  BY TableAssumption DEF Cell
<1>3. been \subseteq Passed(t, cell, been)
  BY <1>1 DEF Passed
<1>4. ASSUME NEW p \in Passed(t, cell, been), NEW q \in Live(t), t.omap[q] <= t.omap[p]
      PROVE  q \in Passed(t, cell, been)
  <2>1. p \in Live(t)
    BY DEF Passed
  <2>2. CASE cell.key # NULL /\ t.omap[p] < cell.key
    BY <1>1, <1>2, <1>4, <2>1, <2>2 DEF Passed
  <2>3. CASE \E b \in been : t.omap[p] <= t.omap[b]
    <3>1. PICK b \in been : t.omap[p] <= t.omap[b]
      BY <2>3
    <3>2. t.omap[q] <= t.omap[b]
      BY <1>1, <1>4, <2>1, <3>1
    <3> QED
      BY <3>2 DEF Passed
  <2> QED
    BY <2>2, <2>3 DEF Passed
<1> QED
  BY <1>3, <1>4

LEMMA LeastKey ==
    ASSUME NEW t, Typed(t), NEW S \in SUBSET Live(t), S # {}
    PROVE  \E p \in S : \A q \in S : t.omap[p] <= t.omap[q]
<1> DEFINE K == {t.omap[q] : q \in S}
<1>1. K \subseteq Nat /\ K # {}
  BY LiveKeyed
<1>2. Min(K) \in K /\ \A k \in K : Min(K) <= k
  <2> HIDE DEF K
  <2> QED
    BY <1>1, MinIsLeast
<1>3. PICK p \in S : t.omap[p] = Min(K)
  BY <1>2
<1>4. \A q \in S : t.omap[q] \in K
  OBVIOUS
<1> HIDE DEF K
<1> QED
  BY <1>2, <1>3, <1>4

(* An entry with a lower key has fewer below it. *)
LEMMA LowerStrict ==
    ASSUME NEW t, Typed(t), NEW p \in Live(t), NEW q \in Live(t), t.omap[p] < t.omap[q]
    PROVE  Cardinality(Lower(t, t.omap[p])) < Cardinality(Lower(t, t.omap[q]))
<1> DEFINE P == Lower(t, t.omap[p])
           Q == Lower(t, t.omap[q])
<1>1. \A r \in Live(t) : t.omap[r] \in Nat
  BY LiveKeyed
<1>2. P \subseteq Q /\ p \in Q /\ p \notin P /\ P \subseteq Live(t) /\ Q \subseteq Live(t)
  BY <1>1 DEF Lower
<1> HIDE DEF P, Q
<1>3. IsFiniteSet(Q) /\ Cardinality(Q) \in Nat /\ Cardinality(P) \in Nat
  BY <1>2, PassedFinite
<1>4. Cardinality(P) <= Cardinality(Q) /\ Cardinality(P) # Cardinality(Q)
  BY <1>2, <1>3, FS_Subset
<1> QED
  BY <1>3, <1>4 DEF P, Q

(* The place in the index after those of a set of lowest entries is the    *)
(* lowest other entry's.                                                   *)
LEMMA IndexedNext ==
    ASSUME NEW t, Typed(t), KeyedOnce(t), NEW P \in SUBSET Live(t),
           \A p \in P, q \in Live(t) : t.omap[q] <= t.omap[p] => q \in P,
           Cardinality(P) < Cardinality(Live(t))
    PROVE  LET sn == Indexed(t, Cardinality(P))
           IN  /\ sn \in Live(t) /\ sn \notin P
               /\ \A q \in Live(t) \ P : t.omap[sn] <= t.omap[q]
               /\ \A q \in P : t.omap[q] < t.omap[sn]
<1>1. \A r \in Live(t) : t.omap[r] \in Nat
  BY LiveKeyed
<1>2. Live(t) \ P # {}
  <2> SUFFICES ASSUME Live(t) \ P = {} PROVE FALSE
    OBVIOUS
  <2>1. Live(t) = P
    OBVIOUS
  <2> QED
    BY <2>1, PassedFinite
<1>3. PICK p \in Live(t) \ P : \A q \in Live(t) \ P : t.omap[p] <= t.omap[q]
  <2> DEFINE S == Live(t) \ P
  <2>1. S \in SUBSET Live(t) /\ S # {}
    BY <1>2
  <2> HIDE DEF S
  <2>2. \E r \in S : \A q \in S : t.omap[r] <= t.omap[q]
    BY <2>1, LeastKey
  <2> QED
    BY <2>2 DEF S
<1>4. \A q \in P : t.omap[q] < t.omap[p]
  BY <1>1, <1>3
<1>5. Lower(t, t.omap[p]) = P
  BY <1>1, <1>3, <1>4 DEF Lower
<1> DEFINE Fits(q) == Cardinality(Lower(t, t.omap[q])) = Cardinality(P)
           sn == CHOOSE q \in Live(t) : Fits(q)
<1>6. sn \in Live(t) /\ Fits(sn)
  <2>1. p \in Live(t) /\ Fits(p)
    BY <1>5
  <2> HIDE DEF Fits
  <2> QED
    BY <2>1
<1> HIDE DEF sn
<1>7. t.omap[sn] = t.omap[p]
  <2>1. Cardinality(Lower(t, t.omap[sn])) = Cardinality(Lower(t, t.omap[p]))
    BY <1>5, <1>6
  <2>2. Cardinality(Lower(t, t.omap[p])) \in Nat
    BY <1>5, PassedFinite
  <2>3. ~(t.omap[sn] < t.omap[p]) /\ ~(t.omap[p] < t.omap[sn])
    BY <1>6, <2>1, <2>2, LowerStrict
  <2> QED
    BY <1>1, <1>6, <2>3
<1>8. sn = p
  BY <1>6, <1>7 DEF KeyedOnce
<1>9. Indexed(t, Cardinality(P)) = p
  BY <1>8 DEF Indexed, sn
<1> QED
  BY <1>3, <1>4, <1>9

(* qmap_lnext in key order: there is no next entry when all are behind;    *)
(* else it is the lowest of the others, and the cursor counts it too.      *)
LEMMA CountingNext ==
    ASSUME NEW t, Findable(t), use.sorted, NEW cell, NEW been, NEW rest,
           Counting(t, cell, been, rest)
    PROVE  LET next == Lnext(t, cell)
               sn   == next.sn
           IN  /\ sn = MISS => rest = {}
               /\ sn # MISS =>
                     /\ sn \in Live(t) /\ sn \notin been
                     /\ cell.key # NULL => t.omap[sn] >= cell.key
                     /\ \A q \in been : t.omap[q] < t.omap[sn]
                     /\ Counting(t, next.cur, been \cup {sn}, rest \ {sn})
<1> DEFINE next == Lnext(t, cell)
           P == Passed(t, cell, been)
<1>1. /\ Typed(t) /\ KeyedOnce(t) /\ cell \in Cell /\ cell.range
      /\ been \subseteq Live(t) /\ P \in SUBSET Live(t)
      /\ rest \subseteq Live(t) \ P /\ cell.pos = Cardinality(P)
      /\ next = LnextInOrder(t, cell)
  BY DEF Findable, Sound, Counting, Passed, Lnext
<1>2. /\ been \subseteq P
      /\ \A p \in P, q \in Live(t) : t.omap[q] <= t.omap[p] => q \in P
  BY <1>1, PassedCloses
<1>3. \A r \in Live(t) : t.omap[r] \in Nat
  BY <1>1, LiveKeyed
<1>4. /\ IsFiniteSet(P) /\ Cardinality(P) \in Nat
      /\ Cardinality(P) <= Cardinality(Live(t))
      /\ Cardinality(Live(t)) = Cardinality(P) => Live(t) = P
      /\ Cardinality(Live(t)) \in Nat
  BY <1>1, PassedFinite
<1>5. CASE Cardinality(P) >= Cardinality(Live(t))
  <2>1. rest = {}
    BY <1>1, <1>4, <1>5
  <2>2. next.sn = MISS
    BY <1>1, <1>5 DEF LnextInOrder
  <2> QED
    BY <2>1, <2>2
<1>6. CASE ~(Cardinality(P) >= Cardinality(Live(t)))
  <2> DEFINE sn == Indexed(t, Cardinality(P))
             after == Moved(cell, cell.pos)
             Q == Passed(t, after, been \cup {sn})
  <2>1. next = [sn |-> sn, cur |-> after]
    BY <1>1, <1>6 DEF LnextInOrder
  <2>2. Cardinality(P) < Cardinality(Live(t))
    BY <1>4, <1>6
  <2>3. /\ sn \in Live(t) /\ sn \notin P
        /\ \A q \in Live(t) \ P : t.omap[sn] <= t.omap[q]
        /\ \A q \in P : t.omap[q] < t.omap[sn]
    <3> HIDE DEF P
    <3> QED
      BY <1>1, <1>2, <2>2, IndexedNext
  <2>4. sn # MISS
    BY <2>3 DEF Live, MISS
  <2> HIDE DEF next, sn
  <2>5. /\ after \in Cell /\ after.pos = cell.pos + 1
        /\ after.key = cell.key /\ after.range
    BY <1>1, <1>4 DEF Moved, Cell
  <2> HIDE DEF after
  <2>6. Q = P \cup {sn}
    <3>1. ASSUME NEW r \in Live(t), t.omap[r] <= t.omap[sn] PROVE r \in P \cup {sn}
      <4> SUFFICES ASSUME r \notin P PROVE r = sn
        OBVIOUS
      <4>1. t.omap[r] = t.omap[sn]
        BY <1>3, <2>3, <3>1
      <4> QED
        BY <1>1, <2>3, <4>1 DEF KeyedOnce
    <3>2. sn \in Q
      BY <1>3, <2>3 DEF Passed
    <3>3. Q \subseteq P \cup {sn}
      BY <2>5, <3>1 DEF Passed
    <3>4. P \subseteq Q
      BY <2>5 DEF Passed
    <3> QED
      BY <3>2, <3>3, <3>4
  <2> HIDE DEF P
  <2>7. Cardinality(P \cup {sn}) = cell.pos + 1
    <3>1. Cardinality(P \cup {sn}) = Cardinality(P) + 1
      BY <1>4, <2>3, FS_AddElement
    <3> QED
      BY <1>1, <3>1
  <2>8. Counting(t, after, been \cup {sn}, rest \ {sn})
    BY <1>1, <2>3, <2>5, <2>6, <2>7 DEF Counting
  <2>9. cell.key # NULL => t.omap[sn] >= cell.key
    <3> SUFFICES ASSUME cell.key # NULL, ~(t.omap[sn] >= cell.key) PROVE FALSE
      OBVIOUS
    <3>1. cell.key \in Nat
      BY <1>1, TableAssumption DEF Cell
    <3>2. t.omap[sn] < cell.key
      BY <1>3, <2>3, <3>1
    <3> QED
      BY <2>3, <3>2 DEF P, Passed
  <2>10. sn \notin been /\ \A q \in been : t.omap[q] < t.omap[sn]
    BY <1>2, <2>3
  <2> QED
    BY <2>1, <2>3, <2>4, <2>8, <2>9, <2>10 DEF next
<1> QED
  BY <1>5, <1>6 DEF next

LEMMA CountingStart ==
    ASSUME NEW t, Typed(t), use.sorted, NEW key \in Keys \cup {NULL}, NEW rest,
           rest = IF key = NULL THEN Live(t) ELSE {p \in Live(t) : t.omap[p] >= key}
    PROVE  Counting(t, Started(t, key, TRUE), {}, rest)
<1> DEFINE s == Started(t, key, TRUE)
           at == IF key = NULL THEN 0 ELSE Cardinality(Lower(t, key))
<1>1. s = [pos |-> at, ipos |-> at, key |-> key, range |-> TRUE]
  BY DEF Started
<1>2. Lower(t, key) \in SUBSET Live(t)
  BY DEF Lower
<1>3. at \in Nat
  BY <1>2, PassedFinite
<1> HIDE DEF s, at
<1>4. /\ s \in Cell /\ s.range /\ s.key = key /\ s.pos = at
  BY <1>1, <1>3 DEF Cell
<1>5. Passed(t, s, {}) = IF key = NULL THEN {} ELSE Lower(t, key)
  BY <1>4 DEF Passed, Lower
<1>6. s.pos = Cardinality(Passed(t, s, {}))
  BY <1>4, <1>5, FS_EmptySet DEF at
<1>7. rest \subseteq Live(t) \ Passed(t, s, {})
  <2>1. CASE key = NULL
    BY <1>5, <2>1
  <2>2. CASE key # NULL
    <3>1. key \in Nat /\ \A p \in Live(t) : t.omap[p] \in Nat
      BY <2>2, LiveKeyed, TableAssumption
    <3> QED
      BY <1>5, <2>2, <3>1 DEF Lower
  <2> QED
    BY <2>1, <2>2
<1> QED
  BY <1>4, <1>6, <1>7 DEF Counting, s

(* What is put and deleted ahead of a loop does not change its count. *)
LEMMA CountingKept ==
    ASSUME NEW t, NEW u, NEW cell, NEW been, NEW rest, NEW less,
           Counting(t, cell, been, rest), less \subseteq rest, less \subseteq Live(u),
           Passed(t, cell, been) \subseteq Live(u), been \subseteq Live(u),
           \A q \in Live(t) \cap Live(u) : u.omap[q] = t.omap[q],
           \A p \in Live(u) \ Live(t) :
               /\ cell.key # NULL => ~(u.omap[p] < cell.key)
               /\ \A q \in been : ~(u.omap[p] <= t.omap[q])
    PROVE  Counting(u, cell, been, less)
<1>1. /\ cell \in Cell /\ cell.range /\ been \subseteq Live(t)
      /\ rest \subseteq Live(t) \ Passed(t, cell, been)
      /\ cell.pos = Cardinality(Passed(t, cell, been))
  BY DEF Counting
<1>2. \A q \in been : u.omap[q] = t.omap[q]
  BY <1>1
<1>3. Passed(u, cell, been) = Passed(t, cell, been)
  <2>1. ASSUME NEW p \in Passed(u, cell, been) PROVE p \in Passed(t, cell, been)
    <3>1. p \in Live(u)
      BY DEF Passed
    <3>2. p \in Live(t)
      BY <1>2, <3>1 DEF Passed
    <3> QED
      BY <1>2, <3>1, <3>2 DEF Passed
  <2>2. ASSUME NEW p \in Passed(t, cell, been) PROVE p \in Passed(u, cell, been)
    BY <1>2, <2>2 DEF Passed
  <2> QED
    BY <2>1, <2>2
<1> QED
  BY <1>1, <1>3 DEF Counting

OInv ==
    /\ CInv /\ Shape
    /\ use.range /\ use.sorted
    /\ Tidy(tab)
    /\ \A c \in Clients : client[c].phase # "open" => owed[c] = {}
    /\ \A c \in Iterating : Counting(tab, cur[client[c].id], seen[c], owed[c])

LEMMA InitOInv == ASSUME OrderSafe, Init, ~ByPosition PROVE OInv
<1>1. CInv /\ Shape /\ Tidy(tab)
  BY InitCInv, InitShape, InitTidy
<1>2. /\ \A c \in Clients : client[c].phase = "idle" /\ owed[c] = {}
      /\ use.range /\ use.sorted
  BY DEF Init, Idle, ByPosition
<1> QED
  BY <1>1, <1>2 DEF OInv, Iterating

(* Loops other than those that act, while the map stays as it is *)
LEMMA OthersCount ==
    ASSUME OInv, NEW c \in Iterating, client'[c] = client[c], Elsewhere(c),
           tab' = tab, owed'[c] = owed[c], seen'[c] = seen[c]
    PROVE  Counting(tab', cur'[client'[c].id], seen'[c], owed'[c])
<1>1. /\ CInv /\ client'[c].phase = "open"
      /\ Counting(tab, cur[client[c].id], seen[c], owed[c])
  BY DEF OInv, Iterating
<1>2. cur'[client'[c].id] = cur[client[c].id]
  BY <1>1, CellStays
<1> QED
  BY <1>1, <1>2

LEMMA OpenOInv ==
    ASSUME OInv, CInv', Shape', NEW c \in Clients, Open(c)
    PROVE  OInv'
<1> DEFINE id == IdmNewId(idm)
<1>1. /\ CInv /\ Shape /\ use.range /\ use.sorted /\ Tidy(tab) /\ DOMAIN cur = Ids
      /\ use \in Uses
  BY DEF OInv, CInv, IInv
<1>2. use.range = TRUE /\ Typed(tab) /\ id \in Ids
  BY <1>1, OpenedId, CursorsAssumption DEF Tidy, Healthy, Sound
<1> HIDE DEF id
<1>3. PICK key \in Keys \cup {NULL} :
         /\ client[c].phase = "idle"
         /\ client' = [client EXCEPT ![c] = [phase |-> "open", id |-> id]]
         /\ owed' = [owed EXCEPT ![c] =
                IF key = NULL THEN Live(tab) ELSE {p \in Live(tab) : tab.omap[p] >= key}]
         /\ seen' = [seen EXCEPT ![c] = {}]
         /\ cur' = InUse([cur EXCEPT ![id] = Started(tab, key, TRUE)], client')
         /\ use' = use /\ tab' = tab
  BY <1>2 DEF Open, id
<1> DEFINE s == Started(tab, key, TRUE)
<1>4. /\ client'[c].phase = "open" /\ client'[c].id = id
      /\ owed'[c] = IF key = NULL THEN Live(tab)
                    ELSE {p \in Live(tab) : tab.omap[p] >= key}
      /\ seen'[c] = {}
      /\ \A d \in Clients \ {c} :
             client'[d] = client[d] /\ owed'[d] = owed[d] /\ seen'[d] = seen[d]
  BY <1>1, <1>3 DEF Shape
<1>5. Counting(tab, s, {}, owed'[c])
  BY <1>1, <1>2, <1>4, CountingStart
<1> HIDE DEF s
<1>6. cur'[id] = s
  <2>1. InUse([cur EXCEPT ![id] = s], client')[id] = [cur EXCEPT ![id] = s][id]
    BY <1>2, <1>4 DEF InUse
  <2>2. [cur EXCEPT ![id] = s][id] = s
    BY <1>1, <1>2
  <2> QED
    BY <1>3, <2>1, <2>2 DEF s
<1>7. ASSUME NEW d \in Iterating'
      PROVE  Counting(tab', cur'[client'[d].id], seen'[d], owed'[d])
  <2>1. CASE d = c
    BY <1>3, <1>4, <1>5, <1>6, <2>1
  <2>2. CASE d # c
    <3>1. /\ d \in Iterating /\ client'[d] = client[d]
          /\ owed'[d] = owed[d] /\ seen'[d] = seen[d]
      BY <1>4, <1>7, <2>2 DEF Iterating
    <3>2. Elsewhere(d)
      BY DEF Elsewhere
    <3> QED
      BY <1>3, <3>1, <3>2, OthersCount
  <2> QED
    BY <2>1, <2>2
<1>8. \A d \in Clients : client'[d].phase # "open" => owed'[d] = {}
  BY <1>4 DEF OInv
<1>9. Tidy(tab)'
  BY <1>1, <1>3 DEF Tidy
<1> QED
  BY <1>1, <1>3, <1>7, <1>8, <1>9 DEF OInv

LEMMA FetchOInv ==
    ASSUME OInv, CInv', Shape', NEW c \in Clients, Fetch(c)
    PROVE  OInv'
<1> DEFINE id == client[c].id
           next == Lnext(tab, cur[id])
<1>1. /\ client[c].phase = "open" /\ next.sn # MISS
      /\ owed' = [owed EXCEPT ![c] = owed[c] \ {next.sn}]
      /\ seen' = [seen EXCEPT ![c] = seen[c] \cup {next.sn}]
      /\ cur' = InUse([cur EXCEPT ![id] = next.cur], client)
      /\ UNCHANGED <<use, tab, client>>
  BY DEF Fetch
<1>2. /\ CInv /\ Shape /\ use.range /\ use.sorted /\ Tidy(tab)
      /\ DOMAIN cur = Ids /\ c \in Iterating
  BY <1>1 DEF OInv, CInv, Iterating
<1>3. id \in Ids
  BY <1>2, HeldIds
<1>4. Counting(tab, cur[id], seen[c], owed[c]) /\ Findable(tab)
  BY <1>2 DEF OInv, Tidy
<1>5. Counting(tab, next.cur, seen[c] \cup {next.sn}, owed[c] \ {next.sn})
  BY <1>1, <1>2, <1>4, CountingNext
<1> HIDE DEF next
<1>6. cur'[id] = next.cur
  <2>1. InUse([cur EXCEPT ![id] = next.cur], client)[id] = [cur EXCEPT ![id] = next.cur][id]
    BY <1>1, <1>3 DEF InUse
  <2>2. [cur EXCEPT ![id] = next.cur][id] = next.cur
    BY <1>2, <1>3
  <2> QED
    BY <1>1, <2>1, <2>2
<1>7. ASSUME NEW d \in Iterating'
      PROVE  Counting(tab', cur'[client'[d].id], seen'[d], owed'[d])
  <2>1. CASE d = c
    BY <1>1, <1>2, <1>5, <1>6, <2>1 DEF Shape
  <2>2. CASE d # c
    <3>1. /\ d \in Iterating /\ client'[d] = client[d]
          /\ owed'[d] = owed[d] /\ seen'[d] = seen[d]
      BY <1>1, <1>2, <1>7, <2>2 DEF Iterating, Shape
    <3>2. Elsewhere(d)
      BY <2>2 DEF Elsewhere
    <3> QED
      BY <1>1, <3>1, <3>2, OthersCount
  <2> QED
    BY <2>1, <2>2
<1>8. \A d \in Clients : client'[d].phase # "open" => owed'[d] = {}
  BY <1>1, <1>2 DEF OInv, Shape
<1>9. Tidy(tab)'
  BY <1>1, <1>2 DEF Tidy
<1> QED
  BY <1>1, <1>2, <1>7, <1>8, <1>9 DEF OInv

LEMMA LeaveOInv ==
    ASSUME OInv, CInv', Shape', NEW c \in Clients, End(c) \/ Fin(c)
    PROVE  OInv'
<1>1. /\ UNCHANGED <<use, tab>> /\ seen' = [seen EXCEPT ![c] = {}]
      /\ \/ client' = [client EXCEPT ![c] = Idle]
         \/ client' = [client EXCEPT ![c].phase = "ended"]
  BY DEF End, Fin
<1>2. /\ Shape /\ use.range /\ use.sorted /\ Tidy(tab)
  BY DEF OInv
<1>3. owed'[c] = {} /\ \A d \in Clients \ {c} : owed'[d] = owed[d]
  <2>1. CASE Fin(c)
    BY <1>2, <2>1 DEF Fin, Shape
  <2>2. CASE End(c)
    <3>1. /\ client[c].phase = "open" /\ owed' = owed
          /\ Lnext(tab, cur[client[c].id]).sn = MISS
      BY <2>2 DEF End
    <3>2. Counting(tab, cur[client[c].id], seen[c], owed[c]) /\ Findable(tab)
      BY <1>2, <3>1 DEF OInv, Iterating, Tidy
    <3>3. owed[c] = {}
      BY <1>2, <3>1, <3>2, CountingNext
    <3> QED
      BY <3>1, <3>3
  <2> QED
    BY <2>1, <2>2
<1>4. /\ client'[c].phase # "open"
      /\ \A d \in Clients \ {c} : client'[d] = client[d] /\ seen'[d] = seen[d]
  BY <1>1, <1>2 DEF Idle, Shape
<1>5. ASSUME NEW d \in Iterating'
      PROVE  Counting(tab', cur'[client'[d].id], seen'[d], owed'[d])
  <2>1. d # c /\ d \in Clients
    BY <1>4, <1>5 DEF Iterating
  <2>2. /\ d \in Iterating /\ client'[d] = client[d]
        /\ owed'[d] = owed[d] /\ seen'[d] = seen[d]
    BY <1>3, <1>4, <1>5, <2>1 DEF Iterating
  <2>3. Elsewhere(d)
    BY DEF Elsewhere
  <2> QED
    BY <1>1, <2>2, <2>3, OthersCount
<1>6. \A d \in Clients : client'[d].phase # "open" => owed'[d] = {}
  BY <1>3, <1>4 DEF OInv
<1>7. Tidy(tab)'
  BY <1>1, <1>2 DEF Tidy
<1> QED
  BY <1>1, <1>2, <1>5, <1>6, <1>7 DEF OInv

LEMMA PutOInv ==
    ASSUME OInv, CInv', Shape', Put
    PROVE  OInv'
<1>1. PICK key \in Keys, val \in Vals :
         /\ (\E p \in Live(tab) : tab.omap[p] = key) \/ ~Disturbs(key)
         /\ tab' = PutKey(tab, key, val, MISS).tab
         /\ UNCHANGED <<use, client, owed, seen>>
  BY DEF Put
<1>2. CInv /\ use.range /\ use.sorted /\ Tidy(tab)
  BY DEF OInv
<1>3. /\ Tidy(tab') /\ Retains(tab, tab')
      /\ \A p \in Live(tab') \ Live(tab) :
             tab'.omap[p] = key /\ \A q \in Live(tab) : tab.omap[q] # key
  BY <1>1, <1>2, TidyPut
<1>4. ASSUME NEW c \in Iterating'
      PROVE  Counting(tab', cur'[client'[c].id], seen'[c], owed'[c])
  <2> DEFINE cell == cur[client[c].id]
  <2>1. c \in Iterating /\ client'[c].phase = "open" /\ Elsewhere(c)
    BY <1>1, <1>4 DEF Iterating, Elsewhere
  <2>2. cur'[client'[c].id] = cell
    BY <1>1, <1>2, <2>1, CellStays
  <2>3. Counting(tab, cell, seen[c], owed[c])
    BY <2>1 DEF OInv
  <2>4. ASSUME NEW p \in Live(tab') \ Live(tab)
        PROVE  /\ cell.key # NULL => ~(tab'.omap[p] < cell.key)
               /\ \A q \in seen[c] : ~(tab'.omap[p] <= tab.omap[q])
    <3>1. tab'.omap[p] = key /\ ~Disturbs(key)
      BY <1>1, <1>3
    <3> QED
      BY <1>2, <2>1, <3>1 DEF Disturbs
  <2>5. /\ owed[c] \subseteq Live(tab) /\ seen[c] \subseteq Live(tab)
        /\ Passed(tab, cell, seen[c]) \subseteq Live(tab)
    BY <2>3 DEF Counting, Passed
  <2> HIDE DEF cell
  <2>6. Counting(tab', cell, seen[c], owed[c])
    BY <1>3, <2>3, <2>4, <2>5, CountingKept DEF Retains
  <2> QED
    BY <1>1, <2>2, <2>6
<1>5. \A d \in Clients : client'[d].phase # "open" => owed'[d] = {}
  BY <1>1 DEF OInv
<1>6. Tidy(tab)'
  BY <1>1, <1>3 DEF Tidy
<1> QED
  BY <1>1, <1>2, <1>4, <1>5, <1>6 DEF OInv

LEMMA DelOInv ==
    ASSUME OInv, CInv', Shape', Del
    PROVE  OInv'
<1>1. PICK key \in Keys :
        LET found == Lnext(tab, Started(tab, key, FALSE))
        IN  /\ "del" \in use.calls /\ ~Disturbs(key)
            /\ IF found.sn = MISS THEN UNCHANGED <<tab, owed, seen>>
               ELSE /\ tab' = DeleteAt(tab, found.sn)
                    /\ owed' = [c \in Clients |-> owed[c] \ {found.sn}]
                    /\ seen' = [c \in Clients |-> seen[c] \ {found.sn}]
            /\ UNCHANGED <<use, client>>
  BY DEF Del
<1> DEFINE sn == Lnext(tab, Started(tab, key, FALSE)).sn
<1>2. /\ CInv /\ use.range /\ use.sorted /\ Tidy(tab) /\ Typed(tab)
      /\ \A c \in Iterating : c \in Clients
  BY DEF OInv, Tidy, Healthy, Sound, Iterating
<1>3. CASE sn = MISS
  <2>1. UNCHANGED <<use, client, tab, owed, seen>>
    BY <1>1, <1>3
  <2>2. ASSUME NEW c \in Iterating'
        PROVE  Counting(tab', cur'[client'[c].id], seen'[c], owed'[c])
    <3>1. c \in Iterating /\ Elsewhere(c)
      BY <2>1, <2>2 DEF Iterating, Elsewhere
    <3> QED
      BY <2>1, <3>1, OthersCount
  <2>3. Tidy(tab)'
    BY <1>2, <2>1 DEF Tidy
  <2> QED
    BY <1>2, <2>1, <2>2, <2>3 DEF OInv
<1>4. CASE sn # MISS
  <2> DEFINE p == tab.map[Lookup(tab, key)]
             u == DeleteAt(tab, p)
  <2>1. Lookup(tab, key) \in Slots(tab) /\ p # MISS /\ sn = p /\ tab.omap[p] = key
    BY <1>2, <1>4, DelFinds
  <2>2. Lookup(tab, key) # MISS
    BY <2>1 DEF Slots, MISS
  <2>3. /\ Tidy(u) /\ p \in Live(tab)
        /\ Live(u) = Live(tab) \ {p}
        /\ \A q \in Live(u) : u.omap[q] = tab.omap[q]
    BY <1>1, <1>2, <2>1, <2>2, TidyDel
  <2>4. /\ tab' = u /\ UNCHANGED <<use, client>> /\ ~Disturbs(key)
        /\ owed' = [c \in Clients |-> owed[c] \ {p}]
        /\ seen' = [c \in Clients |-> seen[c] \ {p}]
    BY <1>1, <1>4, <2>1
  <2> HIDE DEF p, u, sn
  <2>5. ASSUME NEW c \in Iterating'
        PROVE  Counting(tab', cur'[client'[c].id], seen'[c], owed'[c])
    <3> DEFINE cell == cur[client[c].id]
    <3>1. c \in Iterating /\ client'[c].phase = "open" /\ Elsewhere(c)
      BY <2>4, <2>5 DEF Iterating, Elsewhere
    <3>2. cur'[client'[c].id] = cell
      BY <1>2, <2>4, <3>1, CellStays
    <3>3. Counting(tab, cell, seen[c], owed[c])
      BY <3>1 DEF OInv
    <3>4. /\ cell.key # NULL => ~(tab.omap[p] < cell.key)
          /\ \A q \in seen[c] : ~(tab.omap[p] <= tab.omap[q])
      BY <1>2, <2>1, <2>4, <3>1 DEF Disturbs
    <3>5. p \notin Passed(tab, cell, seen[c])
      BY <3>4 DEF Passed
    <3> HIDE DEF cell
    <3>6. /\ owed[c] \subseteq Live(tab) /\ seen[c] \subseteq Passed(tab, cell, seen[c])
          /\ Passed(tab, cell, seen[c]) \subseteq Live(tab)
      <4>1. /\ cell \in Cell /\ seen[c] \subseteq Live(tab)
            /\ owed[c] \subseteq Live(tab)
        BY <3>3 DEF Counting
      <4>2. seen[c] \subseteq Passed(tab, cell, seen[c])
        BY <1>2, <4>1, PassedCloses
      <4> QED
        BY <4>1, <4>2 DEF Passed
    <3>7. seen'[c] = seen[c] /\ owed'[c] = owed[c] \ {p}
      BY <1>2, <2>4, <3>1, <3>5, <3>6
    <3>8. Counting(u, cell, seen[c], owed[c] \ {p})
      BY <2>3, <3>3, <3>5, <3>6, CountingKept
    <3> QED
      BY <2>4, <3>2, <3>7, <3>8
  <2>6. \A d \in Clients : client'[d].phase # "open" => owed'[d] = {}
    BY <2>4 DEF OInv
  <2>7. Tidy(tab)'
    BY <2>3, <2>4 DEF Tidy
  <2> QED
    BY <1>2, <2>4, <2>5, <2>6, <2>7 DEF OInv
<1> QED
  BY <1>3, <1>4

LEMMA NextOInv == ASSUME Careful, OInv, [Next]_vars PROVE OInv'
<1>1. CInv /\ CInv' /\ Shape
  BY NextCInv DEF OInv
<1>2. ASSUME NEW c \in Clients, Fetch(c)
      PROVE  Lnext(tab, cur[client[c].id]).sn \in Nat
  <2>1. /\ Lnext(tab, cur[client[c].id]).sn # MISS
        /\ Counting(tab, cur[client[c].id], seen[c], owed[c])
        /\ Findable(tab) /\ use.sorted
    BY <1>2 DEF Fetch, OInv, Iterating, Tidy
  <2>2. Lnext(tab, cur[client[c].id]).sn \in Live(tab)
    BY <2>1, CountingNext
  <2> QED
    BY <2>2 DEF Live
<1>3. Shape'
  BY <1>1, <1>2, NextShape
<1>4. ASSUME GetKey \/ UNCHANGED vars PROVE OInv'
  <2>1. UNCHANGED <<use, client, tab, owed, seen>>
    BY <1>4 DEF GetKey, vars
  <2>2. ASSUME NEW c \in Iterating'
        PROVE  Counting(tab', cur'[client'[c].id], seen'[c], owed'[c])
    <3>1. c \in Iterating /\ Elsewhere(c)
      BY <1>4, <2>1, <2>2 DEF Iterating, Elsewhere
    <3> QED
      BY <2>1, <3>1, OthersCount
  <2>3. Tidy(tab)'
    BY <2>1 DEF OInv, Tidy
  <2> QED
    BY <1>1, <1>3, <2>1, <2>2, <2>3 DEF OInv
<1> QED
  BY <1>1, <1>3, <1>4, OpenOInv, FetchOInv, LeaveOInv, PutOInv, DelOInv DEF Next

LEMMA InOrderOnce == ASSUME OInv PROVE Once
<1> SUFFICES ASSUME NEW c \in Iterating,
                    Lnext(tab, cur[client[c].id]).sn # MISS
             PROVE  LET cell == cur[client[c].id]
                        sn   == Lnext(tab, cell).sn
                    IN  /\ sn \notin seen[c]
                        /\ cell.key # NULL => tab.omap[sn] >= cell.key
                        /\ \A p \in seen[c] : tab.omap[p] < tab.omap[sn]
  BY DEF Once
<1>1. /\ Counting(tab, cur[client[c].id], seen[c], owed[c])
      /\ Findable(tab) /\ use.sorted
  BY DEF OInv, Tidy
<1> QED
  BY <1>1, CountingNext

-----------------------------------------------------------------------------
(* Both kinds of loops *)

LoopsInv ==
    \/ ByPosition /\ SInv /\ Shape
    \/ ~ByPosition /\ OInv

LEMMA InitLoopsInv == OrderSafe /\ Init => LoopsInv
<1>1. Init => SInv /\ Shape
  BY InitLInv, InitShape DEF Init, SInv, Idle, Iterating
<1> QED
  BY <1>1, InitOInv DEF LoopsInv

LEMMA NextLoopsInv == ASSUME Careful, LoopsInv, [Next]_vars PROVE LoopsInv'
<1>1. use' = use
  BY DEF Next, Open, Fetch, End, Fin, Put, GetKey, Del, vars
<1>2. ByPosition' <=> ByPosition
  BY <1>1 DEF ByPosition
<1> QED
  BY <1>2, NextByPosition, NextOInv DEF LoopsInv

(* A loop that ended by itself has returned every entry that was there     *)
(* when it began and was not deleted meanwhile, for every number of loops, *)
(* keys and entries, whatever growth the puts caused, and whether it reads *)
(* the map by position or in key order.                                    *)
THEOREM LoopsComplete == Careful /\ OrderSafe => (Spec => []Complete)
<1> SUFFICES ASSUME Careful, OrderSafe PROVE Spec => []Complete
  OBVIOUS
<1>1. LoopsInv /\ [Next]_vars => LoopsInv'
  BY NextLoopsInv
<1>2. LoopsInv => Complete
  BY DEF LoopsInv, SInv, LInv, OInv, Complete
<1> QED
  BY InitLoopsInv, <1>1, <1>2, PTL DEF Spec

(* No loop returns an entry twice, even when positions are freed and       *)
(* reused under it, nor one with QM_RANGE an entry before its key; and a   *)
(* loop in key order returns ascending keys.                               *)
THEOREM LoopsOnce == Careful /\ OrderSafe => (Spec => []Once)
<1> SUFFICES ASSUME Careful, OrderSafe PROVE Spec => []Once
  OBVIOUS
<1>1. LoopsInv /\ [Next]_vars => LoopsInv'
  BY NextLoopsInv
<1>2. LoopsInv => Once
  BY ByPositionOnce, InOrderOnce DEF LoopsInv
<1> QED
  BY InitLoopsInv, <1>1, <1>2, PTL DEF Spec

(* The table, the cells and the loops hold what they are declared to: a    *)
(* cursor stays a position, or QM_MISS, whatever the map becomes under it. *)
THEOREM LoopsTyped == Careful /\ OrderSafe => (Spec => []TypeOK)
<1> SUFFICES ASSUME Careful, OrderSafe PROVE Spec => []TypeOK
  OBVIOUS
<1>1. LoopsInv /\ [Next]_vars => LoopsInv'
  BY NextLoopsInv
<1>2. LoopsInv => TypeOK
  <2>1. ASSUME SInv, Shape PROVE TypeOK
    <3>1. CInv /\ Typed(tab) /\ \A c \in Iterating : cur[client[c].id] \in Cell
      BY <2>1 DEF SInv, LInv, Healthy, Sound, OwedAhead
    <3> QED
      BY <2>1, <3>1, CellsTyped
  <2>2. ASSUME OInv PROVE TypeOK
    <3>1. CInv /\ Shape /\ Typed(tab) /\ \A c \in Iterating : cur[client[c].id] \in Cell
      BY <2>2 DEF OInv, Tidy, Healthy, Sound, Counting
    <3> QED
      BY <3>1, CellsTyped
  <2> QED
    BY <2>1, <2>2 DEF LoopsInv
<1> QED
  BY InitLoopsInv, <1>1, <1>2, PTL DEF Spec
=============================================================================
