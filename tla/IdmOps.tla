------------------------------- MODULE IdmOps -------------------------------
(***************************************************************************)
(* The operations of an id manager (src/idm.c) as functions of its value:  *)
(* a record [free, last], where free is the singly linked free list, its   *)
(* head first, and last is one more than the highest id ever issued.       *)
(* Map handles, cursor ids and the entry positions of every map are issued *)
(* by such a manager.                                                      *)
(*                                                                         *)
(* A definition introduced by the word Faulty is not part of the model: it *)
(* is the next one with a bug, and the invariants are shown to notice it.  *)
(***************************************************************************)
EXTENDS Integers, Sequences, SequencesExt

IdmInit == [free |-> <<>>, last |-> 0]

(* idm_new: the head of the free list, or the next id never issued *)
IdmNewId(idm) == IF idm.free = <<>> THEN idm.last ELSE idm.free[1]

(* Faulty: the free list's head is read but not removed *)
IdmNewPeek(idm) == IF idm.free = <<>> THEN [idm EXCEPT !.last = @ + 1] ELSE idm

(* Faulty: last moves although the id comes from the free list *)
IdmNewAdvance(idm) ==
    [free |-> IF idm.free = <<>> THEN <<>> ELSE Tail(idm.free),
     last |-> idm.last + 1]

IdmNew(idm) ==
    IF idm.free = <<>>
      THEN [idm EXCEPT !.last = @ + 1]
      ELSE [idm EXCEPT !.free = Tail(@)]

(* Faulty: an id at or above last is not ignored *)
IdmDelUnguarded(idm, id) ==
    IF id + 1 = idm.last THEN [idm EXCEPT !.last = @ - 1]
      ELSE [idm EXCEPT !.free = <<id>> \o @]

(* idm_del: an id at or above last is ignored, the highest one lowers last *)
(* by exactly one, any other goes to the head of the free list; nothing    *)
(* checks whether the id is already there.                                 *)
IdmDel(idm, id) ==
    CASE idm.last <= id    -> idm
      [] id + 1 = idm.last -> [idm EXCEPT !.last = @ - 1]
      [] OTHER             -> [idm EXCEPT !.free = <<id>> \o @]

(* idm_del of every id of a list, one after the other *)
IdmDelAll(idm, list) ==
    LET after[n \in 0 .. Len(list)] ==
            IF n = 0 THEN idm ELSE IdmDel(after[n - 1], list[n])
    IN  after[Len(list)]

(* Faulty: a reserved id stays on the free list *)
IdmPushListed(idm, id) ==
    IF idm.last > id THEN idm
      ELSE [free |-> [k \in 1 .. id - idm.last |-> id - k] \o idm.free,
            last |-> id + 1]

(* Faulty: one id too many is put on the free list *)
IdmPushOneMore(idm, id) ==
    IF idm.last > id
      THEN [idm EXCEPT !.free = RemoveFirst(@, id)]
      ELSE [free |-> [k \in 1 .. id - idm.last + 1 |-> id - k] \o idm.free,
            last |-> id + 1]

(* idm_push: reserve the given id; the ids skipped on the way become free *)
IdmPush(idm, id) ==
    IF idm.last > id
      THEN [idm EXCEPT !.free = RemoveFirst(@, id)]
      ELSE [free |-> [k \in 1 .. id - idm.last |-> id - k] \o idm.free,
            last |-> id + 1]

(* Listed: the ids on the free list *)
Listed(idm) == {idm.free[i] : i \in 1 .. Len(idm.free)}

(* A manager accounts for exactly the ids in held: every id below last is  *)
(* either held or on the free list, once, and never both.                  *)
Accounts(idm, held) ==
    /\ \A i, j \in 1 .. Len(idm.free) : idm.free[i] = idm.free[j] => i = j
    /\ held \cap Listed(idm) = {}
    /\ held \cup Listed(idm) = 0 .. idm.last - 1
=============================================================================
