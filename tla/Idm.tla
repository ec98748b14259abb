-------------------------------- MODULE Idm ---------------------------------
(***************************************************************************)
(* One id manager and the calls its owners make: src/idm.c, called by      *)
(* libqmap.c for map handles, cursors and entry positions.  Callers give   *)
(* back only ids they hold; the module Cursors shows what follows when the *)
(* library itself breaks that rule.  Names that every module has, IdInit,  *)
(* IdNext, IdSpec, begin with Id: module Store, whose handles such a       *)
(* manager issues, is extended beside this one.                            *)
(***************************************************************************)
EXTENDS IdmOps, FiniteSets

CONSTANT MaxIds         \* bound: ids are taken from 0 .. MaxIds - 1

ASSUME MaxIdsAssumption == MaxIds \in Nat

VARIABLES idm,          \* the manager: [free, last]
          held,         \* history: ids the callers hold
          grants,       \* history: grants not yet given back
          peak          \* history: the most ids that were ever wanted at once

idVars == <<idm, held, grants, peak>>

IdInit ==
    /\ idm = IdmInit
    /\ held = {}
    /\ grants = 0
    /\ peak = 0

Larger(a, b) == IF a >= b THEN a ELSE b

(* idm_new *)
New ==
    /\ IdmNewId(idm) < MaxIds
    /\ idm' = IdmNew(idm)
    /\ held' = held \cup {IdmNewId(idm)}
    /\ grants' = grants + 1
    /\ peak' = Larger(peak, grants')

(* idm_del, by an owner of the id *)
Del == \E id \in held :
    /\ idm' = IdmDel(idm, id)
    /\ held' = held \ {id}
    /\ grants' = grants - 1
    /\ UNCHANGED peak

(* idm_push: afterwards the id is held, also when the call returns         *)
(* IDM_MISS; a caller that names an id wants all the ids up to it.         *)
Push == \E id \in 0 .. MaxIds - 1 :
    /\ idm' = IdmPush(idm, id)
    /\ held' = held \cup {id}
    /\ grants' = IF id \in held THEN grants ELSE grants + 1
    /\ peak' = Larger(Larger(peak, id + 1), grants')

(* idm_drop as qmap_clear_fast and qmap_close use it: the free list is     *)
(* emptied and last is set back to 0.                                      *)
Clear ==
    /\ idm' = [idm EXCEPT !.free = <<>>, !.last = 0]
    /\ held' = {}
    /\ grants' = 0
    /\ UNCHANGED peak

IdNext == New \/ Del \/ Push \/ Clear

IdSpec == IdInit /\ [][IdNext]_idVars

-----------------------------------------------------------------------------

(* The types of the manager and of the history variables. *)
IdTypeOK ==
    /\ idm \in [free : Seq(Nat), last : Nat]
    /\ held \subseteq 0 .. MaxIds - 1
    /\ grants \in Nat
    /\ peak \in Nat

(* Every id below last is either held or on the free list, exactly once:   *)
(* no sequence of idm_new, idm_del and idm_push loses an id or lists one   *)
(* that a caller still holds.                                              *)
Partition == Accounts(idm, held)

(* The ids stay as small as the demand: last never exceeds the most ids    *)
(* that were wanted at once, so fixed arrays indexed by id (qmap_heads,    *)
(* qmap_cursors) need no more slots than there are simultaneous users.     *)
Compact == idm.last <= peak

Allocator == INSTANCE IdAllocator WITH Ids <- 0 .. MaxIds - 1

(* The manager implements an allocator: an id is granted to one caller at  *)
(* a time, whatever the order of the calls that took and returned ids.     *)
ImplementsAllocator == Allocator!Spec
=============================================================================
