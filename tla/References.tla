----------------------------- MODULE References -----------------------------
(***************************************************************************)
(* What the inverse index of a reference field promises: it is a relation  *)
(* between the items of two maps, read from the side of the targets.  A    *)
(* call that stores or deletes one item replaces the references of that    *)
(* item and of no other.                                                   *)
(***************************************************************************)
CONSTANTS Sources,      \* the items that refer
          Targets       \* the items they may refer to

VARIABLE refs           \* the pairs <<source, target>> that qmap_inv_get reports

Init == refs = {}

Refer == \E s \in Sources : \E ts \in SUBSET Targets :
    refs' = {e \in refs : e[1] # s} \cup ({s} \X ts)

Spec == Init /\ [][Refer]_refs
=============================================================================
