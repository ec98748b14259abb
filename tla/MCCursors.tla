------------------------------ MODULE MCCursors -----------------------------
(* Keys, clients and uses for the runs of Cursors. *)
EXTENDS Cursors

Keys3 == 0 .. 2
Identity == [k \in Keys |-> k]

Loops(nested, range, sorted, calls) ==
    [nested |-> nested, range |-> range, sorted |-> sorted, calls |-> calls]

(* Nested loops that follow the header's examples, and loops in any order  *)
(* that release a cursor once; by position, in key order, and by position  *)
(* from a key on.                                                          *)
CarefulUses == {
    Loops(TRUE, FALSE, FALSE, {"put", "del"}),
    Loops(FALSE, FALSE, FALSE, {"put", "get"}),
    Loops(TRUE, TRUE, TRUE, {"put", "del"}),
    Loops(FALSE, TRUE, FALSE, {"put"})}

(* Loops in any order that release a cursor once, on a map that entries    *)
(* are deleted from.                                                       *)
ConcurrentUses == {Loops(FALSE, FALSE, FALSE, {"put", "del"})}
=============================================================================
