------------------------------ MODULE MCRecords -----------------------------
(* What the clients of the runs of Records do. *)
EXTENDS Records

CONSTANTS a, b, c

(* three items that name one target each, two that name several, and one *)
(* with both fields                                                      *)
Writing == {
    [items |-> {a, b, c}, fields |-> {"ref"}, regrows |-> FALSE],
    [items |-> {a, b}, fields |-> {"multi"}, regrows |-> FALSE],
    [items |-> {a}, fields |-> {"ref", "multi"}, regrows |-> FALSE]}

(* references to a target are added after others were removed *)
Regrowing == {[items |-> {a, b, c}, fields |-> {"ref"}, regrows |-> TRUE]}
=============================================================================
