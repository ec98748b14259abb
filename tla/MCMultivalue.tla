---------------------------- MODULE MCMultivalue ----------------------------
(* Keys and hash functions for the runs of Multivalue. *)
EXTENDS Multivalue

Keys3 == 0 .. 2

Clash == [k \in Keys |-> 3 * (k \div 2)]
=============================================================================
