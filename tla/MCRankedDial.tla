---------------------------- MODULE MCRankedDial ----------------------------
(* Instances of RankedDial for TLC. *)
EXTENDS RankedDial

CONSTANTS a1, a2, a3, a4, n1, n2

\* The names share an address, which is also a wire address.
Found == [n \in Names |-> IF n = n1 THEN {a1, a3} ELSE {a3, a4}]
Ranks == [a \in {a1, a2, a3, a4} |-> CASE a = a1 -> 1 [] a = a3 -> 0 [] OTHER -> 2]
=============================================================================
