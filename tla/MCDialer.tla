------------------------------ MODULE MCDialer ------------------------------
(* Instances of Dialer for TLC.  A behaviour has a cast: the dials and the *)
(* incoming connections that take part in it.                              *)
EXTENDS Dialer

CONSTANTS d1, d2, d3, d4, d5, i1, i2, p1, p2, Casts

VARIABLE cast

\* All dial p1, but d5, which has no peer id.
Targets == [d \in Dials |-> IF d = d5 THEN None ELSE p1]
Sources == [c \in Incoming |-> IF c = i1 THEN p1 ELSE p2]

Others == Conns \ cast

MCInit == Init /\ cast \in Casts
MCNext ==
    /\ Next
    /\ UNCHANGED cast
    /\ \A c \in Others : conn'[c] = "none" /\ (c \in Dials => phase'[c] = "idle")
MCSpec == MCInit /\ [][MCNext]_<<vars, cast>> /\ Fairness
=============================================================================
