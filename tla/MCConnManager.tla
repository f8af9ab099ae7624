--------------------------- MODULE MCConnManager ---------------------------
(* Instances of ConnManager for TLC.  A behaviour has a cast: the peers,   *)
(* connections and tasks that take part in it, and whether the manager *)
(* is stopped.                                                             *)
EXTENDS ConnManager, TLC

CONSTANTS
    m1, m2, m3, m4, p1, p2,
    Casts              \* the casts to look at

\* Three connections of one peer, the second one outbound, and one of another.
Owner == (m1 :> p1) @@ (m2 :> p1) @@ (m3 :> p1) @@ (m4 :> p2)
Direction == (m1 :> "In") @@ (m2 :> "Out") @@ (m3 :> "In") @@ (m4 :> "Out")

VARIABLE cast

MCInit == Init /\ cast \in Casts

MCNext ==
    /\ Next
    /\ UNCHANGED cast
    /\ \A m \in Muxers \ cast : storePc'[m] = "upgraded" /\ conn'[m] = "open"
    /\ \A d \in Droppers \ cast : drops'[d] = None
    /\ \A w \in Waiters : waitPeer'[w] = None \/ {w, waitPeer'[w], waitEvent'[w]} \subseteq cast
    /\ \A x \in Expecters : expectKey'[x] = None \/ {x, expectKey'[x][1]} \subseteq cast
    /\ "stop" \notin cast => stops' = 0

MCSpec == MCInit /\ [][MCNext]_<<vars, cast>> /\ Fairness
=============================================================================
