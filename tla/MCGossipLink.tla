---------------------------- MODULE MCGossipLink ----------------------------
(* Instances of GossipLink for TLC.  In a behaviour the nodes unsubscribe  *)
(* and subscribe again, or their streams are lost.                         *)
EXTENDS GossipLink

CONSTANT Troubles

VARIABLE trouble

Parameters ==
    {[d |-> 1, dLow |-> 1, dHigh |-> 1, dScore |-> 0, dOut |-> 0, slack |-> 1,
      opportunisticGraftThreshold |-> 0]}
MinusTwo == -2
MinusThree == -3

MCInit == Init /\ trouble \in Troubles
MCNext ==
    /\ Next
    /\ UNCHANGED trouble
    /\ \A x \in Peers :
        /\ "unsubscribe" \in trouble \/ node[x].topics \subseteq node'[x].topics
        /\ "close" \in trouble \/ (Open(x) => Open(x)')
MCSpec == MCInit /\ [][MCNext]_<<vars, trouble>> /\ Fairness
=============================================================================
