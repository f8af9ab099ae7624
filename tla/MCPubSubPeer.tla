---------------------------- MODULE MCPubSubPeer ----------------------------
(* Instances of PubSubPeer for TLC.  A behaviour has a cast: the messages  *)
(* and the hellos that are sent in it.                                     *)
EXTENDS PubSubPeer

CONSTANTS h1, h2, m1, l1, Casts

VARIABLE cast

Priorities == [m \in Msgs |->
    IF m \in {h1, h2} THEN "High" ELSE IF m = m1 THEN "Medium" ELSE "Low"]

MCInit == Init /\ cast \in Casts
MCNext == Next /\ UNCHANGED cast /\ \A m \in All \ cast : st'[m] = "new"
MCSpec == MCInit /\ [][MCNext]_<<vars, cast>> /\ Fairness
=============================================================================
