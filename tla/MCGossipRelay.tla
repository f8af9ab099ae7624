---------------------------- MODULE MCGossipRelay ---------------------------
(* Instances of GossipRelay for TLC. *)
EXTENDS GossipRelay, TLC

CONSTANTS p1, p2, p3, m1, m2, k1

Env(ops, msgs, peers, direct, tasks) ==
    [ops |-> ops, msgs |-> msgs, peers |-> peers, direct |-> direct, tasks |-> tasks]

\* Copies of two messages; a message that is forgotten; and gossip.
Relaying == Env({"mesh", "idontwant", "publish"}, {m1, m2}, {p1, p2}, {}, Tasks)
Forgetting ==
    Env({"mesh", "topic", "idontwant", "expire"}, {m1}, {p1, p2, p3}, {p3}, Tasks)
Gossiping == Env({"gossip", "heartbeat", "expire"}, {m1}, {p2, p3}, {}, {k1})
\* More messages than an IHAVE may name.
Truncating == Env({"gossip", "heartbeat", "publish"}, {m1, m2}, {p2}, {}, {k1})
Behaviours == {Relaying, Forgetting, Gossiping, Truncating}

\* The first message is from a peer, the second is ours.
Authors == [m \in Msgs |-> IF m = m1 THEN p1 ELSE None]
=============================================================================
