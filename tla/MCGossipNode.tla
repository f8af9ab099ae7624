---------------------------- MODULE MCGossipNode ----------------------------
(* Instances of GossipNode for TLC. *)
EXTENDS GossipNode

CONSTANTS x, y, p1, p2, p3, p4, p5

Everything == {"subscribe", "unsubscribe", "publish", "direct", "heartbeat",
               "tick", "rpc", "join", "close", "flaky", "leave"}

Par(d, dLow, dHigh, dScore, dOut, slack, threshold) ==
    [d |-> d, dLow |-> dLow, dHigh |-> dHigh, dScore |-> dScore, dOut |-> dOut,
     slack |-> slack, opportunisticGraftThreshold |-> threshold]

\* One peer and two topics.
Tables2 ==
    [ops |-> Everything \ {"direct", "flaky"}, topics |-> {x, y}, peers |-> {p5},
     joined |-> {}, dialled |-> {}, slow |-> {},
     scores |-> {0}, backoffs |-> {}, par |-> Par(1, 1, 1, 0, 0, 0, 0)]
\* Two peers that come and go, with backoffs: one may be gone at any time, or be
\* made a direct peer.
Two(ops, slow) ==
    [ops |-> ops, topics |-> {x}, peers |-> {p1, p2}, joined |-> {}, dialled |-> {},
     slow |-> slow,
     scores |-> {0}, backoffs |-> {2}, par |-> Par(1, 1, 1, 0, 0, 1, 0)]
PeerLife == Two(Everything \ {"publish", "direct"}, {p1, p2})
DirectPeers == Two(Everything \ {"publish", "flaky"}, {})
\* Four peers, two of them dialled, whose streams close, or that are disconnected.
Degrees(trouble, slow) ==
    [ops |-> {"subscribe", "heartbeat", "rpc"} \cup trouble, topics |-> {x},
     peers |-> {p1, p2, p3, p4}, joined |-> {p1, p2, p3, p4}, dialled |-> {p3, p4},
     slow |-> slow, scores |-> {0}, backoffs |-> {}, par |-> Par(2, 2, 2, 0, 1, 0, 0)]
\* Peers whose scores change: a mesh that opportunistic grafting makes too large,
\* without and with an outbound quota.
Scored(peers, dialled, scores, par) ==
    [ops |-> {"subscribe", "heartbeat", "rpc", "score"}, topics |-> {x},
     peers |-> peers, joined |-> peers, dialled |-> dialled,
     slow |-> {}, scores |-> scores, backoffs |-> {}, par |-> par]
Quality == Scored({p1, p2, p5}, {}, {-1, 0}, Par(2, 1, 3, 1, 0, 0, 1))
Excess == Scored({p3, p4, p5}, {p3, p4}, {0, 1}, Par(2, 2, 2, 0, 1, 0, 1))

Surroundings ==
    {Tables2, PeerLife, DirectPeers, Degrees({"close"}, {}), Degrees({}, {p3, p4}),
     Quality, Excess}
Parameters == {e.par : e \in Surroundings}
MinusTwo == -2
MinusThree == -3

\* Every surrounding treats these alike.
Alike == Permutations({p1, p2}) \cup Permutations({p3, p4})
=============================================================================
