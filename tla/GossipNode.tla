----------------------------- MODULE GossipNode -----------------------------
(***************************************************************************)
(* One gossipsub node among peers that may do anything: send any control   *)
(* message at any time, come and go, lose their streams, change score.     *)
(*                                                                         *)
(* The peers' side of the life of a PubSubPeer (getOrCreatePeer, the       *)
(* connect loop of pubsubpeer.nim) is here; what the events do to the      *)
(* tables is in GossipMesh.  An RPC is handled only while its peer is in   *)
(* `peers` and not stopped: runHandleLoop looks at `stopped` right before  *)
(* the handler, and the handler does not give way before it is done.       *)
(*                                                                         *)
(* A peer whose high priority queue is full is stopped by the send that    *)
(* finds it so, and disconnected.  Sends come last in the operations, so   *)
(* the disconnection is a step of its own here.                            *)
(***************************************************************************)
EXTENDS GossipMesh

CONSTANT
    Envs          \* the surroundings: operations, topics and peers that take part,
                  \* peers there from the beginning, peers we dialled, peers whose
                  \* queue may fill up, what the scoring may set, what a PRUNE may
                  \* ask for, parameters

VARIABLES
    env,          \* an element of Envs
    node,         \* the tables
    dialing,      \* peers whose connect loop runs
    stopped,      \* peers that disconnectPeer has stopped
    stale         \* peers that left and whose old PubSubPeer is still closing

vars == <<env, node, dialing, stopped, stale>>

Init ==
    /\ env \in Envs
    /\ node = NewNode(env.par, env.dialled, env.joined)
    /\ dialing = env.joined
    /\ stopped = {} /\ stale = {}

\* The node with nothing to send: every operation starts from it.  `out` and
\* `penalised` are those of the last step.
Quiet == [node EXCEPT !.out = [p \in Peers |-> <<>>], !.penalised = {}]

Keep == UNCHANGED <<dialing, stopped, stale>>

-----------------------------------------------------------------------------
(* The node's own operations.                                              *)

DoSubscribe(t) ==
    /\ "subscribe" \in env.ops
    /\ t \notin node.topics
    /\ node' \in Subscribe(Quiet, t)
    /\ Keep

DoUnsubscribe(t) ==
    /\ "unsubscribe" \in env.ops
    /\ t \in node.topics
    /\ node' \in Unsubscribe(Quiet, t)
    /\ Keep

DoPublish(t) ==
    /\ "publish" \in env.ops
    /\ node' \in PublishToFanout(Quiet, t)
    /\ Keep

DoAddDirectPeer(p) ==
    /\ "direct" \in env.ops
    /\ node' = AddDirectPeer(Quiet, p)
    /\ Keep

Heartbeat ==
    /\ "heartbeat" \in env.ops
    /\ node' \in OnHeartbeat(Quiet)
    /\ Keep

Tick ==
    /\ "tick" \in env.ops
    /\ node' = Elapse(Quiet)
    /\ Keep

\* updateScores, for one peer.
SetScore(p) ==
    /\ "score" \in env.ops
    /\ p \in node.peers
    /\ \E s \in env.scores : node' = [Quiet EXCEPT !.score[p] = s]
    /\ Keep

-----------------------------------------------------------------------------
(* The peers.                                                              *)

Rpc(p) ==
    /\ "rpc" \in env.ops
    /\ p \in node.peers \ stopped
    /\ \E rpc \in RPCs(env.topics, env.backoffs) : node' \in RpcHandler(Quiet, p, rpc)
    /\ Keep

\* The Joined event: subscribePeer creates the peer and starts its loop, unless
\* it is stopped.
PeerJoined(p) ==
    /\ "join" \in env.ops
    /\ p \notin dialing \cup stopped
    /\ node' = GetOrCreatePeer(Quiet, p)
    /\ dialing' = dialing \cup {p}
    /\ UNCHANGED <<stopped, stale>>

\* A stream of the peer may come before its Joined event: handleConn.
IncomingStream(p) ==
    /\ "join" \in env.ops
    /\ p \notin node.peers
    /\ node' = GetOrCreatePeer(Quiet, p)
    /\ Keep

OpenStream(p) ==
    /\ p \in dialing \ stopped /\ node.stream[p] = "none"
    /\ node' = StreamOpened(Quiet, p)
    /\ Keep

\* The stream is closed by the other side; the read loop has yet to see it.
StreamDies(p) ==
    /\ "flaky" \in env.ops
    /\ node.stream[p] = "open"
    /\ node' = [Quiet EXCEPT !.stream[p] = "dead"]
    /\ Keep

\* The read loop of the stream ends, and the connect loop goes on.
StreamCloses(p) ==
    /\ "close" \in env.ops
    /\ p \notin stopped /\ node.stream[p] # "none"
    /\ node' = CloseSendStream(Quiet, p, "StreamClosed")
    /\ Keep

\* disconnectPeer stops the peer and begins to close its stream.
Disconnect(p) ==
    /\ p \in (env.slow \cap node.peers) \ stopped
    /\ node' = [Quiet EXCEPT !.stream[p] = IF @ = "none" THEN @ ELSE "dead"]
    /\ stopped' = stopped \cup {p}
    /\ UNCHANGED <<dialing, stale>>

\* Its stream is closed.
DisconnectionRequested(p) ==
    /\ p \in stopped /\ node.stream[p] = "dead"
    /\ node' = CloseSendStream(Quiet, p, "DisconnectionRequested")
    /\ Keep

\* The loops of a stopped peer end, whether they were reading or dialling.
StoppedLoopEnds(p) ==
    /\ p \in dialing \cap stopped
    /\ node' = CloseSendStream(Quiet, p, "StreamClosed")
    /\ dialing' = dialing \ {p}
    /\ UNCHANGED <<stopped, stale>>

\* A dial that fails ends the loop, and raises StreamClosed all the same.
DialFails(p) ==
    /\ "flaky" \in env.ops
    /\ p \in dialing \ stopped /\ node.stream[p] = "none"
    /\ node' = CloseSendStream(Quiet, p, "StreamClosed")
    /\ dialing' = dialing \ {p}
    /\ UNCHANGED <<stopped, stale>>

\* The Left event.  stopTasks cancels the loop, which raises StreamClosed only
\* once the stream is closed (one such event per peer is kept).
PeerLeft(p) ==
    /\ "leave" \in env.ops
    /\ p \in node.peers
    /\ p \in dialing => p \notin stale
    /\ node' = UnsubscribePeer(Quiet, p)
    /\ dialing' = dialing \ {p}
    /\ stopped' = stopped \ {p}
    /\ stale' = IF p \in dialing THEN stale \cup {p} ELSE stale

\* The old PubSubPeer's event: the tables tell peers apart by their id, so it
\* hits a peer that has come back.
StaleClosed(p) ==
    /\ p \in stale
    /\ node' = StreamClosed(Quiet, p)
    /\ stale' = stale \ {p}
    /\ UNCHANGED <<dialing, stopped>>

Step ==
    \/ \E t \in env.topics : DoSubscribe(t) \/ DoUnsubscribe(t) \/ DoPublish(t)
    \/ \E p \in env.peers :
        \/ Rpc(p) \/ PeerJoined(p) \/ IncomingStream(p) \/ OpenStream(p)
        \/ StreamDies(p) \/ StreamCloses(p) \/ DialFails(p)
        \/ Disconnect(p) \/ DisconnectionRequested(p) \/ StoppedLoopEnds(p)
        \/ PeerLeft(p) \/ StaleClosed(p) \/ DoAddDirectPeer(p) \/ SetScore(p)
    \/ Heartbeat
    \/ Tick

Next == Step /\ UNCHANGED env

Spec == Init /\ [][Next]_vars

-----------------------------------------------------------------------------
(* Properties.                                                             *)

Tables == {node.mesh, node.fanout, node.gossipsub, node.subscribedDirectPeers}

\* The shape of the tables of the GossipSub object.
TypeOK ==
    /\ node.topics \subseteq Topics /\ node.peers \subseteq Peers
    /\ \A table \in Tables :
        /\ DOMAIN table \subseteq Topics
        /\ \A t \in DOMAIN table : table[t] \subseteq Peers
    /\ \A t \in Topics, p \in Peers :
        p \in DOMAIN node.backingOff[t] => node.backingOff[t][p] \in Nat
    /\ node.stream \in [Peers -> {"none", "open", "dead"}]
    /\ dialing \subseteq node.peers /\ stopped \subseteq node.peers
    /\ stale \subseteq Peers

\* A peer that unsubscribePeer removed is in no table, whatever event of its
\* old PubSubPeer comes in later: no table refers to a peer that is gone.
NoGhostInTables ==
    \A table \in Tables : \A t \in DOMAIN table : table[t] \subseteq node.peers

\* The mesh has only topics we are subscribed to: neither a GRAFT nor a stream
\* event creates one for another topic, and Unsubscribe leaves none behind.
MeshOnlySubscribed == DOMAIN node.mesh \subseteq node.topics

\* subscribedTopics, which handleSubscribe keeps on the peer, is the number of
\* topics the gossipsub table lists the peer under, at most topicsHigh.
SubscriptionsCounted ==
    \A p \in node.peers :
        /\ node.subscribedTopics[p] =
             Cardinality({t \in DOMAIN node.gossipsub : p \in node.gossipsub[t]})
        /\ node.subscribedTopics[p] <= TopicsHigh

\* No path into the mesh (a GRAFT of the peer, rebalanceMesh from an RPC, a
\* subscription or the heartbeat) lets it grow without limit: past DHigh only
\* the outbound quota counts, whatever order peers come, prune and lose their
\* streams in.  A peer that is being disconnected does not count: it stays in the
\* mesh, no longer outbound, while the quota takes in another for it.  (For
\* parameters that leave opportunistic grafting off.)
MeshBounded ==
    node.par.opportunisticGraftThreshold <= 0 =>
        \A t \in Topics :
            Cardinality(At(node.mesh, t) \ stopped) <= node.par.dHigh + node.par.dOut

\* The tables agree with each other, whatever the peers send and in whatever order
\* their streams, events and subscriptions come, and the mesh stays bounded.
WellFormed ==
    TypeOK /\ NoGhostInTables /\ MeshOnlySubscribed /\ SubscriptionsCounted /\ MeshBounded

Sent(n, p, kind) == {n.out[p][i].topic : i \in {j \in DOMAIN n.out[p] : n.out[p][j].kind = kind}}

\* No step sends a GRAFT to a peer while a backoff for it runs, be it ours or the
\* one the peer asked for when it pruned us from a mesh it was in (rebalanceMesh,
\* every way into it).
GraftRespectsBackoff ==
    [][\A p \in Peers : \A t \in Sent(node', p, "graft") :
        p \in DOMAIN node.backingOff[t] => node.backingOff[t][p] = 0]_vars

\* A heartbeat leaves no peer with a negative score in a mesh: it prunes them
\* first, and neither the replenishing nor the opportunistic grafting that follow
\* take one in.  And pruning the excess never costs a mesh the outbound peers it
\* needs: DOut of them are left, or as many as there were.
HeartbeatMendsMesh ==
    [][\/ \A t \in node.topics :
            LET good(n) == Cardinality({p \in At(n.mesh, t) : Outbound(n, p) /\ n.score[p] >= 0})
            IN  /\ \A p \in At(node'.mesh, t) : node.score[p] >= 0
                /\ good(node') >= Min({node.par.dOut, good(node)})
       \/ ~Heartbeat]_vars
=============================================================================
