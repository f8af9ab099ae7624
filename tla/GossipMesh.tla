----------------------------- MODULE GossipMesh -----------------------------
(***************************************************************************)
(* The mesh maintenance of gossipsub as functions of one node's tables:    *)
(* libp2p/protocols/pubsub/gossipsub/behavior.nim, the subscription and    *)
(* peer events of gossipsub.nim and pubsub.nim, and peertable.nim.         *)
(*                                                                         *)
(* A node is a record; an operation is an operator from a node to the set  *)
(* of nodes it may leave behind, one for every way its shuffles can fall.  *)
(* None of these operations awaits, so each is one step wherever it runs   *)
(* (GossipNode: one node among arbitrary peers; GossipLink: two nodes).    *)
(*                                                                         *)
(* Scores are numbers the scoring heartbeat sets, time is counted down in  *)
(* the timers, and `out` is what the operation hands to the send path.     *)
(***************************************************************************)
EXTENDS Integers, Sequences, FiniteSets, FiniteSetsExt, TLC

CONSTANTS
    Topics, Peers,
    Params,                         \* the mesh parameters a node may have
    PruneBackoff, UnsubscribeBackoff, FanoutTTL,
    MaxBackoff,                     \* the longest backoff a peer may ask for: a day
    PublishThreshold, GraylistThreshold, MaxOpportunisticGraftPeers,
    TopicsHigh,
    None                            \* an absent part of an RPC

\* What validateParameters demands, and the order of the degrees it leaves to
\* the caller (the defaults are 4 <= 6 <= 12).
ASSUME MeshAssumption ==
    /\ \A q \in Params :
        /\ {q.d, q.dLow, q.dHigh, q.dScore, q.dOut, q.slack} \subseteq Nat
        /\ q.opportunisticGraftThreshold \in Int
        /\ q.dOut < q.dLow /\ q.dOut <= q.d \div 2
        /\ q.dLow <= q.d /\ q.d <= q.dHigh
    /\ {PruneBackoff, UnsubscribeBackoff, MaxBackoff} \subseteq Nat \ {0}
    /\ GraylistThreshold < PublishThreshold /\ PublishThreshold < 0

-----------------------------------------------------------------------------
(* PeerTable: a partial function from topics to sets of peers.             *)

At(table, t) == IF t \in DOMAIN table THEN table[t] ELSE {}
Del(table, t) == [k \in DOMAIN table \ {t} |-> table[k]]
AddPeers(table, t, ps) == IF ps = {} THEN table ELSE (t :> At(table, t) \cup ps) @@ table

\* removePeer drops the topic with its last peer.
RemovePeers(table, t, ps) ==
    IF At(table, t) \ ps = {} THEN Del(table, t)
    ELSE [table EXCEPT ![t] = @ \ ps]

EmptyTable == [t \in {} |-> {}]

-----------------------------------------------------------------------------
(* The node.                                                               *)

\* A node that dialled the peers in `dialled`; `joined` are its first peers.
NewNode(par, dialled, joined) ==
    [par |-> par,                   \* of g.parameters, an element of Params
     topics |-> {},                 \* g.topics
     peers |-> joined,              \* g.peers
     mesh |-> EmptyTable, fanout |-> EmptyTable,
     gossipsub |-> EmptyTable, subscribedDirectPeers |-> EmptyTable,
     lastFanoutPubSub |-> [t \in {} |-> 0],
     backingOff |-> [t \in Topics |-> [p \in {} |-> 0]],
     score |-> [p \in Peers |-> 0],
     stream |-> [p \in Peers |-> "none"],   \* sendStream: none, open or dead
     dialled |-> dialled,                   \* peers whose transport is outbound
     direct |-> {},                         \* parameters.directPeers
     subscribedTopics |-> [p \in Peers |-> 0],
     penalised |-> {},              \* peers whose behaviourPenalty was raised
     out |-> [p \in Peers |-> <<>>]]

Connected(n, p) == n.stream[p] = "open"
Outbound(n, p) == n.stream[p] # "none" /\ p \in n.dialled

Say(n, ps, m) ==
    [n EXCEPT !.out = [p \in Peers |-> IF p \in ps THEN Append(@[p], m) ELSE @[p]]]
Msg(kind, t, b) == [kind |-> kind, topic |-> t, backoff |-> b]

\* backingOff[t][p] = now + b for the peers ps.
BackOff(n, t, ps, b) == [n EXCEPT !.backingOff[t] = [p \in ps |-> b] @@ @]

\* pruned, then mesh.removePeer, for each of ps.
Pruned(n, t, ps, b) == [BackOff(n, t, ps, b) EXCEPT !.mesh = RemovePeers(@, t, ps)]

Best(n, S, k) ==
    {T \in kSubset(Min({k, Cardinality(S)}), S) :
        \A x \in T, y \in S \ T : n.score[x] >= n.score[y]}
Worst(n, S, k) ==
    {T \in kSubset(Min({k, Cardinality(S)}), S) :
        \A x \in T, y \in S \ T : n.score[x] <= n.score[y]}

-----------------------------------------------------------------------------
(* rebalanceMesh.                                                          *)

\* The grafts it announces come first, then the prunes.
Announce(n, t, grafts, prunes) ==
    Say(Say(n, grafts, Msg("graft", t, 0)), prunes, Msg("prune", t, PruneBackoff))

\* The score of the peer in the middle of the mesh, sorted by descending score.
Median(n, S) ==
    CHOOSE s \in {n.score[p] : p \in S} :
        /\ Cardinality({p \in S : n.score[p] > s}) <= Cardinality(S) \div 2
        /\ Cardinality({p \in S : n.score[p] >= s}) > Cardinality(S) \div 2

Avail(n, t) ==
    {p \in At(n.gossipsub, t) \ At(n.mesh, t) :
        /\ n.score[p] >= Median(n, At(n.mesh, t))
        /\ p \notin n.direct
        /\ p \notin DOMAIN n.backingOff[t]}

OpportunisticGraft(n, t, grafts, prunes) ==
    LET mesh == At(n.mesh, t)
    IN  IF Cardinality(mesh) > 1 /\ Median(n, mesh) < n.par.opportunisticGraftThreshold
        THEN {Announce([n EXCEPT !.mesh = AddPeers(@, t, G)], t, grafts \cup G, prunes) :
                G \in kSubset(Min({MaxOpportunisticGraftPeers, Cardinality(Avail(n, t))}),
                              Avail(n, t))}
        ELSE {Announce(n, t, grafts, prunes)}

\* Mutant: the outbound quota is taken for a number of peers to prune.
PrunableUnquoted(n, worst) == {worst}

\* What is left of the worst peers once DOut of the outbound ones are spared.
Prunable(n, worst) ==
    LET outbound == {p \in worst : Outbound(n, p)}
    IN  {(worst \ outbound) \cup O :
            O \in Worst(n, outbound, Max({0, Cardinality(outbound) - n.par.dOut}))}

\* More than D prunable peers: all but D of them go.  Otherwise all go.
Chosen(n, prunable) ==
    IF Cardinality(prunable) > n.par.d
    THEN kSubset(Cardinality(prunable) - n.par.d, prunable)
    ELSE {prunable}

PruneExcess(n, t, grafts) ==
    LET old == At(n.mesh, t) \ grafts
        excess == Cardinality(old) - n.par.dScore
    IN  IF Cardinality(At(n.mesh, t)) <= n.par.dHigh
        THEN OpportunisticGraft(n, t, grafts, {})
        ELSE IF excess <= 0
        THEN OpportunisticGraft(n, t, grafts, old)  \* told PRUNE, and kept
        ELSE UNION {UNION {UNION {
                OpportunisticGraft(Pruned(n, t, prunes, PruneBackoff), t, grafts, prunes)
                : prunes \in Chosen(n, prunable)}
                : prunable \in Prunable(n, worst)}
                : worst \in Worst(n, old, excess)}

\* Mutant: a backed off peer is grafted again.
CandidatesUnchecked(n, t) ==
    {p \in At(n.gossipsub, t) \ At(n.mesh, t) :
        Connected(n, p) /\ n.score[p] >= 0 /\ p \notin n.direct}

Candidates(n, t) ==
    {p \in At(n.gossipsub, t) \ At(n.mesh, t) :
        /\ Connected(n, p)
        /\ n.score[p] >= 0
        /\ p \notin n.direct
        /\ p \notin DOMAIN n.backingOff[t]}

Replenish(n, t) ==
    LET mesh == At(n.mesh, t)
        nOut == Cardinality({p \in mesh : Outbound(n, p)})
        outbound == {p \in Candidates(n, t) : Outbound(n, p)}
    IN  IF Cardinality(mesh) < n.par.dLow
        THEN Best(n, Candidates(n, t), n.par.d - Cardinality(mesh))
        ELSE IF nOut < n.par.dOut THEN Best(n, outbound, n.par.dOut - nOut)
        ELSE {{}}

Graft(n, t, ps) ==
    [n EXCEPT !.mesh = AddPeers(@, t, ps),
              !.fanout = IF ps = {} THEN @ ELSE RemovePeers(@, t, ps)]

RebalanceMesh(n, t) ==
    UNION {PruneExcess(Graft(n, t, grafts), t, grafts) : grafts \in Replenish(n, t)}

-----------------------------------------------------------------------------
(* Control messages and subscriptions of a peer.                           *)

\* It answers with a PRUNE and raises the peer's behaviourPenalty.
RejectGraft(n, p, t) ==
    [Say(BackOff(n, t, {p}, PruneBackoff), {p}, Msg("prune", t, PruneBackoff))
        EXCEPT !.penalised = @ \cup {p}]

\* Mutant: no slack for a peer that grafts us when its backoff ends.
StillBackedOffStrict(n, p, t) ==
    p \in DOMAIN n.backingOff[t] /\ n.backingOff[t][p] > 0

\* The slack is granted twice to a peer that grafts us.
StillBackedOff(n, p, t) ==
    p \in DOMAIN n.backingOff[t] /\ n.backingOff[t][p] > 2 * n.par.slack

Wants(n, t) == t \in n.topics

\* A full mesh takes an outbound peer while it is short of those.
Room(n, p, t) ==
    LET mesh == At(n.mesh, t)
    IN  \/ Cardinality(mesh) < n.par.dHigh
        \/ Outbound(n, p) /\ Cardinality({q \in mesh : Outbound(n, q)}) < n.par.dOut

HandleGraft(n, p, t) ==
    IF p \in n.direct THEN RejectGraft(n, p, t)
    ELSE IF p \in At(n.mesh, t) THEN n
    ELSE IF StillBackedOff(n, p, t) THEN RejectGraft(n, p, t)
    ELSE IF n.score[p] < PublishThreshold \/ ~Wants(n, t) THEN n
    ELSE IF Room(n, p, t) THEN Graft(n, t, {p})
    ELSE Say(BackOff(n, t, {p}, PruneBackoff), {p}, Msg("prune", t, PruneBackoff))

\* The sum is far from the end of uint64 here.
HandlePrune(n, p, t, backoff) ==
    LET current == IF p \in DOMAIN n.backingOff[t] THEN n.backingOff[t][p] ELSE 0
        asked == Min({backoff + n.par.slack, MaxBackoff})
        told == IF backoff > 0 /\ asked > current THEN BackOff(n, t, {p}, asked) ELSE n
    IN  IF t \notin n.topics \/ p \notin At(n.mesh, t) THEN n
        ELSE [told EXCEPT !.mesh = RemovePeers(@, t, {p})]

\* The peer's count of topics, kept when it subscribes to a new one.
Counted(n, p, t) ==
    IF p \in At(n.gossipsub, t) THEN n ELSE [n EXCEPT !.subscribedTopics[p] = @ + 1]

PeerSubscribes(n, p, t) ==
    IF p \notin n.peers THEN n
    ELSE IF n.subscribedTopics[p] >= TopicsHigh /\ p \notin At(n.gossipsub, t)
    THEN [n EXCEPT !.penalised = @ \cup {p}]
    ELSE [Counted(n, p, t) EXCEPT
            !.gossipsub = AddPeers(@, t, {p}),
            !.subscribedDirectPeers = IF p \in n.direct THEN AddPeers(@, t, {p}) ELSE @]

PeerUnsubscribes(n, p, t) ==
    LET pruned == IF p \in At(n.mesh, t) THEN Pruned(n, t, {p}, PruneBackoff) ELSE n
    IN  [pruned EXCEPT
            !.subscribedTopics[p] = IF p \in At(n.gossipsub, t) THEN @ - 1 ELSE @,
            !.gossipsub = RemovePeers(@, t, {p}),
            !.fanout = RemovePeers(@, t, {p}),
            !.subscribedDirectPeers = IF p \in n.direct THEN RemovePeers(@, t, {p}) ELSE @]

\* An RPC has at most one subscription, one prune and one graft here.
RPCs(topics, backoffs) ==
    [sub : {None} \cup {<<t, s>> : t \in topics, s \in BOOLEAN},
     prune : {None} \cup {<<t, b>> : t \in topics, b \in backoffs},
     graft : {None} \cup {<<t>> : t \in topics}]

\* rpcHandler: subscriptions, prunes, grafts, then a mesh below DLow of the
\* topic subscribed to is rebalanced.
RpcHandler(n, p, rpc) ==
    LET subbed == IF rpc.sub = None THEN n
                  ELSE IF rpc.sub[2] THEN PeerSubscribes(n, p, rpc.sub[1])
                  ELSE PeerUnsubscribes(n, p, rpc.sub[1])
        pruned == IF rpc.prune = None THEN subbed
                  ELSE HandlePrune(subbed, p, rpc.prune[1], rpc.prune[2])
        grafted == IF rpc.graft = None THEN pruned
                   ELSE HandleGraft(pruned, p, rpc.graft[1])
    IN  IF n.score[p] < GraylistThreshold /\ p \notin n.direct THEN {n}
        ELSE IF /\ rpc.sub # None
                /\ rpc.sub[1] \in grafted.topics
                /\ Cardinality(At(grafted.mesh, rpc.sub[1])) < n.par.dLow
        THEN RebalanceMesh(grafted, rpc.sub[1])
        ELSE {grafted}

-----------------------------------------------------------------------------
(* Our own subscriptions.                                                  *)

HasSendStream(n) == {p \in n.peers : n.stream[p] # "none"}

Subscribe(n, t) ==
    RebalanceMesh([Say(n, HasSendStream(n), Msg("sub", t, 0)) EXCEPT
                      !.topics = @ \cup {t}, !.fanout = Del(@, t)], t)

Unsubscribe(n, t) ==
    LET mesh == At(n.mesh, t)
        left == [BackOff(n, t, mesh, UnsubscribeBackoff) EXCEPT
                    !.topics = @ \ {t}, !.mesh = Del(@, t)]
    IN  {Say(Say(left, mesh, Msg("prune", t, UnsubscribeBackoff)),
             HasSendStream(n), Msg("unsub", t, 0))}

-----------------------------------------------------------------------------
(* Peers come and go.                                                      *)

GetOrCreatePeer(n, p) ==
    IF p \in n.peers THEN n
    ELSE [n EXCEPT !.peers = @ \cup {p}, !.subscribedTopics[p] = 0]

\* Mutant: a new stream starts without the subscriptions.
StreamOpenedSilent(n, p) == [n EXCEPT !.stream[p] = "open"]

\* StreamOpened tells the peer every topic we are subscribed to.
StreamOpened(n, p) ==
    FoldSet(LAMBDA t, m : Say(m, {p}, Msg("sub", t, 0)),
            [n EXCEPT !.stream[p] = "open"], n.topics)

\* The pruned() of every topic with a mesh, whether the peer is in it or not.
PrunedEverywhere(n, p) ==
    FoldSet(LAMBDA t, m : BackOff(m, t, {p}, PruneBackoff), n, DOMAIN n.mesh)

\* The StreamClosed event: the topics stay in the tables even when they become
\* empty.  closeSendStream has dropped the stream before it raises the event.
StreamClosed(n, p) ==
    [PrunedEverywhere(n, p) EXCEPT
        !.mesh = [t \in DOMAIN @ |-> @[t] \ {p}],
        !.fanout = [t \in DOMAIN @ |-> @[t] \ {p}]]

Purged(table, p) ==
    FoldSet(LAMBDA t, tab : RemovePeers(tab, t, {p}), table, DOMAIN table)

\* Only the topics of the gossipsub table are purged of a direct peer.
PurgedDirect(n, p) ==
    FoldSet(LAMBDA t, tab : RemovePeers(tab, t, {p}),
            n.subscribedDirectPeers, DOMAIN n.gossipsub)

\* Mutant: the peer leaves `peers` and stays in the tables.
UnsubscribePeerHalf(n, p) == [n EXCEPT !.peers = @ \ {p}]

UnsubscribePeer(n, p) ==
    IF p \notin n.peers THEN n
    ELSE [PrunedEverywhere(n, p) EXCEPT
            !.mesh = Purged(@, p),
            !.gossipsub = Purged(@, p),
            !.fanout = Purged(@, p),
            !.subscribedDirectPeers = PurgedDirect(n, p),
            !.peers = @ \ {p},
            !.stream[p] = "none"]

\* closeSendStream drops the stream and raises the event.  DisconnectionRequested
\* leaves the tables alone: it asks the switch to disconnect the peer, and the
\* peer stays where it is until its loop ends or the Left event comes.
CloseSendStream(n, p, event) ==
    LET dropped == [n EXCEPT !.stream[p] = "none"]
    IN  IF event = "StreamClosed" THEN StreamClosed(dropped, p) ELSE dropped

AddDirectPeer(n, p) == [n EXCEPT !.direct = @ \cup {p}]

-----------------------------------------------------------------------------
(* Heartbeat and fanout.                                                   *)

HandleBackingOff(n, t) ==
    [n EXCEPT !.backingOff[t] =
        [p \in {q \in DOMAIN @ : @[q] > 0} |-> @[p]]]

PruneNegative(n, t) ==
    LET bad == {p \in At(n.mesh, t) : n.score[p] < 0}
    IN  IF bad = {} THEN n
        ELSE Say(Pruned(n, t, bad, PruneBackoff), bad, Msg("prune", t, PruneBackoff))

HeartbeatTopic(n, t) == RebalanceMesh(PruneNegative(HandleBackingOff(n, t), t), t)

DropFanoutPeers(n) ==
    LET expired == {t \in DOMAIN n.lastFanoutPubSub : n.lastFanoutPubSub[t] = 0}
    IN  [n EXCEPT !.fanout = [t \in DOMAIN @ \ expired |-> @[t]],
                  !.lastFanoutPubSub = [t \in DOMAIN @ \ expired |-> @[t]]]

ReplenishFanout(n, t) ==
    LET fanout == At(n.fanout, t)
        more == At(n.gossipsub, t) \ (At(n.mesh, t) \cup fanout)
    IN  IF Cardinality(fanout) >= n.par.dLow THEN {n}
        ELSE {[n EXCEPT !.fanout = AddPeers(@, t, ps)] :
                ps \in kSubset(Min({n.par.d - Cardinality(fanout), Cardinality(more)}), more)}

OnEach(Op(_, _), nodes, topics) ==
    FoldSet(LAMBDA t, ns : UNION {Op(m, t) : m \in ns}, nodes, topics)

OnHeartbeat(n) ==
    LET meshed == OnEach(HeartbeatTopic, {n}, n.topics)
    IN  UNION {OnEach(ReplenishFanout, {DropFanoutPeers(m)}, DOMAIN DropFanoutPeers(m).fanout)
               : m \in meshed}

\* makePeersForPublishDefault without flood publishing: its effect on the fanout.
PublishToFanout(n, t) ==
    LET peers == At(n.subscribedDirectPeers, t) \cup
                 (IF t \in n.topics THEN At(n.mesh, t) ELSE {})
    IN  IF Cardinality(peers) >= n.par.dLow THEN {n}
        ELSE {[m EXCEPT !.lastFanoutPubSub = (t :> FanoutTTL) @@ @]
                : m \in ReplenishFanout(n, t)}

\* One unit of time passes.
Elapse(n) ==
    [n EXCEPT
        !.backingOff = [t \in Topics |-> [p \in DOMAIN @[t] |-> Max({0, @[t][p] - 1})]],
        !.lastFanoutPubSub = [t \in DOMAIN @ |-> Max({0, @[t] - 1})]]
=============================================================================
