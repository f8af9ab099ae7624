----------------------------- MODULE GossipLink -----------------------------
(***************************************************************************)
(* Two gossipsub nodes that follow the protocol, joined by their two send  *)
(* streams.  Each runs the code of GossipMesh; the messages of one cross   *)
(* those of the other, a stream may be lost with what is in it, and is     *)
(* then opened again by the connect loop of pubsubpeer.nim.                *)
(*                                                                         *)
(* A message for a peer without a send stream waits for one (sendMsgSlow)  *)
(* and follows the subscriptions that StreamOpened sends.  Time passes     *)
(* only when nothing is in flight: a message takes less than a unit of the *)
(* backoffs, so less than Slack.                                           *)
(***************************************************************************)
EXTENDS GossipMesh

CONSTANT
    MaxInFlight   \* bound: a node starts nothing new with more in its stream

VARIABLES
    node,         \* the tables of each peer
    chan          \* chan[x]: what x sent and its peer has not handled

vars == <<node, chan>>

Other(x) == CHOOSE y \in Peers : y # x

Init ==
    /\ \E par \in Params : node = [x \in Peers |-> NewNode(par, {}, {Other(x)})]
    /\ chan = [x \in Peers |-> <<>>]

Open(x) == Connected(node[x], Other(x))
Calm(x) == Len(chan[x]) <= MaxInFlight

\* x goes on as n; what n says goes into the stream if there is one.
Becomes(x, n) ==
    LET y == Other(x)
    IN  IF Connected(n, y)
        THEN /\ node' = [node EXCEPT ![x] = [n EXCEPT !.out[y] = <<>>]]
             /\ chan' = [chan EXCEPT ![x] = @ \o n.out[y]]
        ELSE /\ node' = [node EXCEPT ![x] = n]
             /\ UNCHANGED chan

DoSubscribe(x, t) ==
    /\ Calm(x)
    /\ t \notin node[x].topics
    /\ \E n \in Subscribe(node[x], t) : Becomes(x, n)

DoUnsubscribe(x, t) ==
    /\ Calm(x)
    /\ t \in node[x].topics
    /\ \E n \in Unsubscribe(node[x], t) : Becomes(x, n)

Heartbeat(x) ==
    /\ Calm(x)
    /\ \E n \in OnHeartbeat(node[x]) : Becomes(x, n)

\* What waited for the stream follows the subscriptions.
OpenStream(x) ==
    LET y == Other(x)
    IN  /\ ~Open(x)
        /\ \E n \in {StreamOpened([node[x] EXCEPT !.out[y] = <<>>], y)} :
            Becomes(x, [n EXCEPT !.out[y] = @ \o node[x].out[y]])

\* The stream is gone, with all that was in it.
LoseStream(x) ==
    /\ Open(x)
    /\ node' = [node EXCEPT ![x] = CloseSendStream(node[x], Other(x), "StreamClosed")]
    /\ chan' = [chan EXCEPT ![x] = <<>>]

AsRpc(m) ==
    [sub |-> IF m.kind = "sub" THEN <<m.topic, TRUE>>
             ELSE IF m.kind = "unsub" THEN <<m.topic, FALSE>> ELSE None,
     prune |-> IF m.kind = "prune" THEN <<m.topic, m.backoff>> ELSE None,
     graft |-> IF m.kind = "graft" THEN <<m.topic>> ELSE None]

\* x handles the first message of its peer.
Handle(x) ==
    LET y == Other(x)
    IN  /\ chan[y] # <<>>
        /\ \E n \in RpcHandler(node[x], y, AsRpc(Head(chan[y]))) :
            LET rest == [chan EXCEPT ![y] = Tail(@)]
            IN  IF Open(x)
                THEN /\ node' = [node EXCEPT ![x] = [n EXCEPT !.out[y] = <<>>]]
                     /\ chan' = [rest EXCEPT ![x] = @ \o n.out[y]]
                ELSE node' = [node EXCEPT ![x] = n] /\ chan' = rest

Tick ==
    /\ \A x \in Peers : chan[x] = <<>>
    /\ \E x \in Peers, t \in Topics : \E p \in DOMAIN node[x].backingOff[t] :
        node[x].backingOff[t][p] > 0
    /\ node' = [x \in Peers |-> Elapse(node[x])]
    /\ UNCHANGED chan

\* updateScores: a penalty decays.  It does not reach the scores, which stay 0.
Decay(x) ==
    /\ node[x].penalised # {}
    /\ node' = [node EXCEPT ![x].penalised = {}]
    /\ UNCHANGED chan

Next ==
    \/ \E x \in Peers :
        \/ \E t \in Topics : DoSubscribe(x, t) \/ DoUnsubscribe(x, t)
        \/ Heartbeat(x) \/ OpenStream(x) \/ LoseStream(x) \/ Handle(x)
        \/ Decay(x)
    \/ Tick

\* The heartbeat timer, the connect and read loops, and time go on.
Fairness ==
    /\ \A x \in Peers :
        WF_vars(Heartbeat(x)) /\ WF_vars(OpenStream(x)) /\ WF_vars(Handle(x))
    /\ WF_vars(Tick)

Spec == Init /\ [][Next]_vars /\ Fairness

-----------------------------------------------------------------------------
(* Properties.                                                             *)

Meshed(t) == \A x \in Peers : Other(x) \in At(node[x].mesh, t)
WantsBoth(t) == \A x \in Peers : t \in node[x].topics /\ Open(x)

\* Once both nodes stay subscribed and keep their streams, they end up in each
\* other's mesh and stay there: the backoffs that StreamClosed, unsubscribe and
\* crossing PRUNEs set run out, and the GRAFT that follows is not refused forever.
EventuallyMeshed == \A t \in Topics : <>[]WantsBoth(t) => <>[]Meshed(t)

\* What a node knows of its peer's subscriptions is repaired by every stream: a
\* lasting subscription is known in the end, as StreamOpened repeats the list.
\* (An unsubscription is not: it is told once, to peers with a stream.)
SubscriptionReachesPeer ==
    \A x \in Peers, t \in Topics :
        <>[](t \in node[x].topics /\ Open(x))
            => <>[](x \in At(node[Other(x)].gossipsub, t))
=============================================================================
