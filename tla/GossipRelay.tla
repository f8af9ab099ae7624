----------------------------- MODULE GossipRelay ----------------------------
(***************************************************************************)
(* What a gossipsub node does with the messages of one topic: receiving,   *)
(* validating and relaying them, publishing, gossiping about them (IHAVE,  *)
(* IWANT, IDONTWANT), its message cache and its cache of seen messages:    *)
(* libp2p/protocols/pubsub/gossipsub.nim, gossipsub/behavior.nim, mcache.nim*)
(* and the parts of floodsub.nim it uses.                                  *)
(*                                                                         *)
(* Validation is the one place where a message waits: validateAndRelay     *)
(* awaits the validators, then the topic's handlers, while copies of the   *)
(* message, the heartbeat and the mesh go on.  The mesh changes as         *)
(* GossipMesh says; here it is any set of peers.  Signatures, scores and   *)
(* sizes are left out: every message is large enough for IDONTWANT.        *)
(***************************************************************************)
EXTENDS Integers, Sequences, FiniteSets, FiniteSetsExt

CONSTANTS
    Msgs, Peers, Author,  \* Author[m]: the peer a message is from, or None
    Tasks,                \* runs of validateAndRelay, bound on their number
    HistoryLength, HistoryGossip, DLazy, IHaveBudget, IDontWantMaxCount,
    GossipFactor,         \* in percent
    IHaveMaxLength,
    MaxDelivered,         \* bound: deliveries of one message
    Envs,                 \* what goes on in a behaviour: operations, messages, peers,
                          \* direct peers of the topic, tasks
    None

ASSUME RelayAssumption ==
    /\ HistoryLength \in Nat \ {0} /\ HistoryGossip \in Nat
    /\ {DLazy, IHaveBudget, IDontWantMaxCount, GossipFactor, IHaveMaxLength} \subseteq Nat
    /\ Author \in [Msgs -> Peers \cup {None}]
    /\ \A e \in Envs : /\ e.msgs \subseteq Msgs /\ e.tasks \subseteq Tasks
                       /\ e.peers \cup e.direct \subseteq Peers

VARIABLES
    env,                  \* an element of Envs
    subscribed, mesh,
    seen,                 \* the timed cache of message ids
    forgotten,            \* messages it has dropped at some time
    validationSeen,       \* peers that sent a message being validated
    task,                 \* the runs of validateAndRelay
    cached, history, pos, \* MCache
    sentIHaves, iDontWants, iHaveBudget,  \* per peer
    accepted,             \* messages some validation accepted, or ours
    delivered,            \* how often the handlers got each message
    offers, answers,      \* IHAVEs sent and IWANTs answered, per peer and message
    out                   \* what the last step sent: <<kind, message, peer>>

vars == <<env, subscribed, mesh, seen, forgotten, validationSeen, task, cached, history,
          pos, sentIHaves, iDontWants, iHaveBudget, accepted, delivered, offers, answers, out>>
cacheVars == <<cached, history, pos>>
peerVars == <<sentIHaves, iDontWants, iHaveBudget>>
counts == <<delivered, offers, answers>>

Direct == env.direct
Others == env.peers \ Direct

Slots == 0 .. HistoryLength - 1
Idle == [phase |-> "none", msg |-> None, from |-> None, also |-> {}]

Init ==
    /\ env \in Envs
    /\ subscribed = TRUE /\ mesh \in SUBSET Others
    /\ seen = {} /\ forgotten = {} /\ validationSeen = [m \in {} |-> {}]
    /\ task = [k \in Tasks |-> Idle]
    /\ cached = {} /\ history = [i \in Slots |-> {}] /\ pos = 0
    /\ sentIHaves = [p \in Peers |-> <<{}>>]
    /\ iDontWants = [p \in Peers |-> <<{}>>]
    /\ iHaveBudget = [p \in Peers |-> IHaveBudget]
    /\ accepted = {} /\ delivered = [m \in Msgs |-> 0]
    /\ offers = [p \in Peers |-> [m \in Msgs |-> 0]] /\ answers = offers
    /\ out = {}

UnionOf(s) == UNION {s[i] : i \in DOMAIN s}
To(kind, m, ps) == {<<kind, m, p>> : p \in ps}

-----------------------------------------------------------------------------
(* MCache.                                                                 *)

Put(m) ==
    /\ cached' = cached \cup {m}
    /\ history' = IF m \in cached THEN history ELSE [history EXCEPT ![pos] = @ \cup {m}]
    /\ UNCHANGED pos

Window ==
    UNION {history[(pos + HistoryLength - i) % HistoryLength] :
             i \in 0 .. Min({HistoryGossip, HistoryLength}) - 1}

Shift ==
    LET next == (pos + 1) % HistoryLength
    IN  /\ pos' = next
        /\ cached' = cached \ history[next]
        /\ history' = [history EXCEPT ![next] = {}]

-----------------------------------------------------------------------------
(* Messages.                                                               *)

\* addToSendPeers, and the publisher is spared too.
SendPeers(m, from) == (mesh \cup Direct) \ {from, Author[m]}

\* Mutant: the message is not remembered.
AddSeenNot(m) == seen

AddSeen(m) == seen \cup {m}

\* rpcHandler, for one message.  `also` of a task is what the code relies on
\* validationSeen for: the peers that sent a copy since the task began.
Receive(p, m) ==
    /\ subscribed
    /\ IF m \in seen
       THEN /\ validationSeen' =
                 IF m \in DOMAIN validationSeen
                 THEN [validationSeen EXCEPT ![m] = @ \cup {p}] ELSE validationSeen
            /\ task' = [k \in Tasks |->
                 IF task[k].phase = "validating" /\ task[k].msg = m
                 THEN [task[k] EXCEPT !.also = @ \cup {p}] ELSE task[k]]
            /\ out' = {}
            /\ UNCHANGED seen
       ELSE \E k \in env.tasks :
            /\ task[k] = Idle
            /\ seen' = AddSeen(m)
            /\ validationSeen' =
                 [x \in DOMAIN validationSeen \cup {m} |->
                    IF x = m THEN {} ELSE validationSeen[x]]
            /\ task' = [j \in Tasks |->
                 IF j = k THEN [phase |-> "validating", msg |-> m, from |-> p, also |-> {}]
                 ELSE IF task[j].phase = "validating" /\ task[j].msg = m
                 THEN [task[j] EXCEPT !.also = @ \cup {p}] ELSE task[j]]
            /\ out' = To("idontwant", m, SendPeers(m, p))
    /\ UNCHANGED <<subscribed, mesh, cacheVars, peerVars, accepted, counts>>

\* The defer of validateAndRelay.
Forget(m) == validationSeen' = [x \in DOMAIN validationSeen \ {m} |-> validationSeen[x]]

\* Mutant: the entry stays when the message is not accepted.
RejectedKeeping(k) ==
    /\ task[k].phase = "validating"
    /\ task' = [task EXCEPT ![k] = Idle]
    /\ out' = {}
    /\ UNCHANGED <<validationSeen, subscribed, mesh, seen, cacheVars, peerVars, accepted, counts>>

\* The validators reject or ignore the message.
Rejected(k) ==
    /\ task[k].phase = "validating"
    /\ task' = [task EXCEPT ![k] = Idle]
    /\ Forget(task[k].msg)
    /\ out' = {}
    /\ UNCHANGED <<subscribed, mesh, seen, cacheVars, peerVars, accepted, counts>>

\* Mutant: the peers that sent the message meanwhile are not spared.
RelayToAll(m, from) ==
    SendPeers(m, from) \ {p \in Peers : m \in UnionOf(iDontWants[p])}

RelayTo(m, from) ==
    (SendPeers(m, from) \ (IF m \in DOMAIN validationSeen THEN validationSeen[m] ELSE {}))
        \ {p \in Peers : m \in UnionOf(iDontWants[p])}

\* They accept it: it is cached, relayed, and goes to the handlers.
Accepted(k) ==
    LET m == task[k].msg
    IN  /\ task[k].phase = "validating"
        /\ accepted' = accepted \cup {m}
        /\ IF ~subscribed
           THEN /\ task' = [task EXCEPT ![k] = Idle]
                /\ Forget(m)
                /\ out' = {}
                /\ UNCHANGED <<cacheVars, delivered>>
           ELSE /\ Put(m)
                /\ out' = To("relay", m, RelayTo(m, task[k].from))
                /\ delivered' = [delivered EXCEPT ![m] = @ + 1]
                /\ task' = [task EXCEPT ![k] = [@ EXCEPT !.phase = "handling", !.also = {}]]
                /\ UNCHANGED validationSeen
        /\ UNCHANGED <<subscribed, mesh, seen, peerVars, offers, answers>>

HandlersDone(k) ==
    /\ task[k].phase = "handling"
    /\ task' = [task EXCEPT ![k] = Idle]
    /\ Forget(task[k].msg)
    /\ out' = {}
    /\ UNCHANGED <<subscribed, mesh, seen, cacheVars, peerVars, accepted, counts>>

\* Our own message, unless it was seen or there is nobody to send it to.  It goes
\* to the mesh and the direct peers, and to what the fanout may add; the caller may
\* ask that it is not cached.  triggerSelf, which hands it to our own handlers, and
\* sendIDontWantOnPublish are off.
Publish(m) ==
    /\ "publish" \in env.ops
    /\ Author[m] = None /\ m \notin seen
    /\ seen' = AddSeen(m)
    /\ accepted' = accepted \cup {m}
    /\ \E fanout \in SUBSET (Others \ mesh), skipMCache \in BOOLEAN :
         LET peers == mesh \cup Direct \cup fanout
         IN  /\ peers # {}
             /\ IF skipMCache THEN UNCHANGED cacheVars ELSE Put(m)
             /\ out' = To("publish", m, peers)
    /\ UNCHANGED <<subscribed, mesh, validationSeen, task, peerVars, counts>>

-----------------------------------------------------------------------------
(* Gossip.                                                                 *)

\* handleIHave, for one message: ask for it if it is new to us.
HandleIHave(p, m) ==
    /\ "gossip" \in env.ops
    /\ subscribed /\ m \notin seen /\ iHaveBudget[p] > 0
    /\ iHaveBudget' = [iHaveBudget EXCEPT ![p] = @ - 1]
    /\ out' = To("iwant", m, {p})
    /\ UNCHANGED <<subscribed, mesh, seen, validationSeen, task, cacheVars, sentIHaves,
                   iDontWants, accepted, counts>>

\* canAskIWant takes the message off the latest heartbeat that has it.
TakeOffer(p, m) ==
    \E i \in DOMAIN sentIHaves[p] :
        /\ m \in sentIHaves[p][i]
        /\ \A j \in 1 .. i - 1 : m \notin sentIHaves[p][j]
        /\ sentIHaves' = [sentIHaves EXCEPT ![p][i] = @ \ {m}]

\* handleIWant, for one message.
HandleIWant(p, m) ==
    /\ "gossip" \in env.ops
    /\ TakeOffer(p, m)
    /\ IF m \in cached
       THEN /\ out' = To("answer", m, {p})
            /\ answers' = [answers EXCEPT ![p][m] = @ + 1]
       ELSE out' = {} /\ UNCHANGED answers
    /\ UNCHANGED <<subscribed, mesh, seen, validationSeen, task, cacheVars, iDontWants,
                   iHaveBudget, accepted, delivered, offers>>

HandleIDontWant(p, m) ==
    /\ "idontwant" \in env.ops
    /\ Cardinality(iDontWants[p][1]) < IDontWantMaxCount
    /\ iDontWants' = [iDontWants EXCEPT ![p][1] = @ \cup {m}]
    /\ out' = {}
    /\ UNCHANGED <<subscribed, mesh, seen, validationSeen, task, cacheVars, sentIHaves,
                   iHaveBudget, accepted, counts>>

\* A new set in front, the oldest dropped.
Rotate(s, first) == SubSeq(<<first>> \o s, 1, Min({Len(s) + 1, HistoryLength}))

\* As many of the peers `all` as gossip goes to.
Lazy(all) ==
    kSubset(Min({Cardinality(all), Max({DLazy, (GossipFactor * Cardinality(all)) \div 100})}),
            all)

\* The sets of peers makeGossipControlMessages may choose, among those outside the
\* mesh and the fanout.  A topic that is in neither table has no gossip.
GossipPeers ==
    IF Window = {} THEN {{}}
    ELSE UNION {Lazy(Others \ (mesh \cup fanout)) : fanout \in SUBSET (Others \ mesh)}
           \cup (IF mesh = {} THEN {{}} ELSE {})

\* The messages an IHAVE may name.
IHaves == {ids \in SUBSET Window : Cardinality(ids) = Min({Cardinality(Window), IHaveMaxLength})}

\* onHeartbeat: new budgets and sets, the gossip, then the cache shifts.
Heartbeat ==
    /\ "heartbeat" \in env.ops
    /\ \E G \in GossipPeers, ids \in IHaves :
         /\ sentIHaves' = [p \in Peers |->
              Rotate(sentIHaves[p], IF p \in G THEN ids ELSE {})]
         /\ offers' = [p \in Peers |-> [m \in Msgs |->
              IF p \in G /\ m \in ids THEN offers[p][m] + 1 ELSE offers[p][m]]]
         /\ out' = UNION {To("ihave", m, G) : m \in ids}
    /\ iDontWants' = [p \in Peers |-> Rotate(iDontWants[p], {})]
    /\ iHaveBudget' = [p \in Peers |-> IHaveBudget]
    /\ Shift
    /\ UNCHANGED <<subscribed, mesh, seen, validationSeen, task, accepted, delivered, answers>>

-----------------------------------------------------------------------------
(* What else goes on.                                                      *)

\* The seen cache drops a message, when its time is over or for its size.
ExpireSeen(m) ==
    /\ "expire" \in env.ops
    /\ m \in seen
    /\ seen' = seen \ {m}
    /\ out' = {}
    /\ UNCHANGED <<subscribed, mesh, validationSeen, task, cacheVars, peerVars, accepted, counts>>

Remesh(p) ==
    /\ "mesh" \in env.ops
    /\ subscribed
    /\ mesh' = IF p \in mesh THEN mesh \ {p} ELSE mesh \cup {p}
    /\ out' = {}
    /\ UNCHANGED <<subscribed, seen, validationSeen, task, cacheVars, peerVars, accepted, counts>>

ToggleTopic ==
    /\ "topic" \in env.ops
    /\ subscribed' = ~subscribed
    /\ mesh' = {}
    /\ out' = {}
    /\ UNCHANGED <<seen, validationSeen, task, cacheVars, peerVars, accepted, counts>>

Step ==
    \/ \E p \in env.peers, m \in env.msgs :
        Receive(p, m) \/ HandleIHave(p, m) \/ HandleIWant(p, m) \/ HandleIDontWant(p, m)
    \/ \E k \in Tasks : Rejected(k) \/ Accepted(k) \/ HandlersDone(k)
    \/ \E m \in env.msgs : Publish(m) \/ ExpireSeen(m)
    \/ \E p \in Others : Remesh(p)
    \/ Heartbeat \/ ToggleTopic

Next ==
    /\ Step
    /\ forgotten' = forgotten \cup (seen \ seen')
    /\ UNCHANGED env

Spec == Init /\ [][Next]_vars

\* Bound: a message is offered to a peer and delivered only so often.
Bounded == \A m \in Msgs : delivered[m] <= MaxDelivered /\ \A p \in Peers : offers[p][m] <= 2

-----------------------------------------------------------------------------
(* Properties.                                                             *)

\* Types of the GossipSub, MCache and PubSubPeer fields.
TypeOK ==
    /\ mesh \subseteq Peers /\ seen \subseteq Msgs /\ cached \subseteq Msgs
    /\ DOMAIN validationSeen \subseteq Msgs
    /\ \A p \in Peers :
        /\ Len(sentIHaves[p]) \in 1 .. HistoryLength
        /\ Len(iDontWants[p]) \in 1 .. HistoryLength
        /\ iHaveBudget[p] \in 0 .. IHaveBudget
        /\ Cardinality(iDontWants[p][1]) <= IDontWantMaxCount

\* "Be careful not to fill the validationSeen table (eg, pop everything you put
\* in it)": it has no entry without a validation or handlers under way, also
\* when the seen cache forgot the message and it is validated a second time.
ValidationSeenDoesNotLeak ==
    DOMAIN validationSeen \subseteq {task[k].msg : k \in {j \in Tasks : task[j] # Idle}}

\* The cache and its history agree: every cached message is in exactly one slot
\* of the circular history, so a shift drops it once and leaves no stale entry.
CacheMatchesHistory ==
    /\ cached = UNION {history[i] : i \in Slots}
    /\ \A i, j \in Slots : i # j => history[i] \cap history[j] = {}

\* Nothing leaves this node as a relay, an IHAVE or an answer that was not
\* accepted by the validators (or is our own).  And a message is not relayed to
\* the peer it came from, to its publisher, to a peer that sent it while it was
\* validated, or to one that does not want it.  (When the seen cache forgets a
\* message during its validation, a second copy resets the set of peers that
\* sent it.)
LeavesAsItShould ==
    [][/\ \A o \in out' : o[1] \in {"relay", "ihave", "answer"} => o[2] \in accepted'
       /\ \A k \in Tasks, o \in out' :
            o[1] = "relay" /\ task[k].phase = "validating" /\ task'[k].phase = "handling" =>
                /\ o[3] \notin {task[k].from, Author[o[2]]}
                /\ o[2] \in forgotten \/ o[3] \notin task[k].also
                /\ o[2] \notin UnionOf(iDontWants[o[3]])]_vars

\* Nothing is repeated: the handlers get a message once, however many copies
\* come, unless the seen cache has forgotten it; and a peer gets a message through
\* IWANT at most as often as it was offered.
DeliveredOnce ==
    /\ \A m \in Msgs \ forgotten : delivered[m] <= 1
    /\ \A p \in Peers, m \in Msgs : answers[p][m] <= offers[p][m]

\* The tables are in order: types and limits, the cache with its history, and no
\* entry of validationSeen left behind.
WellFormed == TypeOK /\ CacheMatchesHistory /\ ValidationSeenDoesNotLeak
=============================================================================
