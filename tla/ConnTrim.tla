------------------------------ MODULE ConnTrim ------------------------------
(***************************************************************************)
(* Watermark trimming of libp2p/connmanager.nim: when a trim is triggered, *)
(* which peers it drops, and the tags that protect and score peers.        *)
(*                                                                         *)
(* The store of muxers is what ConnManager models, here with the two steps *)
(* that matter: a muxer is stored (and then waits for the handlers of the  *)
(* Connected event), and storeMuxer goes on to note the time and to        *)
(* trigger the trim.  Time is a bounded clock.                             *)
(***************************************************************************)
EXTENDS Integers, FiniteSets

CONSTANTS
    Muxers, Peers, PeerOf, Outbound,   \* PeerOf[m], and the muxers we dialed
    Tags,                              \* protection tags
    LowWater, HighWater, GracePeriod, SilencePeriod, OutboundBonus,
    MaxTime, MaxValue,                 \* bounds: the clock, values of tags
    Envs,                              \* the operations and muxers of a behaviour
    None

\* withWatermarkPolicy asserts the order of the watermarks (strictly).
ASSUME TrimAssumption ==
    /\ {LowWater, HighWater, GracePeriod, SilencePeriod, OutboundBonus} \subseteq Nat
    /\ LowWater <= HighWater
    /\ MaxTime \in Nat /\ MaxValue \in Nat
    /\ IsFiniteSet(Muxers)
    /\ PeerOf \in [Muxers -> Peers] /\ Outbound \subseteq Muxers
    /\ \A e \in Envs : e.muxers \subseteq Muxers

VARIABLES
    now, running,
    stage,         \* none, storing (waiting for the handlers), stored, dropped
    isNew,         \* isNewPeer of the storeMuxer that is waiting
    connectedAt,
    since,         \* when the peer's present stay began, which connectedAt is to tell
    joined,        \* triggerTrimAfter tasks that wait for a Joined event
    trimming, lastTrim, dropping,  \* trimFut, lastTrim and the peers it is dropping
    leaving,       \* peers that other calls of dropPeer are closing
    stopping,      \* where stop is: no, loop, trim, events, closing, drain
    closing,       \* muxers that stop is closing, or whose onClose it waits for
    protected, staticTag, decayingTag, decayLoop,
    env            \* what callers do in this behaviour, an element of Envs

vars == <<now, running, stage, isNew, connectedAt, since, joined, trimming, lastTrim, dropping,
          leaving, stopping, closing, protected, staticTag, decayingTag, decayLoop, env>>
tagVars == <<protected, staticTag, decayingTag, decayLoop>>
trimVars == <<trimming, lastTrim, dropping>>
stopVars == <<stopping, closing>>
listVars == <<trimVars, leaving, stopVars>>

InStore == {m \in Muxers : stage[m] \in {"storing", "stored"}}
Stored(p) == {m \in InStore : PeerOf[m] = p}
Connected == {p \in Peers : Stored(p) # {}}

Init ==
    /\ now = 0 /\ running = TRUE
    /\ stage = [m \in Muxers |-> "none"] /\ isNew = [m \in Muxers |-> FALSE]
    /\ connectedAt = [p \in Peers |-> None] /\ since = connectedAt
    /\ joined = 0
    /\ trimming = FALSE /\ lastTrim = None /\ dropping = {} /\ leaving = {}
    /\ stopping = "no" /\ closing = {}
    /\ protected = [p \in Peers |-> {}]
    /\ staticTag = [p \in Peers |-> None] /\ decayingTag = staticTag
    /\ decayLoop = FALSE
    /\ env \in Envs

Clock ==
    /\ now < MaxTime
    /\ now' = now + 1
    /\ UNCHANGED <<running, since, stage, isNew, connectedAt, joined, listVars, tagVars>>

-----------------------------------------------------------------------------
(* Tags and scores.                                                        *)

Value(v) == IF v = None THEN 0 ELSE v

PeerScore(p) ==
    (IF Stored(p) \cap Outbound # {} THEN OutboundBonus ELSE 0)
        + Value(staticTag[p]) + Value(decayingTag[p])

Protect(p, tag) ==
    /\ "protect" \in env.ops
    /\ protected' = [protected EXCEPT ![p] = @ \cup {tag}]
    /\ UNCHANGED <<now, since, running, stage, isNew, connectedAt, joined, listVars, staticTag,
                   decayingTag, decayLoop>>

Unprotect(p, tag) ==
    /\ "protect" \in env.ops
    /\ protected' = [protected EXCEPT ![p] = @ \ {tag}]
    /\ UNCHANGED <<now, since, running, stage, isNew, connectedAt, joined, listVars, staticTag,
                   decayingTag, decayLoop>>

\* tagPeer and untagPeer (None).
TagPeer(p, v) ==
    /\ "tags" \in env.ops
    /\ staticTag' = [staticTag EXCEPT ![p] = v]
    /\ UNCHANGED <<now, since, running, stage, isNew, connectedAt, joined, listVars, protected,
                   decayingTag, decayLoop>>

Tagged == {p \in Peers : decayingTag[p] # None}

\* The loop is started unless the manager is stopped or it is running.
StartLoop == decayLoop' = (decayLoop \/ running)

TagPeerDecaying(p, v) ==
    /\ "decay" \in env.ops
    /\ decayingTag' = [decayingTag EXCEPT ![p] = v]
    /\ StartLoop
    /\ UNCHANGED <<now, since, running, stage, isNew, connectedAt, joined, listVars, protected,
                   staticTag>>

\* bumpDecayingTag clamps to 0 from below; removeDecayingTag removes the tag.
BumpOrRemoveTag(p, v) ==
    /\ "decay" \in env.ops
    /\ decayingTag[p] # None
    /\ decayingTag' = [decayingTag EXCEPT ![p] = v]
    /\ UNCHANGED <<now, since, running, stage, isNew, connectedAt, joined, listVars, protected,
                   staticTag, decayLoop>>

\* One round of runDecayLoop: the tags whose interval is over (any of them)
\* decay, those at 0 go, and the loop ends when none is left.
DecayRound ==
    /\ decayLoop
    /\ \E due \in SUBSET Tagged :
        decayingTag' = [p \in Peers |->
            IF p \notin due THEN decayingTag[p]
            ELSE IF decayingTag[p] <= 1 THEN None ELSE decayingTag[p] - 1]
    /\ decayLoop' = (\E p \in Peers : decayingTag'[p] # None)
    /\ UNCHANGED <<now, since, running, stage, isNew, connectedAt, joined, listVars, protected,
                   staticTag>>

-----------------------------------------------------------------------------
(* Connections.                                                            *)

StoreMuxer(m) ==
    /\ stage[m] = "none"
    /\ isNew' = [isNew EXCEPT ![m] = (PeerOf[m] \notin Connected)]
    /\ stage' = [stage EXCEPT ![m] = "storing"]
    /\ since' = IF PeerOf[m] \in Connected THEN since ELSE [since EXCEPT ![PeerOf[m]] = now]
    /\ UNCHANGED <<now, running, connectedAt, joined, listVars, tagVars>>

NoteAge(p) == connectedAt' = [connectedAt EXCEPT ![p] = now]

\* The handlers of Connected are done and the muxer is still in the store.
StoreGoesOn(m) ==
    /\ stage[m] = "storing"
    /\ stage' = [stage EXCEPT ![m] = "stored"]
    /\ IF isNew[m] THEN NoteAge(PeerOf[m]) ELSE UNCHANGED connectedAt
    /\ joined' = IF Cardinality(Connected) > HighWater THEN joined + 1 ELSE joined
    /\ UNCHANGED <<now, since, running, isNew, listVars, tagVars>>

\* Mutant: the time stays.
DisconnectedKeeping(gone, store) == UNCHANGED connectedAt

\* onPeerDisconnected, unless the peer is back.
Disconnected(gone, store) ==
    connectedAt' = [p \in Peers |->
        IF p \in gone /\ ~\E m \in store : PeerOf[m] = p THEN None ELSE connectedAt[p]]

\* A connection ends by itself: onClose.
MuxerCloses(m) ==
    /\ "close" \in env.ops
    /\ m \in InStore
    /\ stage' = [stage EXCEPT ![m] = "dropped"]
    /\ Disconnected({PeerOf[m]}, InStore \ {m})
    /\ UNCHANGED <<now, since, running, isNew, joined, listVars, tagVars>>

\* Someone else drops a peer: dropPeer up to the close of its connections, and
\* what it does after.
DropPeer(p) ==
    /\ "drop" \in env.ops
    /\ p \in Connected
    /\ stage' = [m \in Muxers |-> IF m \in Stored(p) THEN "dropped" ELSE stage[m]]
    /\ leaving' = leaving \cup {p}
    /\ UNCHANGED <<now, since, running, isNew, connectedAt, joined, trimVars, stopVars, tagVars>>

DropDone(p) ==
    /\ p \in leaving
    /\ leaving' = leaving \ {p}
    /\ Disconnected({p}, InStore)
    /\ UNCHANGED <<now, since, running, stage, isNew, joined, trimVars, stopVars, tagVars>>

-----------------------------------------------------------------------------
(* Trimming.                                                               *)

\* Mutant: a peer without a noted age is old.
InGraceIfKnown(p) == connectedAt[p] # None /\ now - connectedAt[p] < GracePeriod

InGrace(p) == now - (IF connectedAt[p] = None THEN now ELSE connectedAt[p]) < GracePeriod

Candidates == {p \in Connected : ~InGrace(p) /\ protected[p] = {}}

Age(p) == IF connectedAt[p] = None THEN now ELSE connectedAt[p]

\* Mutant: by age alone.
BeforeByAge(p, q) == Age(p) < Age(q)

Before(p, q) ==
    \/ PeerScore(p) < PeerScore(q)
    \/ PeerScore(p) = PeerScore(q) /\ Age(p) < Age(q)

\* The peers a trim drops: from the front of the sorted candidates (equal ones
\* in any order), as many as are above the low watermark.
Victims ==
    LET excess == Cardinality(Connected) - LowWater
        n == IF excess <= 0 THEN 0
             ELSE IF excess < Cardinality(Candidates) THEN excess ELSE Cardinality(Candidates)
    IN  {V \in SUBSET Candidates :
            Cardinality(V) = n /\ \A p \in V, q \in Candidates \ V : ~Before(q, p)}

Silent == lastTrim # None /\ now - lastTrim < SilencePeriod

\* triggerTrim, and trimConnections up to where it awaits the drops; dropPeer
\* takes the muxers out of the store at once.
TriggerTrim ==
    IF trimming \/ Cardinality(Connected) <= HighWater \/ Silent
    THEN UNCHANGED <<trimVars, stage>>
    ELSE \E V \in Victims :
            /\ trimming' = TRUE
            /\ dropping' = V
            /\ stage' = [m \in Muxers |->
                 IF m \in InStore /\ PeerOf[m] \in V THEN "dropped" ELSE stage[m]]
            /\ UNCHANGED lastTrim

\* triggerTrimAfter goes on when the Joined event was handled.
JoinedHandled ==
    /\ joined > 0
    /\ joined' = joined - 1
    /\ TriggerTrim
    /\ UNCHANGED <<now, since, running, isNew, connectedAt, leaving, stopVars, tagVars>>

\* The accept loop triggers a trim when it has no slot for a connection.
AcceptTriggers ==
    /\ "accept" \in env.ops
    /\ TriggerTrim
    /\ UNCHANGED <<now, since, running, isNew, connectedAt, leaving, stopVars, joined, tagVars>>

\* The connections are closed: the peers' state goes, and the trim is over.
TrimDone ==
    /\ trimming
    /\ trimming' = FALSE /\ lastTrim' = now /\ dropping' = {}
    /\ Disconnected(dropping, InStore)
    /\ UNCHANGED <<now, since, running, stage, isNew, leaving, stopVars, joined, tagVars>>

-----------------------------------------------------------------------------
(* stop and start.                                                         *)

\* stop up to the await of the decay loop it cancels.
Stop ==
    /\ "stop" \in env.ops
    /\ stopping = "no"
    /\ stopping' = "loop"
    /\ running' = FALSE
    /\ UNCHANGED <<now, since, stage, isNew, connectedAt, joined, trimVars, leaving, closing,
                   tagVars>>

\* The loop has ended; the trim is cancelled, but not the dropPeer calls it awaits.
StopTrim ==
    /\ stopping = "loop"
    /\ stopping' = "trim"
    /\ decayLoop' = FALSE
    /\ trimming' = FALSE /\ dropping' = {}
    /\ leaving' = leaving \cup dropping
    /\ lastTrim' = IF trimming THEN now ELSE lastTrim
    /\ UNCHANGED <<now, since, running, stage, isNew, connectedAt, joined, closing, protected,
                   staticTag, decayingTag>>

\* The tasks that wait for Joined handlers are cancelled, and trigger nothing.
StopEvents ==
    /\ stopping = "trim"
    /\ stopping' = "events"
    /\ joined' = 0
    /\ UNCHANGED <<now, since, running, stage, isNew, connectedAt, trimVars, leaving, closing,
                   tagVars>>

\* The store is emptied and what it held is closed.
StopClear ==
    /\ stopping = "events"
    /\ stopping' = "closing"
    /\ closing' = InStore
    /\ stage' = [m \in Muxers |-> IF m \in InStore THEN "dropped" ELSE stage[m]]
    /\ UNCHANGED <<now, since, running, isNew, connectedAt, joined, trimVars, leaving,
                   tagVars>>

\* The muxers of one peer are closed.
StopPeerClosed(p) ==
    /\ stopping = "closing"
    /\ \E m \in closing : PeerOf[m] = p
    /\ closing' = {m \in closing : PeerOf[m] # p}
    /\ Disconnected({p}, InStore)
    /\ UNCHANGED <<now, since, running, stage, isNew, joined, trimVars, leaving, stopping, tagVars>>

\* drainOnCloseTasks waits for the muxers stored since, until they close.
StopDrain ==
    /\ stopping = "closing" /\ closing = {}
    /\ stopping' = "drain"
    /\ closing' = InStore
    /\ UNCHANGED <<now, since, running, stage, isNew, connectedAt, joined, trimVars, leaving,
                   tagVars>>

Stopped ==
    /\ stopping = "drain" /\ closing \cap InStore = {}
    /\ stopping' = "no"
    /\ closing' = {}
    /\ UNCHANGED <<now, since, running, stage, isNew, connectedAt, joined, trimVars, leaving,
                   tagVars>>

\* start after a completed stop.
Start ==
    /\ "stop" \in env.ops
    /\ stopping = "no"
    /\ ~running
    /\ running' = TRUE
    /\ decayLoop' = (Tagged # {})
    /\ UNCHANGED <<now, since, stage, isNew, connectedAt, joined, listVars, protected, staticTag,
                   decayingTag>>

Values == 1 .. MaxValue
Players == {PeerOf[m] : m \in env.muxers}

Step ==
    \/ Clock \/ DecayRound \/ JoinedHandled \/ AcceptTriggers \/ TrimDone
    \/ Stop \/ StopTrim \/ StopEvents \/ StopClear \/ StopDrain \/ Stopped \/ Start
    \/ \E m \in env.muxers : StoreMuxer(m) \/ StoreGoesOn(m) \/ MuxerCloses(m)
    \/ \E p \in Players, tag \in Tags : Protect(p, tag) \/ Unprotect(p, tag)
    \/ \E p \in Players : DropPeer(p) \/ DropDone(p) \/ StopPeerClosed(p)
    \/ \E p \in Players, v \in Values : TagPeerDecaying(p, v)
    \/ \E p \in Players, v \in Values \cup {None} : TagPeer(p, v)
    \/ \E p \in Players, v \in Values \cup {0, None} : BumpOrRemoveTag(p, v)

Next == Step /\ UNCHANGED env

Spec == Init /\ [][Next]_vars

-----------------------------------------------------------------------------
(* Properties.                                                             *)

\* Types of the ConnManager fields used for trimming.
TypeOK ==
    /\ now \in 0 .. MaxTime
    /\ running \in BOOLEAN /\ trimming \in BOOLEAN /\ decayLoop \in BOOLEAN
    /\ stage \in [Muxers -> {"none", "storing", "stored", "dropped"}]
    /\ connectedAt \in [Peers -> (0 .. MaxTime) \cup {None}]
    /\ joined \in 0 .. Cardinality(Muxers)
    /\ protected \in [Peers -> SUBSET Tags]
    /\ decayingTag \in [Peers -> Values \cup {0, None}]
    /\ staticTag \in [Peers -> Values \cup {None}]
    /\ dropping # {} => trimming
    /\ stopping \in {"no", "loop", "trim", "events", "closing", "drain"}
    /\ closing \in SUBSET Muxers

\* Decaying tags decay: while the manager runs and there is such a tag the loop
\* runs, whatever tags came and went and however often it was stopped.
DecayLoopAlive == running /\ Tagged # {} => decayLoop

\* connectedAt still tells of a former stay: the peer came back while dropPeer
\* was closing its connections, and its Connected handlers are running.
StaleAge(p) == connectedAt[p] # None /\ connectedAt[p] < since[p]

\* A trim never drops a peer some protection tag still covers, nor one whose
\* present stay began less than the grace period ago, also when the peer was
\* connected before or its handlers are still running; a stale age is the one
\* exception.
TrimSpares ==
    [][trimming' /\ ~trimming =>
        \A p \in dropping' :
            protected[p] = {} /\ (now - since[p] >= GracePeriod \/ StaleAge(p))]_vars

\* A trim leaves at least LowWater peers, and it drops no peer while it keeps a
\* candidate with a lower score.
TrimKeepsTheBest ==
    [][trimming' /\ ~trimming =>
        /\ Cardinality(Connected') >= LowWater
        /\ \A p \in dropping', q \in Connected' :
            protected[q] = {} /\ ~InGrace(q) => PeerScore(p) <= PeerScore(q)]_vars

\* The peers whose connections stop is closing.
StopCloses == {p \in Peers : stopping = "closing" /\ \E m \in closing : PeerOf[m] = p}

\* The time kept for a peer is that of its present connections: a peer that is
\* not connected has none, except while its connections are being closed.
AgeIsOfThisStay ==
    \A p \in Peers :
        connectedAt[p] # None => p \in Connected \cup dropping \cup leaving \cup StopCloses

\* connectedAt forgets the peers that left: neither onClose, dropPeer, a trim nor
\* stop, also when one overtakes another, leaves an age behind; and no order of
\* tags, stops and starts leaves a decaying tag without its loop.
WellFormed == TypeOK /\ AgeIsOfThisStay /\ DecayLoopAlive
=============================================================================
