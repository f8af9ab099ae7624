---------------------------- MODULE ConnManager ----------------------------
(***************************************************************************)
(* The connection manager of libp2p/connmanager.nim with the table of      *)
(* libp2p/muxer_store.nim: storing an upgraded muxer, the per-muxer close  *)
(* monitor, dropping a peer, readiness waits, expected connections,        *)
(* stop and start.                                                         *)
(*                                                                         *)
(* The code is cooperative: a task runs undisturbed from one `await` to    *)
(* the next.  An action is such a run.  Peers, muxers and tasks are        *)
(* values; names, metrics and log lines are left out.  Watermark trimming  *)
(* and peer scores are in ConnTrim, connection slots in SlotCount  *)
(* and Dialer.                                                             *)
(***************************************************************************)
EXTENDS Integers, FiniteSets

CONSTANTS
    Peers,            \* remote peer ids
    Muxers,           \* upgraded connections that callers hand to storeMuxer
    PeerOf,           \* [Muxers -> Peers], muxer.connection.peerId
    DirOf,            \* [Muxers -> {"In", "Out"}], muxer.connection.dir
    MaxConnsPerPeer,  \* maxConnsPerPeer
    Waiters,          \* tasks that call waitForPeerReady
    Events,           \* identities of readiness futures
    Expecters,        \* tasks that call expectConnection
    Droppers,         \* tasks that call dropPeer
    MaxStops,         \* bound: how often stop is called
    None              \* no value

Dirs == {"In", "Out"}
Keys == Peers \X Dirs

ASSUME ConnAssumption ==
    /\ PeerOf \in [Muxers -> Peers]
    /\ DirOf \in [Muxers -> Dirs]
    /\ MaxConnsPerPeer \in Nat \ {0}
    /\ MaxStops \in Nat
    /\ None \notin Peers \cup Events \cup Expecters \cup Keys

VARIABLES
    running,        \* c.running
    muxed,          \* the muxers in c.muxerStore
    conn,           \* [Muxers -> open | closing | closed], the connection's life
    storePc,        \* where storeMuxer(m) is
    isNewPeer,      \* storeMuxer's local isNewPeer
    overLimit,      \* history: the muxers an expectation let in over the limit
    monitor,        \* where onClose(m) is
    drops,          \* [Droppers -> the peer a dropPeer call is dropping, or None]
    lastEvent,      \* the last PeerEvent started for each peer
    readyPeers,     \* c.readyPeers
    readyEvents,    \* c.readyEvents: the future tabled for a peer, or None
    readyWaiters,   \* c.readyWaiters
    eventState,     \* [Events -> pending | completed | cancelled]
    waitPeer,       \* [Waiters -> the peer a waitForPeerReady waits for, or None]
    waitEvent,      \* [Waiters -> the future it holds]
    expected,       \* c.expectedConnectionsOverLimit
    expectKey,      \* [Expecters -> the key of an expectConnection, or None]
    future,         \* [Expecters -> idle | pending | cancelled | the muxer it got]
    stopPc,         \* where stop is
    stopPeer,       \* the peer whose muxers it is closing
    stopLeft,       \* the muxers it has still to close, then those it drains
    stops           \* how often stop was called

storeVars == <<muxed, conn, storePc, isNewPeer, overLimit, monitor, drops, lastEvent>>
readyVars == <<readyPeers, readyEvents, readyWaiters, eventState, waitPeer, waitEvent>>
expectVars == <<expected, expectKey, future>>
stopVars == <<stopPc, stopPeer, stopLeft, stops>>
vars == <<running, storeVars, readyVars, expectVars, stopVars>>

MuxersOf(p) == {m \in Muxers : PeerOf[m] = p}

\* MuxerStore.count(peerId) and MuxerStore.contains(peerId).
Count(p) == Cardinality(muxed \cap MuxersOf(p))
Connected(p) == \E m \in muxed : PeerOf[m] = p

Init ==
    /\ running = TRUE
    /\ muxed = {}
    /\ conn = [m \in Muxers |-> "open"]
    /\ storePc = [m \in Muxers |-> "upgraded"]
    /\ isNewPeer = [m \in Muxers |-> FALSE]
    /\ overLimit = {}
    /\ monitor = [m \in Muxers |-> "off"]
    /\ drops = [d \in Droppers |-> None]
    /\ lastEvent = [p \in Peers |-> "none"]
    /\ readyPeers = {}
    /\ readyEvents = [p \in Peers |-> None]
    /\ readyWaiters = [p \in Peers |-> 0]
    /\ eventState = [e \in Events |-> "pending"]
    /\ waitPeer = [w \in Waiters |-> None]
    /\ waitEvent = [w \in Waiters |-> None]
    /\ expected = [k \in Keys |-> None]
    /\ expectKey = [x \in Expecters |-> None]
    /\ future = [x \in Expecters |-> "idle"]
    /\ stopPc = "no"
    /\ stopPeer = None
    /\ stopLeft = {}
    /\ stops = 0

-----------------------------------------------------------------------------
(* Readiness: notifyPeerReady, clearPeerReadyState.                        *)

\* The future tabled for p, if any, finishes with state s and leaves the table.
SettleReadyEvent(p, s) ==
    /\ eventState' = IF readyEvents[p] = None THEN eventState
                     ELSE [eventState EXCEPT ![readyEvents[p]] = s]
    /\ readyEvents' = [readyEvents EXCEPT ![p] = None]

NotifyPeerReady(p) ==
    /\ readyPeers' = readyPeers \cup {p}
    /\ SettleReadyEvent(p, "completed")
    /\ UNCHANGED <<readyWaiters, waitPeer, waitEvent>>

ClearPeerReadyState(p) ==
    /\ readyPeers' = readyPeers \ {p}
    /\ SettleReadyEvent(p, "cancelled")
    /\ UNCHANGED <<readyWaiters, waitPeer, waitEvent>>

\* Mutant: it does not look whether the peer is connected again.
OnPeerDisconnectedBlindly(p, left) ==
    /\ ClearPeerReadyState(p)
    /\ lastEvent' = [lastEvent EXCEPT ![p] = "Left"]

\* onPeerDisconnected(p), run with the store being `left`: it returns at once
\* when the peer has reconnected, otherwise it forgets the peer and starts the
\* Left handlers.
OnPeerDisconnected(p, left) ==
    IF \E m \in left : PeerOf[m] = p
    THEN UNCHANGED <<readyVars, lastEvent>>
    ELSE /\ ClearPeerReadyState(p)
         /\ lastEvent' = [lastEvent EXCEPT ![p] = "Left"]

-----------------------------------------------------------------------------
(* storeMuxer.  It does not look at `running`: a dial that was in flight   *)
(* when stop began may store its muxer during stop, or after it.           *)

\* Whether an unfinished expectation waits for this muxer's peer and direction.
Awaited(m) ==
    /\ expected[<<PeerOf[m], DirOf[m]>>] # None
    /\ future[expected[<<PeerOf[m], DirOf[m]>>]] = "pending"

\* The peer has as many muxers as it may have.
AtLimit(p) == Count(p) >= MaxConnsPerPeer

\* storeMuxer raises: the connection is already closed, or the peer is at its
\* limit and nobody expects this connection.  The caller closes the connection.
RefuseMuxer(m) ==
    /\ storePc[m] = "upgraded"
    /\ \/ conn[m] # "open"
       \/ AtLimit(PeerOf[m]) /\ ~Awaited(m)
    /\ storePc' = [storePc EXCEPT ![m] = "refused"]
    /\ conn' = [conn EXCEPT ![m] = IF @ = "open" THEN "closing" ELSE @]
    /\ UNCHANGED <<running, muxed, isNewPeer, overLimit, monitor, drops, lastEvent,
                   readyVars, expectVars, stopVars>>

\* Mutant: looked up when the muxer is in the store already.
IsNewAfterwards(p) == FALSE

\* storeMuxer's isNewPeer: the peer has no muxer yet.
IsNew(p) == ~Connected(p)

\* storeMuxer up to its await: the muxer enters the store, its close monitor
\* and the Connected handlers start, the peer becomes ready.  Over the limit
\* the expectation is completed with the muxer.
StoreMuxer(m) ==
    LET p == PeerOf[m]
        over == AtLimit(p)
    IN
    /\ storePc[m] = "upgraded"
    /\ conn[m] = "open"
    /\ over => Awaited(m)
    /\ future' = IF over
                 THEN [future EXCEPT ![expected[<<p, DirOf[m]>>]] = m]
                 ELSE future
    /\ overLimit' = IF over THEN overLimit \cup {m} ELSE overLimit
    /\ muxed' = muxed \cup {m}
    /\ isNewPeer' = [isNewPeer EXCEPT ![m] = IsNew(p)]
    /\ monitor' = [monitor EXCEPT ![m] = "join"]
    /\ storePc' = [storePc EXCEPT ![m] = "connecting"]
    /\ NotifyPeerReady(p)
    /\ UNCHANGED <<running, conn, drops, lastEvent, expected, expectKey, stopVars>>

\* Mutant: a muxer dropped during the await still joins.
JoinsUnchecked(m) == isNewPeer[m]

\* storeMuxer's test after its await.
Joins(m) == m \in muxed /\ isNewPeer[m]

\* The Connected handlers have finished: a muxer dropped meanwhile joins
\* nothing, a new peer's Joined handlers start.
FinishStore(m) ==
    /\ storePc[m] = "connecting"
    /\ storePc' = [storePc EXCEPT ![m] = IF m \in muxed THEN "stored" ELSE "lost"]
    /\ lastEvent' = IF Joins(m)
                    THEN [lastEvent EXCEPT ![PeerOf[m]] = "Joined"]
                    ELSE lastEvent
    /\ UNCHANGED <<running, muxed, conn, isNewPeer, overLimit, monitor, drops,
                   readyVars, expectVars, stopVars>>

\* The upgrade deadline passes or the dial is cancelled while the Connected
\* handlers run: storeMuxer raises and its caller closes the connection.
CancelStore(m) ==
    /\ storePc[m] = "connecting"
    /\ storePc' = [storePc EXCEPT ![m] = "refused"]
    /\ conn' = [conn EXCEPT ![m] = IF @ = "open" THEN "closing" ELSE @]
    /\ UNCHANGED <<running, muxed, isNewPeer, overLimit, monitor, drops, lastEvent,
                   readyVars, expectVars, stopVars>>

-----------------------------------------------------------------------------
(* The connection closes, and onClose.                                     *)

\* The remote side or the transport ends the connection, which fires its
\* closeEvent; or a local close() completes.
ConnectionCloses(m) ==
    /\ conn[m] # "closed"
    /\ conn' = [conn EXCEPT ![m] = "closed"]
    /\ UNCHANGED <<running, muxed, storePc, isNewPeer, overLimit, monitor, drops,
                   lastEvent, readyVars, expectVars, stopVars>>

\* Whether removing m from the store removes the peer's last muxer.
IsLast(m) == m \in muxed /\ ~\E n \in muxed \ {m} : PeerOf[n] = PeerOf[m]

\* onClose after join(): the muxer leaves the store; if it was there and was
\* the peer's last one, the peer is disconnected and its Left handlers are
\* awaited; the Disconnected handlers come after that.
OnClose(m) ==
    /\ monitor[m] = "join"
    /\ conn[m] = "closed"
    /\ muxed' = muxed \ {m}
    /\ monitor' = [monitor EXCEPT ![m] = IF IsLast(m) THEN "leaving" ELSE "disconnected"]
    /\ IF IsLast(m) THEN OnPeerDisconnected(PeerOf[m], muxed \ {m})
       ELSE UNCHANGED <<readyVars, lastEvent>>
    /\ UNCHANGED <<running, conn, storePc, isNewPeer, overLimit, drops, expectVars, stopVars>>

\* The Left handlers have finished; onClose starts the Disconnected handlers.
FinishOnClose(m) ==
    /\ monitor[m] = "leaving"
    /\ monitor' = [monitor EXCEPT ![m] = "disconnected"]
    /\ UNCHANGED <<running, muxed, conn, storePc, isNewPeer, overLimit, drops, lastEvent,
                   readyVars, expectVars, stopVars>>

-----------------------------------------------------------------------------
(* dropPeer.                                                               *)

\* dropPeer up to its await: all muxers of the peer leave the store at once and
\* start closing.  With no muxer it returns.
DropPeer(d, p) ==
    LET mine == muxed \cap MuxersOf(p) IN
    /\ drops[d] = None
    /\ mine # {}
    /\ muxed' = muxed \ mine
    /\ conn' = [m \in Muxers |->
                  IF m \in mine /\ conn[m] = "open" THEN "closing" ELSE conn[m]]
    /\ drops' = [drops EXCEPT ![d] = p]
    /\ UNCHANGED <<running, storePc, isNewPeer, overLimit, monitor, lastEvent,
                   readyVars, expectVars, stopVars>>

\* The connections have closed, or dropPeer is cancelled while it waits: in
\* both cases the `finally` runs onPeerDisconnected.
FinishDrop(d) ==
    /\ drops[d] # None
    /\ OnPeerDisconnected(drops[d], muxed)
    /\ drops' = [drops EXCEPT ![d] = None]
    /\ UNCHANGED <<running, muxed, conn, storePc, isNewPeer, overLimit, monitor,
                   expectVars, stopVars>>

-----------------------------------------------------------------------------
(* waitForPeerReady.                                                       *)

\* getReadyEvent(p): the tabled future, or a new one.
ReadyEvent(p, e) ==
    IF readyEvents[p] # None THEN e = readyEvents[p]
    ELSE /\ \A q \in Peers : readyEvents[q] # e
         /\ \A w \in Waiters : waitEvent[w] # e

\* waitForPeerReady up to its await, for a peer that is not ready.  (While
\* stopped, or for a ready peer, it returns without changing anything.)
WaitForPeerReady(w, p) ==
    /\ running
    /\ waitPeer[w] = None
    /\ p \notin readyPeers
    /\ \E e \in Events :
         /\ ReadyEvent(p, e)
         /\ readyEvents' = [readyEvents EXCEPT ![p] = e]
         /\ eventState' = [eventState EXCEPT ![e] = "pending"]
         /\ waitEvent' = [waitEvent EXCEPT ![w] = e]
    /\ waitPeer' = [waitPeer EXCEPT ![w] = p]
    /\ readyWaiters' = [readyWaiters EXCEPT ![p] = @ + 1]
    /\ UNCHANGED <<running, storeVars, readyPeers, expectVars, stopVars>>

\* Mutant: any waiter clears the future.
ClearReadyEventAlways(p) == readyEvents' = [readyEvents EXCEPT ![p] = None]

\* clearReadyEvent(p), for a waiter that returns: the last one untables the future.
ClearReadyEvent(p) ==
    readyEvents' = IF readyWaiters[p] = 1 THEN [readyEvents EXCEPT ![p] = None]
                   ELSE readyEvents

\* The future finished, the timeout passed or the caller cancelled: the
\* `defer` removes this waiter, and with the last one a future still tabled.
ReturnFromWait(w) ==
    LET p == waitPeer[w] IN
    /\ waitPeer[w] # None
    /\ readyWaiters' = [readyWaiters EXCEPT ![p] = @ - 1]
    /\ ClearReadyEvent(p)
    /\ waitPeer' = [waitPeer EXCEPT ![w] = None]
    /\ waitEvent' = [waitEvent EXCEPT ![w] = None]
    /\ UNCHANGED <<running, storeVars, readyPeers, eventState, expectVars, stopVars>>

-----------------------------------------------------------------------------
(* expectConnection.                                                       *)

\* Mutant: a key already present is overwritten.
ExpectConnectionAgain(x, k) ==
    /\ expectKey[x] = None
    /\ expected' = [expected EXCEPT ![k] = x]
    /\ expectKey' = [expectKey EXCEPT ![x] = k]
    /\ future' = [future EXCEPT ![x] = "pending"]
    /\ UNCHANGED <<running, storeVars, readyVars, stopVars>>

\* expectConnection up to its await; a key already present raises.
ExpectConnection(x, k) ==
    /\ expectKey[x] = None
    /\ expected[k] = None
    /\ expected' = [expected EXCEPT ![k] = x]
    /\ expectKey' = [expectKey EXCEPT ![x] = k]
    /\ future' = [future EXCEPT ![x] = "pending"]
    /\ UNCHANGED <<running, storeVars, readyVars, stopVars>>

\* The future finished or the caller cancelled: the `finally` deletes the key.
ReturnFromExpect(x) ==
    /\ expectKey[x] # None
    /\ expected' = [expected EXCEPT ![expectKey[x]] = None]
    /\ expectKey' = [expectKey EXCEPT ![x] = None]
    /\ future' = [future EXCEPT ![x] = "idle"]
    /\ UNCHANGED <<running, storeVars, readyVars, stopVars>>

-----------------------------------------------------------------------------
(* stop and start.                                                         *)

\* stop up to its first await; the background tasks it cancels first are the
\* trims, decays and slot monitors of the other modules.
Stop ==
    /\ stopPc = "no"
    /\ stops < MaxStops
    /\ running' = FALSE
    /\ stopPc' = "tasks"
    /\ stops' = stops + 1
    /\ UNCHANGED <<storeVars, readyVars, expectVars, stopPeer, stopLeft>>

\* The expected connections are forgotten and their futures cancelled.
StopExpectations ==
    /\ stopPc = "tasks"
    /\ expected' = [k \in Keys |-> None]
    /\ future' = [x \in Expecters |->
                    IF future[x] = "pending" /\ expected[expectKey[x]] = x
                    THEN "cancelled" ELSE future[x]]
    /\ stopPc' = "clear"
    /\ UNCHANGED <<running, storeVars, readyVars, expectKey, stopPeer, stopLeft, stops>>

\* Mutant: a muxer is taken from the store and never closed.
StartClosingNothing(p, taken) == UNCHANGED conn

\* Closing the muxers of p that stop took from the store.
StartClosing(p, taken) ==
    conn' = [m \in Muxers |->
               IF m \in taken \cap MuxersOf(p) /\ conn[m] = "open" THEN "closing" ELSE conn[m]]

\* drainOnCloseTasks: stop ends when the close monitors that run now have ended.
Drain ==
    LET tasks == {m \in Muxers : monitor[m] \in {"join", "leaving"}} IN
    /\ stopPc' = IF tasks = {} THEN "stopped" ELSE "drain"
    /\ stopPeer' = None
    /\ stopLeft' = tasks

\* Every tabled readiness future is cancelled and leaves the table.
CancelReadyEvents ==
    /\ eventState' = [e \in Events |->
                        IF \E p \in Peers : readyEvents[p] = e
                        THEN "cancelled" ELSE eventState[e]]
    /\ readyEvents' = [p \in Peers |-> None]

\* Readiness futures are cancelled and the store is emptied; stop then closes
\* the muxers it found, peer by peer.
StopClear ==
    /\ stopPc = "clear"
    /\ CancelReadyEvents
    /\ muxed' = {}
    /\ \/ muxed = {} /\ Drain /\ UNCHANGED conn
       \/ \E p \in Peers :
            /\ Connected(p)
            /\ StartClosing(p, muxed)
            /\ stopPc' = "closing"
            /\ stopPeer' = p
            /\ stopLeft' = muxed
    /\ UNCHANGED <<running, storePc, isNewPeer, overLimit, monitor, drops, lastEvent,
                   readyPeers, readyWaiters, waitPeer, waitEvent, expectVars, stops>>

\* The muxers of one peer are closed: stop runs onPeerDisconnected and awaits
\* its Left handlers.
StopPeerClosed ==
    /\ stopPc = "closing"
    /\ stopPeer # None
    /\ \A m \in stopLeft \cap MuxersOf(stopPeer) : conn[m] = "closed"
    /\ OnPeerDisconnected(stopPeer, muxed)
    /\ stopPeer' = None
    /\ stopLeft' = stopLeft \ MuxersOf(stopPeer)
    /\ UNCHANGED <<running, muxed, conn, storePc, isNewPeer, overLimit, monitor, drops,
                   expectVars, stopPc, stops>>

\* stop goes on with the next peer, or drains the close monitors.
StopNextPeer ==
    /\ stopPc = "closing"
    /\ stopPeer = None
    /\ \/ stopLeft = {} /\ Drain /\ UNCHANGED conn
       \/ \E m \in stopLeft :
            /\ StartClosing(PeerOf[m], stopLeft)
            /\ stopPeer' = PeerOf[m]
            /\ UNCHANGED <<stopPc, stopLeft>>
    /\ UNCHANGED <<running, muxed, storePc, isNewPeer, overLimit, monitor, drops,
                   lastEvent, readyVars, expectVars, stops>>

Stopped ==
    /\ stopPc = "drain"
    /\ \A m \in stopLeft : monitor[m] = "disconnected"
    /\ stopPc' = "stopped"
    /\ stopLeft' = {}
    /\ UNCHANGED <<running, storeVars, readyVars, expectVars, stopPeer, stops>>

\* start after a completed stop.
Start ==
    /\ stopPc = "stopped"
    /\ running' = TRUE
    /\ stopPc' = "no"
    /\ UNCHANGED <<storeVars, readyVars, expectVars, stopPeer, stopLeft, stops>>

Next ==
    \/ \E m \in Muxers : \/ RefuseMuxer(m) \/ StoreMuxer(m)
                         \/ FinishStore(m) \/ CancelStore(m)
                         \/ ConnectionCloses(m)
                         \/ OnClose(m) \/ FinishOnClose(m)
    \/ \E d \in Droppers : FinishDrop(d) \/ \E p \in Peers : DropPeer(d, p)
    \/ \E w \in Waiters : ReturnFromWait(w) \/ \E p \in Peers : WaitForPeerReady(w, p)
    \/ \E x \in Expecters : ReturnFromExpect(x) \/ \E k \in Keys : ExpectConnection(x, k)
    \/ Stop \/ StopExpectations \/ StopClear
    \/ StopPeerClosed \/ StopNextPeer \/ Stopped \/ Start

Spec == Init /\ [][Next]_vars

-----------------------------------------------------------------------------
(* Fairness: chronos runs every task that can run, a local close()         *)
(* completes, and event handlers return or are cancelled by the upgrade    *)
(* deadline.                                                               *)
ConnFairness(m) ==
    /\ WF_vars(FinishStore(m) \/ CancelStore(m))
    /\ WF_vars(conn[m] = "closing" /\ ConnectionCloses(m))
    /\ WF_vars(OnClose(m))
    /\ WF_vars(FinishOnClose(m))

StopFairness ==
    /\ WF_vars(StopExpectations)
    /\ WF_vars(StopClear)
    /\ WF_vars(StopPeerClosed)
    /\ WF_vars(StopNextPeer)
    /\ WF_vars(Stopped)

Fairness ==
    /\ \A m \in Muxers : ConnFairness(m)
    /\ \A d \in Droppers : WF_vars(FinishDrop(d))
    /\ StopFairness

-----------------------------------------------------------------------------
(* Properties.                                                             *)

TypeOK ==
    /\ running \in BOOLEAN
    /\ muxed \subseteq Muxers
    /\ conn \in [Muxers -> {"open", "closing", "closed"}]
    /\ storePc \in [Muxers -> {"upgraded", "connecting", "stored", "lost", "refused"}]
    /\ isNewPeer \in [Muxers -> BOOLEAN]
    /\ overLimit \subseteq Muxers
    /\ monitor \in [Muxers -> {"off", "join", "leaving", "disconnected"}]
    /\ drops \in [Droppers -> Peers \cup {None}]
    /\ lastEvent \in [Peers -> {"none", "Joined", "Left"}]
    /\ readyPeers \subseteq Peers
    /\ readyEvents \in [Peers -> Events \cup {None}]
    /\ readyWaiters \in [Peers -> Int]
    /\ eventState \in [Events -> {"pending", "completed", "cancelled"}]
    /\ waitPeer \in [Waiters -> Peers \cup {None}]
    /\ waitEvent \in [Waiters -> Events \cup {None}]
    /\ expected \in [Keys -> Expecters \cup {None}]
    /\ expectKey \in [Expecters -> Keys \cup {None}]
    /\ future \in [Expecters -> {"idle", "pending", "cancelled"} \cup Muxers]
    /\ stopPc \in {"no", "tasks", "clear", "closing", "drain", "stopped"}
    /\ stopPeer \in Peers \cup {None}
    /\ stopLeft \subseteq Muxers
    /\ stops \in 0..MaxStops

\* A cleanup of p is under way: a dropPeer call, or stop, has taken its muxers
\* out of the store and has still to run onPeerDisconnected for it.
BeingDropped(p) ==
    \/ \E d \in Droppers : drops[d] = p
    \/ stopPc = "closing" /\ \E m \in stopLeft : PeerOf[m] = p

\* The ready set agrees with the store across every interleaving of stores,
\* closes, drops and stop: a peer with a stored muxer is ready (streams it opens
\* are served), and a ready peer without one is about to be cleaned up.
ReadyMatchesStore ==
    \A p \in Peers :
        /\ Connected(p) => p \in readyPeers
        /\ p \in readyPeers /\ ~Connected(p) => BeingDropped(p)

\* A peer has at most maxConnsPerPeer connections besides those that an
\* expectConnection call let in, however its connections come and go.
WithinPeerLimit ==
    \A p \in Peers :
        Cardinality((muxed \ overLimit) \cap MuxersOf(p)) <= MaxConnsPerPeer

\* The tables of the manager are well typed and agree: readyPeers is the peers of
\* the store and those about to be cleaned up, and the store keeps its limit, after
\* any interleaving of storeMuxer, onClose, dropPeer and stop.
WellFormed == TypeOK /\ ReadyMatchesStore /\ WithinPeerLimit

\* Subscribers of peer events never keep a ghost: if the last event started for
\* a peer is Joined, then the peer is connected or its Left is still to come.
NoGhostPeer ==
    \A p \in Peers :
        lastEvent[p] = "Joined" /\ ~Connected(p) => BeingDropped(p)

\* A waitForPeerReady call whose future is unfinished waits on the future that
\* the next storeMuxer of that peer will complete: clearReadyEvent and the
\* deletions in notifyPeerReady and stop never orphan a waiter.  Nor do the tables
\* leak: a tabled future has a waiter, and readyWaiters counts the waiting calls.
NoStrandedWaiter ==
    /\ \A w \in Waiters :
        waitPeer[w] # None /\ eventState[waitEvent[w]] = "pending"
            => readyEvents[waitPeer[w]] = waitEvent[w]
    /\ \A p \in Peers :
        /\ readyWaiters[p] = Cardinality({w \in Waiters : waitPeer[w] = p})
        /\ readyEvents[p] # None => readyWaiters[p] > 0

\* An unfinished expectConnection can be completed: storeMuxer finds it under
\* its key.  (The `finally` of a call that stop has cancelled deletes its key
\* also when a later call holds it, so that this is about a manager that has not
\* been stopped.)
ExpectationReachable ==
    stops = 0 => \A x \in Expecters :
        future[x] = "pending" => expected[expectKey[x]] = x

\* stop comes to its end: nothing it waits for waits for it.  The one exception:
\* a dial stored a muxer after stop had emptied the store, and drainOnCloseTasks
\* waits for as long as that connection, which stop does not close, stays open.
StopTerminates ==
    (stopPc = "tasks") ~>
        \/ stopPc = "stopped"
        \/ [](stopPc = "drain" /\ \E m \in stopLeft \cap muxed : conn[m] = "open")

\* Joined handlers run for every peer that stays: once a peer has an open
\* stored muxer and none of its storeMuxer calls is under way, its last event is
\* Joined, unless the muxer that found the peer new was lost while its Connected
\* handlers ran (storeMuxer then returns before Joined, and a muxer stored
\* meanwhile does not make up for it).
JoinedUnlessFirstLost ==
    \A p \in Peers :
        /\ \E m \in muxed \cap MuxersOf(p) : storePc[m] = "stored" /\ conn[m] = "open"
        /\ \A m \in MuxersOf(p) : storePc[m] # "connecting"
        => \/ lastEvent[p] = "Joined"
           \/ \E m \in MuxersOf(p) : isNewPeer[m] /\ storePc[m] \in {"lost", "refused"}

=============================================================================
