------------------------------- MODULE Dialer -------------------------------
(***************************************************************************)
(* Dials of libp2p/dialer.nim with the connection slots of connmanager.nim *)
(* and the accept loop of switch.nim: one dial per peer at a time, reuse of*)
(* connections, backoff after failures, and slots that are taken before a  *)
(* dial and given back when its connection ends.                           *)
(*                                                                         *)
(* A dial is one call of internalConnect.  It runs until it waits: for the *)
(* peer's lock, for the transport and the upgrade, for identify and the    *)
(* events (finishUpgrade), for a close.  What a dial tries (addresses,     *)
(* transports) is RankedDial's; how long a peer is blocked, DialBackoff's. *)
(* chronos's AsyncLock and AsyncSemaphore hand over to the first waiter    *)
(* that is not cancelled.                                                  *)
(***************************************************************************)
EXTENDS Integers, Sequences, FiniteSets

CONSTANTS
    Dials,                 \* calls of internalConnect
    Target, Forced, Reuse, \* of a dial: the peer (or None), forceDial, reuseConnection
    Incoming, FromPeer,    \* connections others make, and their peers
    Peers, Cap, Backoff,   \* Cap: size of the semaphore; Backoff: dialBackoff is set
    Stops,                 \* the ConnManager may be stopped
    None

ASSUME DialerAssumption ==
    /\ Cap \in Nat \ {0} /\ IsFiniteSet(Dials) /\ IsFiniteSet(Incoming)
    /\ Target \in [Dials -> Peers \cup {None}] /\ FromPeer \in [Incoming -> Peers]
    /\ Forced \subseteq Dials /\ Reuse \subseteq Dials
    /\ Dials \cap Incoming = {} /\ None \notin Dials \cup Peers

Conns == Dials \cup Incoming

VARIABLES
    phase,       \* of a dial: idle, locking, granted, dialing, finishing, closing, done
    why,         \* how it ends: ok, reused, failed, cancelled
    users,       \* DialLock.users; the entry is in dialLocks when it is not 0
    holder,      \* the dial that has the peer's lock
    lockQueue,   \* the dials that wait for it
    conn,        \* of a connection: none, open (upgraded), stored, closed
    monitor,     \* connections whose semaphoreMonitor runs
    held,        \* slots that were taken and not released
    avail, queue,\* the semaphore; only forced dials enter its queue
    blocked      \* peers on dial backoff

vars == <<phase, why, users, holder, lockQueue, conn, monitor, held, avail, queue, blocked>>
slotVars == <<held, avail, queue>>
lockVars == <<users, holder, lockQueue>>

Init ==
    /\ phase = [d \in Dials |-> "idle"] /\ why = [d \in Dials |-> "none"]
    /\ users = [p \in Peers |-> 0] /\ holder = [p \in Peers |-> None]
    /\ lockQueue = [p \in Peers |-> <<>>]
    /\ conn = [c \in Conns |-> "none"] /\ monitor = {}
    /\ held = {} /\ avail = Cap /\ queue = <<>>
    /\ blocked = {}

PeerOf(c) == IF c \in Dials THEN Target[c] ELSE FromPeer[c]
Connected(p) == \E c \in Conns : PeerOf(c) = p /\ conn[c] = "stored"

-----------------------------------------------------------------------------
(* Slots.                                                                  *)

\* getOutgoingSlot: a forced dial does not wait for its turn.
GetOutgoingSlot(d) ==
    /\ held' = held \cup {d}
    /\ IF avail > 0 THEN avail' = avail - 1 /\ UNCHANGED queue
                    ELSE UNCHANGED avail /\ queue' = Append(queue, d)

\* Mutant: a release does not serve the queue.
ReleaseToPool(c) ==
    /\ held' = held \ {c}
    /\ avail' = avail + 1
    /\ UNCHANGED queue

\* release serves the first waiter: a forced dial, which has its slot already.
Release(c) ==
    /\ held' = held \ {c}
    /\ IF queue = <<>> THEN avail' = avail + 1 /\ UNCHANGED queue
                       ELSE UNCHANGED avail /\ queue' = Tail(queue)

\* semaphoreMonitor: the connection was closed.
MonitorReleases(c) ==
    /\ c \in monitor
    /\ conn[c] = "closed"
    /\ monitor' = monitor \ {c}
    /\ Release(c)
    /\ UNCHANGED <<phase, why, lockVars, conn, blocked>>

\* ConnManager.stop cancels the monitors, before it closes the connections.
MonitorCancelled(c) ==
    /\ Stops
    /\ c \in monitor
    /\ monitor' = monitor \ {c}
    /\ Release(c)
    /\ UNCHANGED <<phase, why, lockVars, conn, blocked>>

-----------------------------------------------------------------------------
(* The peer's lock.                                                        *)

\* Mutant: the entry is dropped with the first user that leaves.
DropUserAlways(p) == users' = [users EXCEPT ![p] = 0]

DropUser(p) == users' = [users EXCEPT ![p] = @ - 1]

\* Mutant: the lock is free, but nobody is told.
EndDialSilently(d, how) ==
    /\ why' = [why EXCEPT ![d] = how]
    /\ phase' = [phase EXCEPT ![d] = "done"]
    /\ IF Target[d] = None THEN UNCHANGED lockVars
       ELSE /\ DropUser(Target[d])
            /\ holder' = [holder EXCEPT ![Target[d]] = None]
            /\ UNCHANGED lockQueue

\* releaseDialLock by dial d, which ends: the lock goes to the first waiter.
EndDial(d, how) ==
    LET p == Target[d]
        q == lockQueue[p]
    IN  /\ why' = [why EXCEPT ![d] = how]
        /\ IF p = None
           THEN phase' = [phase EXCEPT ![d] = "done"] /\ UNCHANGED lockVars
           ELSE /\ DropUser(p)
                /\ IF q = <<>>
                   THEN /\ holder' = [holder EXCEPT ![p] = None]
                        /\ phase' = [phase EXCEPT ![d] = "done"]
                        /\ UNCHANGED lockQueue
                   ELSE /\ holder' = [holder EXCEPT ![p] = Head(q)]
                        /\ lockQueue' = [lockQueue EXCEPT ![p] = Tail(q)]
                        /\ phase' = [phase EXCEPT ![d] = "done", ![Head(q)] = "granted"]

LockFree(p) == holder[p] = None

\* connect returns at once when the peer is connected; dial does not.
ConnectReturns(d) ==
    /\ phase[d] = "idle"
    /\ d \in Reuse /\ Target[d] # None /\ Connected(Target[d])
    /\ phase' = [phase EXCEPT ![d] = "done"]
    /\ why' = [why EXCEPT ![d] = "reused"]
    /\ UNCHANGED <<lockVars, conn, monitor, slotVars, blocked>>

\* internalConnect up to acquireDialLock.
Connect(d) ==
    LET p == Target[d]
    IN  /\ phase[d] = "idle"
        /\ IF p # None
           THEN /\ users' = [users EXCEPT ![p] = @ + 1]
                /\ IF LockFree(p)
                   THEN /\ holder' = [holder EXCEPT ![p] = d]
                        /\ phase' = [phase EXCEPT ![d] = "granted"]
                        /\ UNCHANGED lockQueue
                   ELSE /\ lockQueue' = [lockQueue EXCEPT ![p] = Append(@, d)]
                        /\ phase' = [phase EXCEPT ![d] = "locking"]
                        /\ UNCHANGED holder
           ELSE phase' = [phase EXCEPT ![d] = "granted"] /\ UNCHANGED lockVars
        /\ UNCHANGED <<why, conn, monitor, slotVars, blocked>>

Without(q, i) == SubSeq(q, 1, i - 1) \o SubSeq(q, i + 1, Len(q))

\* The call is cancelled while it waits for the lock.
CancelWaiting(d) ==
    /\ phase[d] = "locking"
    /\ DropUser(Target[d])
    /\ \E i \in DOMAIN lockQueue[Target[d]] :
        /\ lockQueue[Target[d]][i] = d
        /\ lockQueue' = [lockQueue EXCEPT ![Target[d]] = Without(@, i)]
    /\ phase' = [phase EXCEPT ![d] = "done"]
    /\ why' = [why EXCEPT ![d] = "cancelled"]
    /\ UNCHANGED <<holder, conn, monitor, slotVars, blocked>>

-----------------------------------------------------------------------------
(* establishConnection.                                                    *)

CanReuse(d) == d \in Reuse /\ Target[d] # None /\ Connected(Target[d])

\* It starts: reuse, backoff, slot, and the dial begins.
Establish(d) ==
    LET p == Target[d]
    IN  /\ phase[d] = "granted"
        /\ \/ /\ CanReuse(d)
              /\ EndDial(d, "reused")
              /\ UNCHANGED slotVars
           \/ /\ ~CanReuse(d)
              /\ d \notin Forced
              /\ p \in blocked \/ avail = 0
              /\ EndDial(d, "failed")
              /\ UNCHANGED slotVars
           \/ /\ ~CanReuse(d)
              /\ d \in Forced \/ (p \notin blocked /\ avail > 0)
              /\ GetOutgoingSlot(d)
              /\ phase' = [phase EXCEPT ![d] = "dialing"]
              /\ UNCHANGED <<why, lockVars>>
        /\ UNCHANGED <<conn, monitor, blocked>>

\* The peer is put on backoff, if the dial named one.
RecordFailure(d) == blocked' = IF Backoff THEN blocked \cup ({Target[d]} \ {None}) ELSE blocked

\* No address connects (none may have been tried), or the dial is cancelled.
DialFails(d) ==
    /\ phase[d] = "dialing"
    /\ Release(d)
    /\ \E reached \in BOOLEAN : IF reached THEN RecordFailure(d) ELSE UNCHANGED blocked
    /\ EndDial(d, "failed")
    /\ UNCHANGED <<conn, monitor>>

DialCancelled(d) ==
    /\ phase[d] = "dialing"
    /\ Release(d)
    /\ EndDial(d, "cancelled")
    /\ UNCHANGED <<conn, monitor, blocked>>

\* A connection was upgraded; the slot is tied to it, and storeMuxer begins.
DialConnects(d) ==
    /\ phase[d] = "dialing"
    /\ phase' = [phase EXCEPT ![d] = "finishing"]
    /\ conn' = [conn EXCEPT ![d] = "stored"]
    /\ monitor' = monitor \cup {d}
    /\ UNCHANGED <<why, lockVars, slotVars, blocked>>

\* storeMuxer refuses the connection: too many for the peer, or it is closed.
StoreRefuses(d) ==
    /\ phase[d] = "dialing"
    /\ phase' = [phase EXCEPT ![d] = "closing"]
    /\ conn' = [conn EXCEPT ![d] = "closed"]
    /\ monitor' = monitor \cup {d}
    /\ why' = [why EXCEPT ![d] = "failed"]
    /\ UNCHANGED <<lockVars, slotVars, blocked>>

\* identify fails or times out, or the call is cancelled: the muxer is closed.
FinishFails(d, how) ==
    /\ phase[d] = "finishing"
    /\ conn' = [conn EXCEPT ![d] = "closed"]
    /\ phase' = [phase EXCEPT ![d] = "closing"]
    /\ why' = [why EXCEPT ![d] = how]
    /\ UNCHANGED <<lockVars, monitor, slotVars, blocked>>

CloseDone(d) ==
    /\ phase[d] = "closing"
    /\ IF why[d] = "failed" THEN RecordFailure(d) ELSE UNCHANGED blocked
    /\ EndDial(d, why[d])
    /\ UNCHANGED <<conn, monitor, slotVars>>

FinishOk(d) ==
    /\ phase[d] = "finishing"
    /\ blocked' = blocked \ {Target[d]}
    /\ EndDial(d, "ok")
    /\ UNCHANGED <<conn, monitor, slotVars>>

-----------------------------------------------------------------------------
(* What others do.                                                         *)

\* The accept loop, with a free slot or without; an upgrade that fails closes
\* the connection.
Accept(c) ==
    /\ conn[c] = "none"
    /\ \/ /\ avail > 0
          /\ avail' = avail - 1
          /\ held' = held \cup {c}
          /\ monitor' = monitor \cup {c}
          /\ conn' = [conn EXCEPT ![c] = "stored"]
       \/ /\ avail = 0
          /\ conn' = [conn EXCEPT ![c] = "closed"]
          /\ UNCHANGED <<avail, held, monitor>>
    /\ UNCHANGED <<phase, why, lockVars, queue, blocked>>

ConnectionEnds(c) ==
    /\ conn[c] = "stored"
    /\ conn' = [conn EXCEPT ![c] = "closed"]
    /\ UNCHANGED <<phase, why, lockVars, monitor, slotVars, blocked>>

BackoffEnds(p) ==
    /\ p \in blocked
    /\ blocked' = blocked \ {p}
    /\ UNCHANGED <<phase, why, lockVars, conn, monitor, slotVars>>

Step(d) ==
    \/ Establish(d) \/ DialFails(d) \/ DialConnects(d) \/ StoreRefuses(d)
    \/ FinishOk(d) \/ FinishFails(d, "failed") \/ CloseDone(d)

Next ==
    \/ \E d \in Dials :
        Connect(d) \/ ConnectReturns(d) \/ CancelWaiting(d) \/ Step(d) \/ DialCancelled(d)
            \/ FinishFails(d, "cancelled")
    \/ \E c \in Incoming : Accept(c)
    \/ \E c \in Conns : ConnectionEnds(c) \/ MonitorReleases(c) \/ MonitorCancelled(c)
    \/ \E p \in Peers : BackoffEnds(p)

\* Dials end (the deadline bounds the transport, the upgrade and identify) and
\* the monitor of a closed connection runs.
Fairness ==
    /\ \A d \in Dials : WF_vars(Step(d))
    /\ \A c \in Conns : WF_vars(MonitorReleases(c))

Spec == Init /\ [][Next]_vars /\ Fairness

-----------------------------------------------------------------------------
(* Properties.                                                             *)

Busy(d) == phase[d] \in {"granted", "dialing", "finishing", "closing"}

\* Types of the Dialer's fields.
TypeOK ==
    /\ phase \in [Dials -> {"idle", "locking", "granted", "dialing", "finishing",
                            "closing", "done"}]
    /\ users \in [Peers -> 0 .. Cardinality(Dials)]
    /\ held \subseteq Conns /\ monitor \subseteq held /\ avail \in 0 .. Cap
    /\ \A p \in Peers : holder[p] = None => lockQueue[p] = <<>>

\* "Ensure there's only one in-flight attempt per peer".
OneAttemptPerPeer ==
    \A d, e \in Dials :
        Busy(d) /\ Busy(e) /\ Target[d] = Target[e] /\ Target[d] # None => d = e

\* dialLocks has an entry for a peer exactly while dials hold or wait for its
\* lock, whatever was cancelled: the table does not outgrow the dials.
LockTableIsExact ==
    \A p \in Peers :
        users[p] = Cardinality({d \in Dials : Target[d] = p /\ (Busy(d) \/ phase[d] = "locking")})

\* A slot is held exactly by a dial under way and by a connection whose monitor
\* will release it: none is released twice or lost on any path of a dial.
SlotsAreAccountedFor ==
    held = {d \in Dials : phase[d] = "dialing"} \cup monitor

\* Dials that reuse connections leave a peer with one connection of ours, even
\* when they start together.
OneConnectionEach ==
    \A d, e \in Dials :
        /\ {d, e} \subseteq Reuse /\ Target[d] = Target[e] /\ Target[d] # None
        /\ conn[d] = "stored" /\ conn[e] = "stored"
        => d = e

\* On every path of a dial, failures and cancellations included, the lock table,
\* its users and the slots are exactly those of the dials under way, and dials that
\* reuse connections share one.
WellFormed ==
    TypeOK /\ OneAttemptPerPeer /\ LockTableIsExact /\ SlotsAreAccountedFor /\ OneConnectionEach

\* The slots behave as SlotCount promises.
SC == INSTANCE SlotCount WITH Slots <- Conns, owed <- Len(queue), waiting <- {}
SlotsImplemented == SC!Spec

\* Every call of internalConnect ends, as the peer's lock is always handed on; and
\* every slot comes back once dials and connections are over.
EveryDialEnds ==
    /\ \A d \in Dials : phase[d] # "idle" ~> phase[d] = "done"
    /\ (\A c \in Conns : conn[c] \in {"none", "closed"}) /\ (\A d \in Dials : phase[d] \in {"idle", "done"})
          ~> (avail = Cap \/ ~\A c \in Conns : conn[c] \in {"none", "closed"})
=============================================================================
