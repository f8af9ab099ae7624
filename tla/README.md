# A TLA+ verification of nim-libp2p

This directory holds TLA+ models of nim-libp2p (`libp2p/`, and the C examples in
`cbind/examples/` with the binding they call), the TLC
configurations that check them on small instances, and theorems about them that
TLAPS proves for every value of the constants. `PROJECT.json` is the index: the
components, the runs, the lines of source behind every definition, the hazards,
the findings and the theorems.

nim-libp2p runs on chronos, a cooperative scheduler: a procedure runs without
interruption from one `await` to the next. Every module uses that granularity.
An action is what the code does between two suspension points, with every call
it makes in between; interleavings happen at the awaits and nowhere else. An
`AsyncLock` or a semaphore that is released is handed to the first waiter whose
future is not finished, a cancellation is delivered at the next `await`, and the
handlers of an event that are started and not awaited run later, in any order.
The C examples are the exception: there a thread of the program meets the dispatch
thread of the library, and an action is one access to what they share.

## 1. The system and its parts

| part | state | operations | what is hard |
|---|---|---|---|
| connection manager (`connmanager.nim`, `muxer_store.nim`) | muxer store, ready set and its waiters, expected connections, tags, ages, slots | storeMuxer, onClose, dropPeer, waitForPeerReady, expectConnection, trim, stop | every one of them awaits event handlers in the middle, and reads the store again afterwards |
| dialer (`dialer.nim`, `dial_backoff.nim`, `rankeddial.nim`) | dial locks per peer, slots, backoff table, the race of addresses | connect, dial, internalConnect, establishConnection, RankedDial.run | cancellation while waiting, connecting, upgrading or storing; late winners of a race |
| switch and upgrade (`switch.nim`, `upgrademngrs/`) | accept loops, upgrade semaphore | accept, upgradeMonitor, start, stop | a deadline racing an upgrade; stop with upgrades in flight |
| yamux (`muxers/yamux/yamux.nim`) | windows, send queue, receive queue and flags of a stream | write, readOnce, close, reset, handle | credit that is spent before and after an await, half-close, resets that cross data |
| mplex (`muxers/mplex/`) and streams (`stream/`) | channel flags, the one-slot read queue of a BufferStream | write, pushData, readOnce, close, reset | a reader and a pusher that wait for each other |
| pubsub (`protocols/pubsub/`) | peers, subscriptions, send stream and priority queues of a peer | subscribe, unsubscribe, send, connectOnce, stop | sends that wait for a stream which is lost, opened again or stopped |
| gossipsub mesh | mesh, fanout, backoffs, topic tables, scores | GRAFT, PRUNE, heartbeat, onTopicSubscription | crossing control messages, stale events of a peer that came back |
| gossipsub relay | seen cache, messages under validation, message cache, IHAVE books | rpcHandler, validateAndRelay, publish, IHAVE, IWANT | copies that arrive during an asynchronous validation, caches that forget |
| kademlia, service discovery, rendezvous | routing table, records, registrations, tickets | find, put, get, register, expire | bounds, expiry, concurrent queries |
| connectivity (`relay`, `autonat`, `autonatv2`, `dcutr`, services) | reservations, circuits, reachability | reserve, connect, dialMe, sync | limits and timeouts on relayed streams |
| identify, peer store, address manager | books per peer, observed addresses | identify, push, cleanup | capacity and stale data |
| C examples (`cbind/examples/`) and binding (`cbind/libp2p.nim`) | a waiter on the stack per call, the hand-off of an event, contexts, exit status | create, start, connect, dial, read, publish, look up, stop, destroy | callbacks of another thread, deadlines, cleanup after a failure anywhere |
| transports, noise, TLS, crypto, encodings, DNS, ACME | sockets, keys, bytes | | I/O and data |

The first seven rows interact: the dialer and the accept loop take slots and
hand connections to `storeMuxer`; the connection manager tells pubsub of peers
that join and leave; pubsub opens a stream through the dialer and a muxer; the
mesh decides where the relay sends.

## 2. Modules

| module | models | extends or uses |
|---|---|---|
| `ConnManager` | muxer store, readiness, events, expected connections, stop | |
| `ConnManagerProofs` | theorems about it | `ConnManager` |
| `ConnTrim` | watermark trimming, protection, tags, scores, decay | |
| `ConnTrimProofs` | theorems about it | `ConnTrim` |
| `SlotCount` | abstract: what a connection slot semaphore promises | |
| `SlotCountProofs` | theorems about it | `SlotCount` |
| `Dialer` | dial locks, slots, upgrade and store, incoming connections | implements `SlotCount` |
| `DialerProofs` | theorems about it, the refinement included | `Dialer`, `SlotCountProofs` |
| `DialBackoff` | the delay after failures, the table with its bound and its eviction, the dials around it | |
| `DialBackoffProofs` | theorems about it | `DialBackoff` |
| `RankedDial` | the race of the addresses of one dial | |
| `YamuxWindow` | abstract: flow control of one direction of a stream | |
| `YamuxChannel` | a stream with both its ends and the session below | implements `YamuxWindow`, both ways |
| `GossipMesh` | the tables of a gossipsub node and every operation on them, as operators on a record | |
| `GossipNode` | one node whose peers may do anything | `GossipMesh` |
| `GossipLink` | two nodes that run the code, with the messages between them | `GossipMesh` |
| `GossipRelay` | reception, validation, relay, gossip | |
| `GossipRelayProofs` | theorems about it | `GossipRelay` |
| `PubSubPeer` | the send side of a peer | |
| `PubSubPeerProofs` | theorems about it | `PubSubPeer` |
| `CallWait` | one blocking call of a C program: waiter, flag or condition variable, deadline, callback | |
| `CExamples` | the eight C programs over `CallWait`, and the handlers of the binding they call | `CallWait` |
| `PrimitiveProofs` | theorems about the two small specifications others stand on | `YamuxWindow`, `CallWait` |

A module `MC...` gives the constants of its module values for TLC. The `.cfg`
files are named for the module and the question.

### ConnManager

`muxed` is the muxer store, `conn` the life of a connection, `storePc`, `monitor`,
`drops`, `stopPc` are where `storeMuxer`, `onClose`, `dropPeer` and `stop` are
suspended; `readyPeers`, `readyEvents`, `readyWaiters` and `expected` are the
fields of the same names (`expected` is `expectedConnectionsOverLimit`).
`StoreMuxer` is `storeMuxer` up to `await connectedEvent`, `FinishStore` the rest;
`CancelStore` is its cancellation in that await, which closes the muxer and takes
it out of the store. `lastEvent` is a history variable: the last peer event that
was started.

The run `connections` has five casts: two connections of one peer with two waiters and
two calls of `dropPeer`; three connections with an expecter, at a limit of two; two
connections with two expecters; and two peers with stop, once with a waiter and once
with an expecter. It shows that a peer is ready only while it is stored or about to be
cleaned up, that no peer stays joined without a connection and without a Left to come,
that no task waits for a readiness event that nobody can fire, that the limit of
connections per peer is exceeded by expected connections only, and that stop
terminates unless a connection stored by a late dial stays open (section 4).

### ConnTrim

The clock, the ages, the tags and the trim task of the same connection manager.
`stage` is where the muxers of the store are, `since` is a history variable: when the
peer's present stay began, which `connectedAt` is meant to tell. `TrimSpares` and
`TrimKeepsTheBest` are action properties about the peers a trim picks: not a
protected one, not one in its grace period, none with a better score than one it
leaves, and not below the low watermark. `TrimSpares` excepts a peer with a stale age
(section 4). `DecayLoopAlive`, a part of `WellFormed`: while the manager runs and there is something to
decay, the loop runs. `stop` is taken await by await (`stopping` is where it is): it ends
the decay loop, cancels the trim but not the drops the trim awaits, cancels the tasks that
wait for Joined handlers, empties the store, closes what was in it peer by peer and drains
the close monitors. Connections may be stored at any time, during and after a stop too. The
behaviours of the run `trim` are protection with waves of accepted connections, scores,
drops by other callers, decay with stops, and trims that a stop meets.

### SlotCount, Dialer, RankedDial

`SlotCount` has the free count, the forced slots owed, the holders and the waiters of
a semaphore. `Dialer` has the whole of `internalConnect`, with the dial lock of the
peer, its users and its queue, the slot, the connection and the monitor that
releases the slot when the connection ends; `SlotsImplemented` states that its slots
follow `SlotCount`. `RankedDial` has the queue of candidates, the budget, the attempts
and the loop of `firstConnected`.

Fairness: every step of a dial that does not wait for the network is taken, every
attempt of an address ends (the code gives each a deadline), and the monitors run.
No fairness is assumed of peers, of incoming connections or of a connection's end,
except where `EveryDialEnds` speaks of slots that come back: that part is about
connections that do end.

### YamuxWindow, YamuxChannel

`YamuxWindow` is flow control: credit, bytes in flight, grants in flight, the
receiver's window and whether it still compares frames with it ("policing") or has lost
count or ended ("done"). `YamuxChannel` has the record of each end of a stream
(`sendWindow`, `recvWindow`, `maxRecvWindow`, `sendQueue`, `recvQueue`, the flags), and the
frames between them. A data frame is handled in two steps: the header is compared with the
window, then the payload is awaited (`reading`) and taken; reads, closes and resets come in
between. A `readOnce` that waits for data and is resumed by a reset goes on without looking
at `isReset` again, and the session closes in the steps of the code (`ending`).
`WindowsImplemented` maps the channel to `YamuxWindow` in each direction. Bytes are
positions of writes, so that `MessagesArrive` can tell torn or reordered data, and an end
of stream that is read before all the data.
A write that is cancelled after a part of it was sent, or cut when `readOnce` meets
the end of the stream, tears its message; `MayBeCut` is exactly that exception.
The six settings of the run `yamux` are one direction with a window above the default,
cancellation, a refused stream and a writer that resets; one direction to a reader that
half-closes and resets; both directions with a window below the default, closes and resets;
the end of the session, broken by either end, around a write of each; and a stream that is
used and closed.

Fairness: sends of the session end, frames are handled, the application reads.

### GossipMesh, GossipNode, GossipLink

The state of a node is one record (subscribed topics, `gossipsub`, `mesh`, `fanout`,
`lastFanoutPubSub`, `backingOff`, `subscribedDirectPeers`, `peersInIP` reduced to
presence, scores as numbers), and each handler is an operator that returns the
possible next records with what is sent. Random choices of the code (shuffles) are
nondeterministic. `GossipNode` lets one node meet peers that send any control
message, lose and regain their streams, or are disconnected for a full queue (`stopped`:
the stream is closed, the tables are not touched until the peer's loop ends). `GossipLink`
has two nodes that run the code with their messages in
between, so that crossing GRAFTs, PRUNEs and subscriptions are real. Time is a
countdown in each backoff; a backoff asked for by a PRUNE is clamped (`MaxBackoff`).

The run `gossip_node` has seven surroundings: one peer and two topics; two peers that come,
go, lose streams and are disconnected; two peers that become direct peers, come and go; four
peers with an outbound quota whose streams close, or two of which are disconnected; three
peers whose scores change, without an outbound quota, and with one, where the excess is
pruned by score. In `gossip_link` the nodes unsubscribe and subscribe again, or lose their
streams; the two together do not finish within minutes and are not run.

Fairness in `GossipLink`: heartbeats, stream openings, message handling and time.
Subscriptions and losses of streams are not fair: `EventuallyMeshed` is about what
follows once they stop.

### GossipRelay

`seen`, `validationSeen`, the message cache (`cached`, `history`, `pos`), `sentIHaves`,
`iDontWants` and `iHaveBudget` are the tables of the code; `task` holds the runs of
`validateAndRelay` that wait for a validator or for handlers; `out` is what the last
step sent. A validator's verdict is nondeterministic. `Publish` has the fanout of a topic we
are not subscribed to, the early return when nobody is there, and messages kept out of the
cache. A heartbeat gossips to `GossipFactor` percent of the peers outside the mesh, at
least `DLazy`, and names at most `IHaveMaxLength` ids, any of those it has.
`accepted`, `delivered`, `offers` and `answers` are history variables, and so is
`forgotten`, the messages the seen cache has dropped at some time. The four behaviours of
the run `relay` are copies of two messages, a message that is forgotten, gossip with its
heartbeats, and more messages than an IHAVE may name.

### PubSubPeer

The three priority queues, the task that drains the lower ones, the send stream,
`connectedFut`, the sends that wait for it, `disconnectPeer` and `stopTasks`. The list
of subscriptions sent on `StreamOpened` is a message of its own (`Hellos`), so that
`HelloFirst`, a part of `WellFormed`, can be stated; a stream may open with nothing to say
(no subscription and no extension). `event` is `dataAvailableEvent`: the task that drains
the queues looks at them, sleeps on the event if they are empty, and clears it when roused.
A behaviour of the run has a cast of messages and hellos.

### DialBackoff

`entries` is the table: the failures of a key and how long it still blocks. `dial` holds
the dials under way; `Forced` dials do not ask the table. `Grown` is the loop
of `delay`, which multiplies step by step with integers that wrap at `Limit` (2^63 in the
code), and `Promised` is the closed form it is compared with. Time is a countdown, so that
it needs no clock; the sums with the clock (`now` plus a wait, the end of a wait plus
`maxDelay`) are therefore exact, a `Moment` being far from its limit.
Fairness: time passes. Nothing is assumed of the dials, not even that they end.

### CallWait, CExamples

`CallWait` is what all the examples have in common. `style` is "poll" for `wait_done` of
`common.h`, which looks at an atomic flag until its limit, and "cond" for the mutex and
condition variable of `libp2p_mobile_check.c`. `act` is where the program is,
`inflight` the calls the library has not finished with, each with its phase: queued,
answered, written (the waiter is filled in), signalled (the mutex is still held).

In `CExamples` a program is data: the steps of `main` in order, each with the label it
jumps to when it fails, the steps at each label, and what the example is there to show
(`goal`, `gone`, `tidy`). `facts` is the state of the library, as far as the handlers of
`cbind/libp2p.nim` that the examples call read and change it: `Ready` is what a
handler requires, `Results` what it may answer, `Adds` and `Removes` what it
changes. `trouble` is a history variable: a call failed for a reason of its own, or
brought too little. `libp2p_ctx_destroy` is one step: that it returns is assumed. Payloads are a text with a length, so that truncation shows.
Fairness: `main` goes on, a callback that has begun ends, and a wait reaches its limit.
The library may never answer; `MainEnds` holds all the same.

## 3. Runs

Each run of `PROJECT.json` asks one question about one module; its `about` says what
it shows. A passing run explores the whole state space of its instance. Where one
module is looked at in several situations, the run has a variable that is chosen in
the initial state and never changes (`cast`, `env`, `session` or `trouble`), whose values
say who takes part or which operations the callers use. It keeps each situation
small without leaving out an interleaving within it.

| run | distinct states | temporal properties |
|---|---|---|
| `connections` | 295 000 | `StopTerminates` |
| `trim` | 2 047 000 | action properties of trims |
| `dialer` | 78 000 | `SlotsImplemented` (refinement), `EveryDialEnds` |
| `dial_backoff` | 514 000 | `RetryComes`, action properties of failures |
| `ranked_dial` | 6 600 | `DialReturns` |
| `yamux` | 407 000 | `WindowsImplemented` (refinement both ways), `WriteFinishes` |
| `gossip_node` | 453 000 up to symmetry | action properties of heartbeats and grafts |
| `gossip_link` | 19 000 | `EventuallyMeshed`, `SubscriptionReachesPeer` |
| `relay` | 1 022 000 | action properties of relays |
| `pubsub_peer` | 1 921 000 | `SendsEnd` |
| `c_examples` | 50 000 | `MainEnds`, action property of the exit status |
| `yamux_half_close` | ends with a counterexample | section 4 |

Bounds and why they are enough:

- two or three connections of a peer: a race needs one that is being stored, one
  that replaces it and one that closes; two droppers and two waiters, because the
  second one meets what the first one left;
- windows of 1 to 3 bytes around a default of 2, and messages of 2 or 3 bytes, so that
  a message needs several frames or several messages fit a window; a clamp of the
  send window at 3 (reached) or 8 (out of reach);
- one to four gossipsub peers with D of 1 or 2, so that the mesh goes below and above
  its limits and the outbound quota bites; two topics where tables are counted per
  topic;
- backoffs of 1 to 3 ticks with a slack of 0 or 1, the ordering the defaults have, and a
  `MaxBackoff` of 2 (which clamps) for one node, of 8 (out of reach) for two;
- two messages, two validations, up to three peers for the relay: the author, a
  second sender and a third peer to relay to;
- a history of 3 slots of which 2 are gossiped, for the message cache;
- three keys for a backoff table of two entries, so that it overflows, two plain
  dials and a forced one, and a `Limit` of 8, which the products of a setting exceed;
- the C programs as they are, `LOOKUP_ATTEMPTS` included; answers are the few the
  programs tell apart.

`CHECK_DEADLOCK FALSE` is set where the environment may simply stop doing anything.
Constants that start with `Max` and are not in the code bound histories and counters
only. `gossip_node` uses the symmetry of the peers that every surrounding treats
alike; no run with a liveness property uses symmetry.

`WellFormed`, where a module has it, is its type invariant together with what makes its
tables agree: the ready set and the limit per peer in `ConnManager`, the users of the
dial locks, the holders of slots and one connection each in `Dialer`, the ages and the
decay loop in `ConnTrim`, the budget and the connections that must not leak in
`RankedDial`, the bound of the table in `DialBackoff`, windows that are never exhausted in
`YamuxChannel`, peers, subscriptions and the size of the mesh in `GossipNode`, the message cache and
`validationSeen` in `GossipRelay`, the queues and the first message in `PubSubPeer`, the
contexts and the hand-off of events in `CExamples`.

Every property of a passing run has a mutant in `PROJECT.json`: a definition with a
plausible mistake, under which TLC finds the property violated.

## 4. Where the code and what is said of it disagree

The run `yamux_half_close` ends with a counterexample to something the repository
says, which the finding in `PROJECT.json` quotes: reading the end of the stream
completes writes that were never sent.

The models show other behaviour that a reader may not expect. It is either the exact
exception of a property or left outside what a property asks:

- `StopTerminates`: `storeMuxer` does not look at `running`, so a dial that ends during or
  after stop stores a connection that stop does not close, although `stop` is commented
  "close all connections"; if nobody closes it, `drainOnCloseTasks` waits for it;
- an unsubscription made while a peer has no send stream is never told to it: the list
  sent when the stream opens holds the subscribed topics only (`pubsub.nim:623`);
- `RetryComes`: a forced dial ignores the backoff and its failures prolong it;
- `JoinedUnlessFirstLost`: the first muxer of a peer closes while its handlers run and
  a second one keeps the peer connected; Joined never fires, and the peer has no age,
  so that it is exempt from trimming as long as it stays;
- `ExpectationReachable`: an expectation made while stop cancels an older one of the
  same key loses its table entry when the older one unwinds;
- `TrimSpares` (`StaleAge`): a peer that reconnects during its own drop is judged by the
  age of its former stay until its handlers have run;
- a trim triggered in the silence period is not made up for, and the count stays above
  the high watermark until the next trigger;
- a yamux stream closed from both ends while data is queued is not removed from the
  table when the last byte is out; a reset raised by the send loop, or after the peer
  closed, sends no Rst;
- `WindowsImplemented` and `NeverExhausted` (`miscounted`): a stream that is reset and cleaned
  up while its handler awaits a payload (`yamux.nim:731`) notes its budget (`:509`) and then
  grants credit that the budget does not know of (`:277`); what the peer sends for it may
  exhaust the budget, and the session ends;
- `MessagesArrive` (`cut`): a `readOnce` suspended when the stream is reset reports the end of
  the stream, as if the peer had closed it;
- `MeshBounded`: a peer that is being disconnected stays in the mesh until its loop ends, no
  longer outbound, while the quota takes in another for it;
- a gossipsub peer made direct after it subscribed is not among the direct peers of a
  publish; pruning above DHigh keeps D plus the protected peers; a peer whose GRAFT
  crosses our PRUNE is penalised; opportunistic grafting outside a heartbeat compares
  with a median that may be negative;
- `QueuedWaitsForHigh`: a queued message that waits for a stream goes out before high
  priority messages sent meanwhile;
- `LeavesAsItShould` and `DeliveredOnce` (`forgotten`): a message the seen cache has dropped at
  some time may be delivered again, and one dropped during its validation may be relayed to
  a peer that sent it; the exception covers every message that was ever dropped;
- `DeliveredOnce`: a message offered in two heartbeats can be asked for twice, although a
  comment in `handleIWant` (`behavior.nim:345`) says that `canAskIWant` "will only return true
  once for a specific message": it does so once per offer.

## 5. Proofs

All theorems are for every value of the constants that the named assumptions allow: any
sets of peers, connections, dials, messages and tasks, any limits and windows. A proof
that a step keeps an invariant has one step per action.

`ConnManagerProofs`.
- `TypeOK` is inductive. `ReadyMatchesStore` is not: the proof takes it with
  `JoinedIsReady` (a peer whose last event is Joined is in the ready set); `ReadyInv` is
  the conjunction of the three. From it follows `NoGhostPeerAlways`.
- `LimitInv` adds that the store is finite to `WithinPeerLimit`: `storeMuxer` compares the
  count of all connections, the invariant speaks of those that were not expected, and
  the lemmas on finite cardinalities bridge the two. `WellFormedAlways` joins them.
- `ExpectInv`: a call is found under its key from its first step to its last, not only
  while its future is pending, since only then does the `finally` of one call delete no
  key of another. `ExpectationReachableAlways`.
- `JoinInv` holds while `storeMuxer` calls are under way too: a peer with a muxer in the
  store is joined, or the muxer that found it new is still about to say so, or failed.
  `JoinedUnlessFirstLostAlways` is its case with no call under way.
- `StrandInv` adds to `NoStrandedWaiter` that a tabled future is unfinished, that no two
  peers share one, and that a call has a future exactly while it has a peer; finite sets
  of waiters make the count in `readyWaiters` meaningful. `NoStrandedWaiterAlways`.

`ConnTrimProofs`. `Inv` is `WellFormed` with the fact that the stay of every connected peer
has begun, that a manager being stopped does not run (`StopInv`: no decay loop starts behind
the one stop has ended), and a bound on the count of joins by the muxers that have got past the start
(`Early` are the others), which its type needs. The two action properties of a trim follow from the definition of its
victims, with finite cardinalities for the low watermark: `TrimSparesAlways`,
`TrimKeepsTheBestAlways`.

`SlotCountProofs`: `IInv` is the type invariant with `Balanced` and
`NoIdleSlot` (no free slot while one is owed or waited for). `Balanced` needs the facts of
finite cardinalities: an acquire adds one holder, a release removes one.
`ReleaseNeverFails` follows: a holder exists, so the count is below the size.

`DialerProofs`. Three invariants, each of which uses the ones before it.
- `LockInv`: the holder of a peer's lock is the one dial under way to it, the queue of the
  lock lists exactly the dials that wait (`Lists`: each once), nobody waits for a free lock,
  and the count of users is the number of dials that hold or await it. The cases that
  need it are a cancelled waiter that leaves the middle of the queue, and the last user
  that removes the entry.
- `SlotInv`: every slot belongs to a dial that is out or to a connection with a monitor.
  Every step of the dialer is shown to be a step of `SlotCount` or to leave it alone; the
  counts then balance by what `SlotCountProofs` proves, instantiated with the dialer's
  state.
- `ReuseInv`: among the dials that reuse connections, one connection of ours per peer. It
  holds because such a dial looks at the store after it has the lock.

`WellFormedAlways` joins them, and `SlotsRefine` states the refinement as a theorem, so
that `SlotsBalanced` and `ReleaseNeverFails` are about the slots of the code.

`DialBackoffProofs`.
- `TableInv` is the bound with the finiteness of the table. `KeptFits` is the core: what
  `prune` and `evictSoonest` keep has room for the new key, or holds it already.
  `ForgetsTheLeastAlways` follows with `LeastLeaves`.
- `LoopComputes`: after n rounds the loop of `delay` holds base times factor to the n, if
  that is at most the maximum, and the maximum otherwise; no product is computed that a
  `Duration` cannot hold. The loop is a recursive function. That it exists, and what it
  computes, is proved by induction, which comes from the well-foundedness of the natural
  numbers in the form that a set of numbers has a least element (`LeastNumber`, `UpTo`,
  `Rounds`). `DelayIsPromised` compares it with the closed form for every configuration,
  and `WaitsAsPromisedAlways` and `WellFormedAlways` rest on it.

`GossipRelayProofs`. The invariant has one part per group of variables. `RunInv` with
`OnceInv`: a message the seen cache remembers is validated by at most one task, by none
once it was delivered, and the copies that came meanwhile are all in `validationSeen`.
`CacheInv`: the cache and its history slots agree, and only accepted messages are in it.
`OfferInv`: the answers a peer got and the offers it has open together are at most the
offers made, counted with finite cardinalities over the list of sets. `WantInv`: the
limits on IDONTWANT and IHAVE. `WellFormedAlways`, `DeliveredOnceAlways` and the action
property `LeavesAsItShouldAlways` follow.

`PubSubPeerProofs`. `Inv`: the sends that wait for a stream form one line, first those
already woken, and the line and the two lower queues list each message that its state
says is there exactly once (`PlaceInv`); what the task has in hand (`TaskInv`); nothing
precedes the hello of a stream; nothing begins once `stopTasks` has started (`QuietInv`).
`StoppedIsQuiet` alone is not inductive, since stop is two steps with an await between
them. `ClearProperties` is the lemma on `clearSendPriorityQueue`: it empties the queue only
if every send in it has ended, from which `QueuedWaitsForHighAlways` follows though the
task awaits the last send only.

`PrimitiveProofs`.
- `WindowInv` is the type invariant of `YamuxWindow` with `Conserved`, which is inductive: a
  frame moves bytes from credit to flight, its acceptance takes them from the window, a
  grant gives to the window and to the grants in flight at once. `NeverOverrun` is a
  consequence. `YamuxChannel` implements `YamuxWindow` (checked by TLC).
- `WaitInv` says that at most one callback is under way, that it belongs to the call the
  program waits in, and for each phase of it what the flag, the fields and the mutex
  hold (`PhaseOK`). `OwnsItsWaiter` alone is not inductive: without the phases a flag that
  is up would not tell that the callback has let go of the mutex. `WaiterOwned` and
  `ReplyIsItsOwn` follow. They are about `WaitSpec`, the specification of `CallWait`; a step
  of `CExamples` is an action of `CallWait` or leaves the waiter alone, and TLC checks the
  same two properties there.

Assumptions: only those on the constants that the modules name. Sets that are counted
are finite; sizes and bounds are natural numbers, at least one where the code divides or
indexes by them; low and high watermarks are ordered; windows are at least the default;
outgoing and incoming connections have different names, and `None` is no member of the sets it is
added to; the settings of a behaviour name declared peers, messages and tasks only; a
configured base and maximum of a backoff are representable durations.

Only model-checked:
- liveness (`StopTerminates`, `EveryDialEnds`, `RetryComes`, `DialReturns`, `WriteFinishes`,
  `EventuallyMeshed`, `SubscriptionReachesPeer`, `SendsEnd`, `MainEnds`): the prover has no
  reasoning about fairness and ENABLED;
- `RankedDial`, `GossipMesh` and its two users: their choices are folds and recursive
  operators over sequences and tables;
- `YamuxChannel`: what it promises is stated with sums over sequences of frames and with
  selections from queues, for which the prover has no theory;
- `CExamples`: its properties are about eight concrete programs, and TLC runs all of each.

## 6. Not modelled

`PROJECT.json` lists every component with its status and the reason. Left out for good:
cryptography, encodings, sockets, DNS, HTTP and TLS (data and I/O without control that
the properties could tell apart), builders, ping and perf (no state), and the arithmetic
of scores (floating point).

Not covered, although a model is possible: the switch with its accept loop, mplex and
`BufferStream`, kademlia, service discovery and rendezvous, the connectivity protocols
and services, identify, peer store, address manager, multistream, floodsub and the
gossipsub extensions. This development takes the path of a connection (dial, slots,
store, trim), of a stream (yamux), and of a message (gossipsub), and the programs on top
of the binding. What the modelled parts use of the others is an
input that may take any value: an upgrade that fails, a connection that ends, an
address that resolves late. Within the modelled parts: the table of streams and the
pings of yamux, the resolution of names in the dialer, signing and validator
registration in pubsub, and the handlers of the binding that no example calls.
