----------------------------- MODULE PubSubPeer -----------------------------
(***************************************************************************)
(* The sending side of a pubsub peer: libp2p/protocols/pubsub/             *)
(* pubsubpeer.nim.  Its connect loop keeps a send stream up; messages go   *)
(* out at once, wait for a stream (sendMsgSlow), or wait in the medium and *)
(* low priority queues for the task that sends them.                       *)
(*                                                                         *)
(* A message stands for the future of its send.  `connected` says whether  *)
(* connectedFut is finished; the sends that wait for it resume, in order,  *)
(* some time after it is (`woken`).  What the other side of the stream     *)
(* does, and the muxer below, is external: a write ends, in order, or      *)
(* fails with its stream.                                                  *)
(***************************************************************************)
EXTENDS Integers, Sequences, FiniteSets

CONSTANTS
    Msgs, Prio,        \* messages of the application and their priorities
    Hellos,            \* what StreamOpened sends, one for each stream that has one
    MaxHigh, MaxMedium, MaxLow,
    None

ASSUME QueueAssumption ==
    /\ {MaxHigh, MaxMedium, MaxLow} \subseteq Nat \ {0}
    /\ Prio \in [Msgs -> {"High", "Medium", "Low"}]
    /\ None \notin Msgs \cup Hellos /\ Msgs \cap Hellos = {}

VARIABLES
    st,                \* what became of each message
    high, medium, low, \* the RpcMessageQueue,
    event,             \* and whether its dataAvailableEvent is set
    task, held, waitOn,\* sendNonHighPriorityTask
    stream,            \* sendStream: nil, open or closed
    wire,              \* messages written to the stream
    connected,         \* connectedFut is finished
    waiting, woken,    \* sends in sendMsgSlow, before and after connectedFut
    loop,              \* the connect loop
    disc,              \* disconnectPeer
    stopped, stopping  \* p.stopped, and stopTasks

vars == <<st, high, medium, low, event, task, held, waitOn, stream, wire, connected,
          waiting, woken, loop, disc, stopped, stopping>>
queues == <<high, medium, low, event>>
taskVars == <<task, held, waitOn>>
streamVars == <<stream, wire, connected, waiting, woken>>
lifeVars == <<loop, disc, stopped, stopping>>

All == Msgs \cup Hellos

Init ==
    /\ st = [m \in All |-> "new"]
    /\ high = <<>> /\ medium = <<>> /\ low = <<>> /\ event = FALSE
    /\ task = "idle" /\ held = None /\ waitOn = None
    /\ stream = "nil" /\ wire = <<>> /\ connected = FALSE
    /\ waiting = <<>> /\ woken = <<>>
    /\ loop = "off" /\ disc = "no" /\ stopped = FALSE /\ stopping = "no"

Finished(m) == st[m] \in {"sent", "lost"}

-----------------------------------------------------------------------------
(* Queues.                                                                 *)

\* clearSendPriorityQueue: finished sends leave from both ends only.
Clear(q) ==
    LET live == {i \in DOMAIN q : ~Finished(q[i])}
    IN  IF live = {} THEN <<>>
        ELSE SubSeq(q, CHOOSE i \in live : \A j \in live : i <= j,
                       CHOOSE i \in live : \A j \in live : i >= j)

\* sendMsg: to the stream, or wait for one, or nothing.
SendMsg(m) ==
    \/ /\ stream = "open"
       /\ st' = [st EXCEPT ![m] = "writing"]
       /\ wire' = Append(wire, m)
       /\ UNCHANGED waiting
    \/ /\ stream = "nil" /\ ~connected
       /\ st' = [st EXCEPT ![m] = "slow"]
       /\ waiting' = Append(waiting, m)
       /\ UNCHANGED wire
    \/ /\ stream = "closed" \/ (stream = "nil" /\ connected)
       /\ st' = [st EXCEPT ![m] = "lost"]
       /\ UNCHANGED <<wire, waiting>>

\* Pending writes of a stream that closes fail.
Failing(s) == [m \in All |-> IF s[m] = "writing" THEN "failing" ELSE s[m]]

\* connectedFut.completeOnce().
Complete ==
    /\ connected' = TRUE
    /\ woken' = woken \o waiting
    /\ waiting' = <<>>

\* disconnectPeer, up to the close of the stream.
Disconnect(s) ==
    /\ stopped' = TRUE
    /\ IF stream = "nil"
       THEN /\ disc' = "done"
            /\ Complete
            /\ st' = s
            /\ UNCHANGED stream
       ELSE /\ disc' = "closing"
            /\ stream' = "closed"
            /\ st' = Failing(s)
            /\ UNCHANGED <<connected, waiting, woken>>
    /\ UNCHANGED <<wire, loop, stopping>>

DiscClosed ==
    /\ disc = "closing"
    /\ disc' = "done"
    /\ stream' = "nil"
    /\ Complete
    /\ UNCHANGED <<st, queues, taskVars, wire, loop, stopped, stopping>>

RoomIn(q, limit) == Len(q) < limit

SendHigh(m) ==
    LET q == Clear(high)
    IN  /\ Prio[m] = "High" \/ (q = <<>> /\ medium = <<>> /\ low = <<>>)
        /\ IF RoomIn(q, MaxHigh)
           THEN /\ SendMsg(m)
                /\ high' = IF st'[m] = "lost" THEN q ELSE Append(q, m)
                /\ UNCHANGED <<medium, low, event, taskVars, stream, connected, woken, lifeVars>>
           ELSE /\ Disconnect([st EXCEPT ![m] = "lost"])
                /\ high' = q
                /\ UNCHANGED <<medium, low, event, taskVars>>

\* A message for a full queue is dropped (and the peer found slow).
Enqueue(m) ==
    LET q == Clear(high)
        fits == IF Prio[m] = "Medium" THEN RoomIn(medium, MaxMedium) ELSE RoomIn(low, MaxLow)
    IN  /\ Prio[m] # "High" /\ ~(q = <<>> /\ medium = <<>> /\ low = <<>>)
        /\ high' = q
        /\ st' = [st EXCEPT ![m] = IF fits THEN "queued" ELSE "lost"]
        /\ medium' = IF fits /\ Prio[m] = "Medium" THEN Append(medium, m) ELSE medium
        /\ low' = IF fits /\ Prio[m] = "Low" THEN Append(low, m) ELSE low
        /\ event' = (event \/ fits)
        /\ UNCHANGED <<taskVars, streamVars, lifeVars>>

SendEncoded(m) ==
    /\ st[m] = "new"
    /\ IF stopped
       THEN /\ st' = [st EXCEPT ![m] = "lost"]
            /\ UNCHANGED <<queues, taskVars, streamVars, lifeVars>>
       ELSE SendHigh(m) \/ Enqueue(m)

-----------------------------------------------------------------------------
(* sendNonHighPriorityTask.                                                *)

\* With m in hand: wait for the last high priority send, or send.
WaitOrSend(m) ==
    LET q == Clear(high)
    IN  /\ high' = q
        /\ held' = m
        /\ IF q # <<>>
           THEN /\ task' = "wait" /\ waitOn' = q[Len(q)]
                /\ UNCHANGED <<st, wire, waiting>>
           ELSE /\ SendMsg(m)
                /\ task' = "send" /\ waitOn' = None
        /\ UNCHANGED <<stream, connected, woken>>

TaskTakes ==
    /\ task = "idle"
    /\ \/ /\ medium # <<>>
          /\ medium' = Tail(medium) /\ UNCHANGED low
          /\ WaitOrSend(Head(medium))
       \/ /\ medium = <<>> /\ low # <<>>
          /\ low' = Tail(low) /\ UNCHANGED medium
          /\ WaitOrSend(Head(low))
    /\ UNCHANGED <<event, lifeVars>>

\* Mutant: the event is cleared before it is waited for.
TaskSleepsClearing ==
    /\ task = "idle"
    /\ task' = "asleep" /\ event' = FALSE
    /\ UNCHANGED <<st, high, medium, low, held, waitOn, streamVars, lifeVars>>

\* Both queues are empty: the task waits for the event, ...
TaskSleeps ==
    /\ task = "idle" /\ medium = <<>> /\ low = <<>>
    /\ task' = "asleep"
    /\ UNCHANGED <<st, queues, held, waitOn, streamVars, lifeVars>>

\* ... which is cleared when it has come, and the queues are looked at again.
TaskRoused ==
    /\ task = "asleep" /\ event
    /\ task' = "idle" /\ event' = FALSE
    /\ UNCHANGED <<st, high, medium, low, held, waitOn, streamVars, lifeVars>>

\* Mutant: the queue is not looked at again.
TaskWakesOnce ==
    /\ task = "wait" /\ Finished(waitOn)
    /\ SendMsg(held)
    /\ task' = "send" /\ waitOn' = None
    /\ UNCHANGED <<high, held, medium, low, event, stream, connected, woken, lifeVars>>

TaskWakes ==
    /\ task = "wait" /\ Finished(waitOn)
    /\ WaitOrSend(held)
    /\ UNCHANGED <<medium, low, event, lifeVars>>

TaskDone ==
    /\ task = "send" /\ Finished(held)
    /\ task' = "idle" /\ held' = None
    /\ UNCHANGED <<st, queues, waitOn, streamVars, lifeVars>>

-----------------------------------------------------------------------------
(* Sends under way.                                                        *)

\* sendMsgSlow goes on.
WakeSlow ==
    /\ woken # <<>>
    /\ woken' = Tail(woken)
    /\ IF stream = "open"
       THEN /\ st' = [st EXCEPT ![Head(woken)] = "writing"]
            /\ wire' = Append(wire, Head(woken))
       ELSE /\ st' = [st EXCEPT ![Head(woken)] = "lost"]
            /\ UNCHANGED wire
    /\ UNCHANGED <<queues, taskVars, stream, connected, waiting, lifeVars>>

WriteDone ==
    /\ \E i \in DOMAIN wire :
        /\ st[wire[i]] = "writing"
        /\ \A j \in 1 .. i - 1 : st[wire[j]] # "writing"
        /\ st' = [st EXCEPT ![wire[i]] = "sent"]
    /\ UNCHANGED <<queues, taskVars, streamVars, lifeVars>>

WriteFails(m) ==
    /\ st[m] = "failing"
    /\ st' = [st EXCEPT ![m] = "lost"]
    /\ UNCHANGED <<queues, taskVars, streamVars, lifeVars>>

StreamDies ==
    /\ stream = "open"
    /\ stream' = "closed"
    /\ st' = Failing(st)
    /\ UNCHANGED <<queues, taskVars, wire, connected, waiting, woken, lifeVars>>

-----------------------------------------------------------------------------
(* The connect loop.                                                       *)

\* A new connectedFut if the old one is finished.
FreshFut == connected' = FALSE /\ UNCHANGED waiting

\* connect, from the Joined event of the peer.
Connect ==
    /\ loop = "off" /\ ~stopped
    /\ loop' = "dial"
    /\ FreshFut
    /\ UNCHANGED <<st, queues, taskVars, stream, wire, woken, disc, stopped, stopping>>

\* StreamOpened sends the subscriptions, and the extensions control message.
Greet ==
    \E h \in Hellos :
        /\ st[h] = "new"
        /\ IF RoomIn(Clear(high), MaxHigh)
           THEN /\ stream' = "open"
                /\ wire' = <<h>>
                /\ st' = [st EXCEPT ![h] = "writing"]
                /\ high' = Append(Clear(high), h)
                /\ UNCHANGED <<disc, stopped>>
           ELSE \* too many sends wait: the peer is disconnected
                /\ stream' = "closed" /\ wire' = <<>>
                /\ st' = [st EXCEPT ![h] = "lost"]
                /\ high' = Clear(high)
                /\ disc' = "closing" /\ stopped' = TRUE

\* It has nothing to send without topics and extensions.
GreetNot == stream' = "open" /\ wire' = <<>> /\ UNCHANGED <<st, high, disc, stopped>>

\* The stream is up: the waiting sends may go on, but StreamOpened comes first.
Opened ==
    /\ loop' = "read"
    /\ connected' = TRUE
    /\ woken' = woken \o waiting /\ waiting' = <<>>
    /\ Greet \/ GreetNot
    /\ UNCHANGED <<medium, low, event, taskVars, stopping>>

DialOk ==
    /\ loop = "dial"
    /\ IF stopped
       THEN /\ loop' = "close"   \* the new stream is closed
            /\ UNCHANGED <<st, queues, taskVars, streamVars, disc, stopped, stopping>>
       ELSE Opened

\* connectOnce raises: closeSendStream in its finally, and the loop is over.
DialFails ==
    /\ loop = "dial"
    /\ loop' = "over"
    /\ Complete
    /\ UNCHANGED <<st, queues, taskVars, stream, wire, disc, stopped, stopping>>

ReadEnds ==
    /\ loop = "read" /\ stream # "open"
    /\ loop' = "close"
    /\ UNCHANGED <<st, queues, taskVars, streamVars, disc, stopped, stopping>>

\* closeSendStream is done.  The loop dials again, unless the peer is stopped.
LoopCloses ==
    /\ loop = "close"
    /\ stream' = "nil"
    /\ woken' = woken \o waiting /\ waiting' = <<>>
    /\ connected' = stopped
    /\ loop' = IF stopped THEN "over" ELSE "dial"
    /\ UNCHANGED <<st, queues, taskVars, wire, disc, stopped, stopping>>

-----------------------------------------------------------------------------
(* stopTasks.                                                              *)

\* Every send under way, the task and the loop are cancelled.
StopTasks ==
    /\ stopping = "no"
    /\ stopping' = "waiting"
    /\ stopped' = TRUE
    /\ st' = [m \in All |->
                IF st[m] \in {"slow", "writing", "failing"} \/ m = held THEN "lost" ELSE st[m]]
    /\ task' = "off" /\ held' = None /\ waitOn' = None
    /\ waiting' = <<>> /\ woken' = <<>>
    /\ loop' = IF loop \in {"dial", "read"} THEN "close" ELSE loop
    /\ stream' = IF stream = "open" THEN "closed" ELSE stream
    /\ UNCHANGED <<queues, wire, connected, disc>>

\* Mutant: the low priority queue is forgotten.
StopTasksDoneHalf ==
    /\ stopping = "waiting" /\ loop \in {"off", "over"}
    /\ stopping' = "done"
    /\ high' = <<>> /\ medium' = <<>>
    /\ st' = [m \in All |->
                IF st[m] = "queued" /\ m \notin {low[i] : i \in DOMAIN low} THEN "lost" ELSE st[m]]
    /\ UNCHANGED <<low, event, taskVars, streamVars, loop, disc, stopped>>

StopTasksDone ==
    /\ stopping = "waiting" /\ loop \in {"off", "over"}
    /\ stopping' = "done"
    /\ high' = <<>> /\ medium' = <<>> /\ low' = <<>>
    /\ st' = [m \in All |-> IF st[m] = "queued" THEN "lost" ELSE st[m]]
    /\ UNCHANGED <<event, taskVars, streamVars, loop, disc, stopped>>

Next ==
    \/ \E m \in Msgs : SendEncoded(m)
    \/ \E m \in All : WriteFails(m)
    \/ DiscClosed
    \/ TaskTakes \/ TaskSleeps \/ TaskRoused \/ TaskWakes \/ TaskDone
    \/ WakeSlow \/ WriteDone \/ StreamDies
    \/ Connect \/ DialOk \/ DialFails \/ ReadEnds \/ LoopCloses
    \/ StopTasks \/ StopTasksDone

\* Every task runs on, a dial ends, and the other side reads or the stream dies.
Fairness ==
    /\ WF_vars(DiscClosed) /\ WF_vars(TaskTakes) /\ WF_vars(TaskSleeps) /\ WF_vars(TaskRoused)
    /\ WF_vars(TaskWakes) /\ WF_vars(TaskDone)
    /\ WF_vars(WakeSlow) /\ WF_vars(WriteDone) /\ WF_vars(\E m \in All : WriteFails(m))
    /\ WF_vars(Connect) /\ WF_vars(DialOk \/ DialFails) /\ WF_vars(ReadEnds)
    /\ WF_vars(LoopCloses) /\ WF_vars(StopTasksDone)

Spec == Init /\ [][Next]_vars /\ Fairness

-----------------------------------------------------------------------------
(* Properties.                                                             *)

\* Types of the PubSubPeer fields, and that a message is where its state says.
TypeOK ==
    /\ st \in [All -> {"new", "queued", "slow", "writing", "failing", "sent", "lost"}]
    /\ stream \in {"nil", "open", "closed"}
    /\ task \in {"idle", "asleep", "wait", "send", "off"} /\ held \in All \cup {None}
    /\ loop \in {"off", "dial", "read", "close", "over"}
    /\ {m \in All : st[m] = "slow"} =
         {waiting[i] : i \in DOMAIN waiting} \cup {woken[i] : i \in DOMAIN woken}

\* The queues stay within the limits determineQueueAction enforces, however
\* the finished sends are spread over sendPriorityQueue.
QueuesBounded == Len(high) <= MaxHigh /\ Len(medium) <= MaxMedium /\ Len(low) <= MaxLow

\* On every stream the subscriptions (and the extensions control message, which
\* "must be the first message on the stream"), if there are any, precede what
\* waited for it.
HelloFirst == \A i \in DOMAIN wire : wire[i] \in Hellos => i = 1

\* The task starts a queued message only when every high priority send has
\* ended, though it waits for the last one and clears the ends of the queue.
QueuedWaitsForHigh ==
    [][\A m \in Msgs :
        held' = m /\ task # "send" /\ task' = "send"
            => \A i \in DOMAIN high : Finished(high[i])]_vars

\* Nothing is left of a stopped peer: when stopTasks returns, every send has
\* ended and no queue holds a message.
StoppedIsQuiet ==
    stopping = "done" => \A m \in All : st[m] \in {"new", "sent", "lost"}

\* No send waits forever: connectedFut is completed on every way out of the
\* connect loop, nobody waits for one that was replaced, and the task misses no
\* dataAvailableEvent.
SendsEnd == <>[](\A m \in All : st[m] = "new" \/ Finished(m))

\* The queues are in order: messages are where their states say, the limits are
\* kept, a stopped peer holds nothing, and nothing precedes the hello of a stream.
WellFormed == TypeOK /\ QueuesBounded /\ StoppedIsQuiet /\ HelloFirst
=============================================================================
