---------------------------- MODULE YamuxChannel ----------------------------
(***************************************************************************)
(* One stream of libp2p/muxers/yamux/yamux.nim between two ends that both  *)
(* run this code: opening, flow control by windows, the send queue and its *)
(* loop, half-close, reset, the budget for data that is still in flight    *)
(* after a reset, the idle timeout and the end of the session.             *)
(*                                                                         *)
(* An end is a record.  The operators on records are the procedures of the *)
(* file; an action applies them from one `await` to the next.  A byte is   *)
(* the name of the write it belongs to, a queue is a sequence of bytes, so *)
(* `sent` counters need no state of their own.  The connection delivers    *)
(* the frames of one end in order: `out` holds those the other has not yet *)
(* begun to handle.  Writing a frame without payload is one step with its  *)
(* call; reading a payload is not one with what follows it.                *)
(***************************************************************************)
EXTENDS Integers, Sequences, SequencesExt

CONSTANTS
    Writes,        \* the messages that are written
    WriterOf,      \* [Writes -> Ends], which end writes it
    LenOf,         \* [Writes -> Nat \ {0}], its size in bytes
    DefaultWindow, \* YamuxDefaultWindowSize
    MaxQueue,      \* maxSendQueueSize
    Settings       \* what callers do in a behaviour, and the window they ask for

Ends == {"a", "b"}
Other(e) == IF e = "a" THEN "b" ELSE "a"

ASSUME YamuxAssumption ==
    /\ WriterOf \in [Writes -> Ends]
    /\ LenOf \in [Writes -> Nat \ {0}]
    /\ DefaultWindow \in Nat \ {0}
    /\ MaxQueue \in Nat
    /\ \A t \in Settings :
        /\ t.windowSize \in Nat \ {0}              \* Yamux.windowSize
        /\ t.maxSendWindow \in Nat /\ DefaultWindow <= t.maxSendWindow   \* its clamp
        /\ t.writes \subseteq Writes
        /\ t.cancels \subseteq t.writes            \* whose callers may cancel them
        /\ t.closers \cup t.resetters \cup t.breakers \subseteq Ends
        /\ t.reject \in BOOLEAN                    \* the responder's table may be full

VARIABLES
    session, \* an element of Settings
    ch,    \* [Ends -> the YamuxChannel object of that end]
    got,   \* [Ends -> the bytes its application has read]
    up     \* the connection below is open

stream == <<ch, got, up>>
vars == <<session, stream>>

WindowSize == session.windowSize
MaxSendWindow == session.maxSendWindow

-----------------------------------------------------------------------------
(* Frames.                                                                 *)

Data(bytes, flag) == [type |-> "Data", bytes |-> bytes, delta |-> 0, flag |-> flag]
WindowUpdate(delta, flag) == [type |-> "WindowUpdate", bytes |-> <<>>, delta |-> delta, flag |-> flag]
GoAway == [type |-> "GoAway", bytes |-> <<>>, delta |-> 0, flag |-> "none"]
NoFrame == [type |-> "none", bytes |-> <<>>, delta |-> 0, flag |-> "none"]

Occurrences(q, w) == Len(SelectSeq(q, LAMBDA x : x = w))

Send(c, f) == [c EXCEPT !.out = Append(@, f)]

\* createStream.  recvWindow may start above maxRecvWindow (= WindowSize): the
\* peer assumes the default.
CreateStream ==
    [state |-> "live",           \* absent, live (in m.channels), gone
                                 \* from it, or refused
     recvWindow |-> Max({WindowSize, DefaultWindow}),
     sendWindow |-> DefaultWindow,
     sendQueue |-> <<>>,
     recvQueue |-> <<>>,
     isSending |-> FALSE,
     sendLen |-> 0,              \* the payload of the frame being written
     sendEnds |-> {},            \* the writes that end with it
     closedLocally |-> FALSE,
     closedRemotely |-> FALSE,
     isReset |-> FALSE,
     remoteReset |-> FALSE,
     isEof |-> FALSE,
     waiting |-> FALSE,          \* readOnce is suspended
     closed |-> FALSE,           \* closeEvent has fired
     flushed |-> 0,              \* m.flushed[id], 0 when not tabled
     handling |-> TRUE,          \* the session's handler loop runs
     reading |-> NoFrame,        \* the frame whose payload it awaits
     ending |-> "no",            \* the session's close: it has "forced" the channels,
                                 \* its connection is "down", it is "closed"
     exhausted |-> FALSE,        \* history: "Peer exhausted the recvWindow" was raised
                                 \* with the connection up and no close begun
     miscounted |-> FALSE,       \* history: credit was granted that `flushed` misses
     cut |-> FALSE,              \* history: a suspended readOnce went on after a reset
     fut |-> [w \in Writes |-> "none"],
     out |-> <<>>]

Open(c, flag) == Send(c, WindowUpdate(Max({WindowSize - DefaultWindow, 0}), flag))

\* The initiator has called newStream, the responder has no channel yet.
Init ==
    /\ session \in Settings
    /\ ch = [e \in Ends |-> IF e = "a" THEN Open(CreateStream, "Syn")
                            ELSE [CreateStream EXCEPT !.state = "absent"]]
    /\ got = [e \in Ends |-> <<>>]
    /\ up = TRUE

-----------------------------------------------------------------------------
(* Closing and resetting.                                                  *)

\* The futures of the writes in ws that are unfinished finish with result s.
Finish(c, ws, s) ==
    [c EXCEPT !.fut = [w \in Writes |-> IF w \in ws /\ @[w] = "pending" THEN s ELSE @[w]]]

ClearQueues(c, s) ==
    [Finish(c, Range(c.sendQueue), s) EXCEPT !.sendQueue = <<>>, !.recvQueue = <<>>]

ActuallyClose(c) ==
    [c EXCEPT !.closed = @ \/ (c.closedLocally /\ c.sendQueue = <<>> /\ c.closedRemotely)]

RemoteClosed(c) ==
    IF c.closedRemotely THEN c ELSE ActuallyClose([c EXCEPT !.closedRemotely = TRUE])

\* Mutant: Fin overtakes the queue.
CloseImplAtOnce(c) ==
    IF c.closedLocally THEN c
    ELSE LET d == [c EXCEPT !.closedLocally = TRUE] IN
         ActuallyClose(IF ~c.isReset THEN Send(d, Data(<<>>, "Fin")) ELSE d)

\* With an empty queue Fin is sent now, otherwise by sendLoop with the last byte.
CloseImpl(c) ==
    IF c.closedLocally THEN c
    ELSE LET d == [c EXCEPT !.closedLocally = TRUE] IN
         ActuallyClose(IF ~c.isReset /\ c.sendQueue = <<>>
                       THEN Send(d, Data(<<>>, "Fin")) ELSE d)

\* Mutant: no receive budget is kept after a local reset.
ResetForgetting(c, isLocal) ==
    IF c.isReset THEN c
    ELSE LET r == [ClearQueues(c, "failed") EXCEPT
                     !.isReset = TRUE, !.remoteReset = ~isLocal, !.sendWindow = 0, !.recvWindow = 0]
         IN  RemoteClosed(CloseImpl(
                 IF isLocal /\ ~c.closedLocally /\ ~c.isSending
                 THEN Send(r, Data(<<>>, "Rst")) ELSE r))

Reset(c, isLocal) ==
    IF c.isReset THEN c
    ELSE LET r == [ClearQueues(c, "failed") EXCEPT
                     !.isReset = TRUE, !.remoteReset = ~isLocal, !.sendWindow = 0]
             s == IF isLocal /\ ~c.closedLocally /\ ~c.isSending
                  THEN Send(r, Data(<<>>, "Rst")) ELSE r
         IN  [RemoteClosed(CloseImpl(s)) EXCEPT !.recvWindow = IF isLocal THEN @ ELSE 0]

-----------------------------------------------------------------------------
(* Receiving.                                                              *)

\* Mutant: the receiver does not count what it grants.
UpdateRecvWindowUncounted(c) ==
    LET inWindow == c.recvWindow + Len(c.recvQueue) IN
    IF inWindow > WindowSize \div 2 THEN c
    ELSE Send(c, WindowUpdate(WindowSize - inWindow, "none"))

\* Mutant: the test is the wrong way round.
UpdateRecvWindowInverted(c) ==
    LET inWindow == c.recvWindow + Len(c.recvQueue)
        delta == WindowSize - inWindow
    IN  IF inWindow < WindowSize \div 2 \/ delta <= 0 THEN c
        ELSE Send([c EXCEPT !.recvWindow = @ + delta], WindowUpdate(delta, "none"))

\* Credit goes back once half of the window has been read.  (When cleanupChannel
\* has already written down the budget of the stream, the budget misses it.)
UpdateRecvWindow(c) ==
    LET inWindow == c.recvWindow + Len(c.recvQueue)
        delta == WindowSize - inWindow
    IN  IF inWindow > WindowSize \div 2 THEN c
        ELSE Send([c EXCEPT !.recvWindow = @ + delta, !.miscounted = @ \/ c.flushed > 0],
                  WindowUpdate(delta, "none"))

GotDataFromRemote(c, bytes) ==
    UpdateRecvWindow([c EXCEPT !.recvWindow = @ - Len(bytes), !.recvQueue = @ \o bytes])

-----------------------------------------------------------------------------
(* Sending.                                                                *)

\* lengthSendQueueWithLimit: each message counts for at most a third of the limit.
LengthSendQueueWithLimit(q) ==
    SumFunction([w \in Writes |-> Min({Occurrences(q, w), MaxQueue \div 3})])

\* The writes whose last byte is in the frame.
EndingIn(bytes, rest) == Range(bytes) \ Range(rest)

\* sendLoop from the test of its `while` to its next await, or to its end.
SendLoop(c) ==
    LET q == SelectSeq(c.sendQueue, LAMBDA w : c.fut[w] = "pending")
        n == Min({c.sendWindow, Len(q)})
        rest == SubSeq(q, n + 1, Len(q))
        bytes == SubSeq(q, 1, n)
        s == [c EXCEPT !.isSending = TRUE, !.sendQueue = q]
    IN
    IF c.sendQueue = <<>> THEN [c EXCEPT !.isSending = FALSE]
    ELSE IF c.sendWindow <= 0
    THEN [(IF LengthSendQueueWithLimit(q) > MaxQueue THEN Reset(s, TRUE) ELSE s)
            EXCEPT !.isSending = FALSE]
    ELSE Send([s EXCEPT !.sendQueue = rest,
                        !.sendLen = n,
                        !.sendEnds = EndingIn(bytes, rest)],
              Data(bytes, IF rest = <<>> /\ c.closedLocally THEN "Fin" ELSE "none"))

\* A window update arrives.
AddCredit(c, delta) == [c EXCEPT !.sendWindow = Min({@ + delta, MaxSendWindow})]

StartSendLoop(c) == IF c.isSending THEN c ELSE SendLoop(c)

-----------------------------------------------------------------------------
(* The application of an end.                                              *)

\* A step of end e alone.
Step(e, c) == ch' = [ch EXCEPT ![e] = c]

Live(e) == ch[e].state = "live"

\* The application was given the channel.
HasStream(e) == ch[e].state \in {"live", "gone"}

\* write: refused on a closed or reset stream, otherwise queued.
Write(e, w) ==
    LET c == ch[e] IN
    /\ HasStream(e) /\ WriterOf[w] = e /\ c.fut[w] = "none"
    /\ IF c.remoteReset \/ c.closedLocally \/ c.isReset
       THEN Step(e, [c EXCEPT !.fut[w] = "failed"])
       ELSE Step(e, StartSendLoop([c EXCEPT
                      !.fut[w] = "pending",
                      !.sendQueue = @ \o [i \in 1..LenOf[w] |-> w]]))
    /\ UNCHANGED <<got, up>>

\* The caller cancels the future that write returned.
CancelWrite(e, w) ==
    /\ w \in session.cancels /\ ch[e].fut[w] = "pending"
    /\ Step(e, [ch[e] EXCEPT !.fut[w] = "cancelled"])
    /\ UNCHANGED <<got, up>>

\* The frame that sendLoop awaits is written; the loop goes on.
\* (decrementing sendWindow only now: credit may have arrived meanwhile)
SendDone(e) ==
    LET c == ch[e] IN
    /\ c.isSending /\ up
    /\ Step(e, SendLoop([Finish(c, c.sendEnds, "completed") EXCEPT
                           !.sendWindow = @ - c.sendLen, !.sendLen = 0, !.sendEnds = {}]))
    /\ UNCHANGED <<got, up>>

\* The connection failed under it.
SendFails(e) ==
    LET c == ch[e] IN
    /\ c.isSending /\ ~up
    /\ Step(e, [Reset(Finish(c, c.sendEnds, "failed"), FALSE) EXCEPT
                  !.isSending = FALSE, !.sendLen = 0, !.sendEnds = {}])
    /\ UNCHANGED <<got, up>>

\* readOnce finds nothing and waits for data or for the end of the stream.
ReadWait(e) ==
    LET c == ch[e] IN
    /\ HasStream(e) /\ ~c.waiting
    /\ ~c.isReset /\ ~c.isEof /\ c.recvQueue = <<>> /\ ~c.closedRemotely
    /\ Step(e, [c EXCEPT !.waiting = TRUE])
    /\ UNCHANGED <<got, up>>

\* A readOnce that waited looks neither at isReset nor at isEof again.
Reads(c) == c.waiting \/ ~c.isReset
Resumed(c) == [c EXCEPT !.waiting = FALSE, !.cut = @ \/ c.isReset]

\* readOnce with something in recvQueue: k bytes are consumed.
Read(e, k) ==
    LET c == ch[e] IN
    /\ Reads(c) /\ (~c.waiting => ~c.isEof)
    /\ k \in 1..Len(c.recvQueue)
    /\ got' = [got EXCEPT ![e] = @ \o SubSeq(c.recvQueue, 1, k)]
    /\ Step(e, UpdateRecvWindow([Resumed(c) EXCEPT !.recvQueue = SubSeq(@, k + 1, Len(@))]))
    /\ UNCHANGED up

\* readOnce at the end of the stream, the first time and every later time.
ReadEof(e) ==
    LET c == ch[e] IN
    /\ HasStream(e) /\ Reads(c)
    /\ \/ c.closedRemotely /\ c.recvQueue = <<>>
       \/ ~c.waiting /\ c.isEof
    /\ Step(e, [ClearQueues(Resumed(c), "completed") EXCEPT !.isEof = TRUE])
    /\ UNCHANGED <<got, up>>

\* close and closeWrite.
Close(e) ==
    /\ e \in session.closers /\ HasStream(e)
    /\ ~ch[e].closedLocally
    /\ Step(e, CloseImpl(ch[e]))
    /\ UNCHANGED <<got, up>>

\* resetStream by the application (which does nothing on a closed stream), or
\* the idle timeout, which is monitored until the stream is closed and at EOF.
ResetStream(e) ==
    LET c == ch[e] IN
    /\ e \in session.resetters /\ HasStream(e)
    /\ ~c.isReset /\ ~c.closed /\ ~(c.closedLocally /\ c.isEof)
    /\ Step(e, Reset(c, TRUE))
    /\ UNCHANGED <<got, up>>

-----------------------------------------------------------------------------
(* The session of an end: cleanupChannel, the frame handler, close.        *)

\* cleanupChannel after join(): a reset stream leaves its budget behind.
CleanupChannel(e) ==
    LET c == ch[e] IN
    /\ Live(e) /\ c.closed
    /\ Step(e, [c EXCEPT !.state = "gone", !.flushed = IF c.isReset THEN Max({c.recvWindow, 0}) ELSE 0])
    /\ UNCHANGED <<got, up>>

\* Yamux.close up to the await of its GoAway: every channel in the table is forced
\* through its end.  It may run twice, until the first is done.
Force(c) ==
    ActuallyClose([ClearQueues(c, "failed") EXCEPT
        !.recvWindow = 0, !.sendWindow = 0, !.closedLocally = TRUE,
        !.closedRemotely = TRUE, !.isReset = TRUE])

CloseSession(c) ==
    IF c.ending = "closed" THEN c
    ELSE Send([(IF c.state = "live" THEN Force(c) ELSE c) EXCEPT
                  !.ending = IF @ = "no" THEN "forced" ELSE @], GoAway)

\* The handler's loop is left, and the session closed.
LeaveHandler(c) == [CloseSession(c) EXCEPT !.handling = FALSE, !.reading = NoFrame]

\* The frame handler on a Syn: the channel is created and acknowledged, or,
\* with the table full, refused and its default window kept as budget.
Accept(c, f) ==
    AddCredit(Open([CreateStream EXCEPT !.out = c.out], "Ack"), f.delta)

Refuse(c) == Send([c EXCEPT !.state = "refused", !.flushed = DefaultWindow], Data(<<>>, "Rst"))

\* ... at the end of a frame of a channel,
HandleFlag(c, f) ==
    CASE f.flag = "Fin" -> RemoteClosed(c)
      [] f.flag = "Rst" -> Reset(c, FALSE)
      [] OTHER -> c

\* ... on a frame of a channel in the table, whose payload has yet to be read,
HandleFrame(c, f) ==
    IF f.bytes # <<>> THEN [c EXCEPT !.reading = f]
    ELSE HandleFlag(IF f.type = "WindowUpdate" THEN StartSendLoop(AddCredit(c, f.delta)) ELSE c, f)

\* ... and on a frame of a channel that is no longer there.
FlushFrame(c, f) == [c EXCEPT !.flushed = IF @ = 0 THEN 0 ELSE @ - Len(f.bytes)]

\* The frame needs more than the window, or the budget, that is left.
Exhausts(c, f) ==
    IF c.state = "live" THEN Len(f.bytes) > c.recvWindow
    ELSE c.flushed > 0 /\ Len(f.bytes) > c.flushed

\* One turn of the handler's loop at e, or its first part when there is a payload.
Receive(e) ==
    LET c == ch[e]
        o == Other(e)
        f == Head(ch[o].out)
        Handled(d) == ch' = [ch EXCEPT ![e] = d, ![o].out = Tail(@)]
    IN
    /\ c.handling /\ c.reading = NoFrame /\ c.ending \in {"no", "forced"} /\ ch[o].out # <<>>
    /\ \/ f.flag = "Syn" /\ (Handled(Accept(c, f)) \/ (session.reject /\ Handled(Refuse(c))))
       \/ f.type = "GoAway" /\ Handled(LeaveHandler(c))
       \/ /\ f.flag # "Syn" /\ f.type # "GoAway" /\ Exhausts(c, f)
          /\ Handled([LeaveHandler(c) EXCEPT !.exhausted = up /\ c.ending = "no"])
       \/ /\ f.flag # "Syn" /\ f.type # "GoAway" /\ ~Exhausts(c, f)
          /\ Handled(IF Live(e) THEN HandleFrame(c, f) ELSE FlushFrame(c, f))
    /\ UNCHANGED <<got, up>>

\* The payload has been read.  It goes to the channel the handler found before,
\* whatever has become of it.  A window update that cannot be written ends the loop.
PayloadRead(e) ==
    LET c == ch[e]
        d == GotDataFromRemote([c EXCEPT !.reading = NoFrame], c.reading.bytes)
    IN
    /\ c.reading # NoFrame
    /\ \/ Step(e, HandleFlag(d, c.reading))
       \/ ~up /\ d.out # c.out /\ Step(e, LeaveHandler(d))
    /\ UNCHANGED <<got, up>>

\* The handler meets the end of the connection, between frames or in a payload.
ConnectionLost(e) ==
    LET c == ch[e] IN
    /\ c.handling /\ ~up
    /\ c.reading # NoFrame \/ c.ending = "down" \/ ch[Other(e)].out = <<>>
    /\ Step(e, LeaveHandler(c))
    /\ UNCHANGED <<got, up>>

\* The session is closed locally.
EndSession(e) ==
    /\ e \in session.breakers /\ ch[e].state # "absent" /\ ch[e].ending = "no"
    /\ Step(e, CloseSession(ch[e]))
    /\ UNCHANGED <<got, up>>

\* Yamux.close goes on: GoAway is written, the connection is closed,
CloseConnection(e) ==
    /\ ch[e].ending = "forced"
    /\ Step(e, [ch[e] EXCEPT !.ending = "down"])
    /\ up' = FALSE
    /\ UNCHANGED got

\* ... and the tasks of the channels have ended.
SessionClosed(e) ==
    /\ ch[e].ending = "down" /\ ~Live(e) /\ ~ch[e].isSending
    /\ Step(e, [ch[e] EXCEPT !.ending = "closed"])
    /\ UNCHANGED <<got, up>>

Next ==
    UNCHANGED session /\ \E e \in Ends :
        \/ \E w \in session.writes : Write(e, w) \/ CancelWrite(e, w)
        \/ SendDone(e) \/ SendFails(e)
        \/ \E k \in 1..Len(ch[e].recvQueue) : Read(e, k)
        \/ ReadWait(e) \/ ReadEof(e) \/ Close(e) \/ ResetStream(e)
        \/ CleanupChannel(e) \/ Receive(e) \/ PayloadRead(e) \/ ConnectionLost(e)
        \/ EndSession(e) \/ CloseConnection(e) \/ SessionClosed(e)

\* The tasks of the session run, and an application that has the stream reads.
ReadAny(e) == \E k \in 1..Len(ch[e].recvQueue) : Read(e, k)

Fairness ==
    \A e \in Ends :
        /\ WF_stream(SendDone(e)) /\ WF_stream(SendFails(e)) /\ WF_stream(Receive(e))
        /\ WF_stream(PayloadRead(e) \/ ConnectionLost(e))
        /\ WF_stream(ReadAny(e))
        /\ WF_stream(CleanupChannel(e))
        /\ WF_stream(CloseConnection(e)) /\ WF_stream(SessionClosed(e))

Spec == Init /\ [][Next]_vars /\ Fairness

-----------------------------------------------------------------------------
(* Properties.                                                             *)

Frames ==
    [type : {"Data", "WindowUpdate", "GoAway", "none"}, bytes : Seq(Writes), delta : Nat,
     flag : {"none", "Syn", "Ack", "Fin", "Rst"}]

LargestWindow == Max({t.windowSize : t \in Settings} \cup {DefaultWindow})

\* A receive window is negative only where no frame is compared with it any more.
TypeOK ==
    /\ \A e \in Ends :
        LET c == ch[e] IN
        /\ c.state \in {"absent", "live", "gone", "refused"}
        /\ c.ending \in {"no", "forced", "down", "closed"}
        /\ c.recvWindow \in -LargestWindow..LargestWindow /\ c.flushed \in 0..LargestWindow
        /\ c.recvWindow < 0 => c.ending # "no" \/ ~up
        /\ c.sendLen \in Nat
        /\ c.sendWindow \in Int /\ c.sendWindow <= MaxSendWindow
        /\ c.sendQueue \in Seq(Writes) /\ c.recvQueue \in Seq(Writes)
        /\ c.sendEnds \subseteq Writes
        /\ c.fut \in [Writes -> {"none", "pending", "completed", "failed", "cancelled"}]
        /\ \A i \in 1..Len(c.out) : c.out[i] \in Frames
        /\ c.reading \in Frames
    /\ got \in [Ends -> Seq(Writes)]
    /\ up \in BOOLEAN

\* The abstract windows of the direction from e to the other end.
Sum(q, F(_)) == SumFunction([i \in 1..Len(q) |-> F(q[i])])
Untabled(c) == c.state \in {"gone", "refused"}
Sending(c) == ~Untabled(c) /\ ~c.isReset

Credit(e) ==
    IF Sending(ch[e])
    THEN ch[e].sendWindow - (IF ch[e].isSending THEN ch[e].sendLen ELSE 0)
    ELSE 0
Flying(e) == Sum(ch[e].out, LAMBDA f : Len(f.bytes)) + Len(ch[Other(e)].reading.bytes)
Granted(e) == IF Sending(ch[e]) THEN Sum(ch[Other(e)].out, LAMBDA f : f.delta) ELSE 0
Policing(e) ==
    /\ up /\ ch[e].ending = "no" /\ ~ch[e].miscounted
    /\ Untabled(ch[e]) => ch[e].flushed > 0
Accepting(e) ==
    IF ~Policing(e) THEN 0
    ELSE CASE ch[e].state = "absent" -> DefaultWindow
           [] ch[e].state = "live" -> ch[e].recvWindow
           [] OTHER -> ch[e].flushed

Forward ==
    INSTANCE YamuxWindow WITH
        MaxWindow <- LargestWindow,
        credit <- Credit("a"), flying <- Flying("a"), granted <- Granted("a"),
        window <- Accepting("b"), receiver <- IF Policing("b") THEN "policing" ELSE "done"
Backward ==
    INSTANCE YamuxWindow WITH
        MaxWindow <- LargestWindow,
        credit <- Credit("b"), flying <- Flying("b"), granted <- Granted("b"),
        window <- Accepting("a"), receiver <- IF Policing("a") THEN "policing" ELSE "done"

\* Both ways, the send window, the receive window, the frames between them and the
\* budget of a reset stream implement YamuxWindow; the responder's way begins
\* before its Syn is acknowledged.  An end that grants credit after cleanupChannel
\* has written down the budget has lost count, and the promise ends there.
WindowsImplemented == Forward!Spec /\ Backward!Spec

\* Two ends that run this code meet "Peer exhausted the recvWindow", before or after
\* a reset, a refusal or a close, in one case only: what the sender may still send
\* fits the window, or the budget in `flushed`, of the receiver, unless the receiver
\* reset the stream and cleaned it up while its handler was reading a payload for
\* it, and then granted credit that `flushed` does not know of.
NeverExhausted == \A e \in Ends : ch[e].exhausted => ch[e].miscounted

\* The fields of both ends stay in their ranges (windows at most the largest, the
\* send window clamped), and neither end takes the other for a cheat.
WellFormed == TypeOK /\ NeverExhausted

\* The rest of message w may have been dropped from the send queue of e: its
\* caller cancelled it, or readOnce met the end of the stream at e, which empties
\* the queue and completes the writes in it.
MayBeCut(e, w) == ch[e].fut[w] = "cancelled" \/ ch[e].isEof

\* Only the last message that an application has read may be incomplete, and
\* those that were cut short: messages arrive whole, once, one after the other
\* (until a readOnce that was suspended goes on after a reset).
MessagesArriveWhole ==
    \A e \in {x \in Ends : ~ch[x].cut} : \A i \in 1..(Len(got[e]) - 1) :
        got[e][i] # got[e][i + 1] =>
            /\ \/ Occurrences(SubSeq(got[e], 1, i), got[e][i]) = LenOf[got[e][i]]
               \/ MayBeCut(Other(e), got[e][i])
            /\ Occurrences(SubSeq(got[e], 1, i), got[e][i + 1]) = 0

\* The bytes of w that end e has handed to the connection and that the other end
\* has not thrown away.
Delivered(e, w) ==
    LET o == Other(e)
        InFrames == SumFunction([i \in 1..Len(ch[e].out) |-> Occurrences(ch[e].out[i].bytes, w)])
    IN  InFrames + Occurrences(ch[o].recvQueue, w) + Occurrences(got[o], w)

\* LPStream.write waits "for the write to be finished": once it returns without an
\* error, all its bytes are with the peer or on their way to it (unless an end
\* has reset the stream).
CompletedMeansSent ==
    \A e \in Ends, w \in Writes :
        /\ ch[e].fut[w] = "completed"
        /\ ~ch[e].isReset /\ ~ch[Other(e)].isReset /\ ~Untabled(ch[Other(e)])
        => Delivered(e, w) = LenOf[w]

\* An application that reads the end of the stream has read every message whose
\* write succeeded and was not cut short: Fin never overtakes queued data.  (A
\* readOnce that was suspended when the stream was reset, or the session ended,
\* reports the end of the stream too: it does not look at isReset again.)
EofMeansAll ==
    \A e \in {x \in Ends : ~ch[x].cut}, w \in Writes :
        ch[e].isEof /\ ch[Other(e)].fut[w] = "completed" /\ ~MayBeCut(Other(e), w)
            => Occurrences(got[e], w) = LenOf[w]

\* What an application reads is what the other wrote, message by message, and it
\* reads the end of the stream only after all of it.
MessagesArrive == MessagesArriveWhole /\ EofMeansAll

\* With a reader that reads, no write waits for ever: the half-window rule of
\* updateRecvWindow never leaves both ends waiting for each other.  (Both ends
\* hold the stream, and the clamp of the send window is out of reach.)
WriteFinishes ==
    <>[](\/ \A e \in Ends, w \in Writes : ch[e].fut[w] # "pending"
         \/ \E e \in Ends : ch[e].state # "live" \/ ch[e].isReset
         \/ MaxSendWindow < 2 * LargestWindow)
=============================================================================
