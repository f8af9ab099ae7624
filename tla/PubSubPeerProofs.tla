-------------------------- MODULE PubSubPeerProofs --------------------------
(***************************************************************************)
(* Proofs about PubSubPeer, for any messages, priorities and limits.       *)
(***************************************************************************)
EXTENDS PubSubPeer, SequenceTheorems, WellFoundedInduction, TLAPS

\* The sequence has the elements of the set, each once.
Lists(q, D) ==
    /\ \A i \in 1 .. Len(q) : q[i] \in D
    /\ \A x \in D : \E i \in 1 .. Len(q) : q[i] = x
    /\ \A i, j \in 1 .. Len(q) : q[i] = q[j] => i = j

\* One more at the end.
LEMMA ListsAppend ==
    ASSUME NEW S, NEW q \in Seq(S), NEW D, Lists(q, D), NEW x \in S, x \notin D
    PROVE  Append(q, x) \in Seq(S) /\ Lists(Append(q, x), D \cup {x})
BY AppendProperties DEF Lists

\* One less at the front.
LEMMA ListsTail ==
    ASSUME NEW S, NEW q \in Seq(S), NEW D, Lists(q, D), q # <<>>
    PROVE  /\ Head(q) \in D
           /\ Tail(q) \in Seq(S) /\ Lists(Tail(q), D \ {Head(q)})
<1>1. Len(q) \in Nat \ {0} /\ Head(q) = q[1]
  BY EmptySeq
<1>2. Tail(q) \in Seq(S) /\ Len(Tail(q)) = Len(q) - 1
      /\ \A i \in 1 .. Len(q) - 1 : Tail(q)[i] = q[i + 1]
  BY HeadTailProperties
<1>3. \A x \in D \ {Head(q)} : \E i \in 1 .. Len(Tail(q)) : Tail(q)[i] = x
  <2> TAKE x \in D \ {Head(q)}
  <2>1. PICK i \in 1 .. Len(q) : q[i] = x
    BY DEF Lists
  <2>2. i # 1 /\ i - 1 \in 1 .. Len(q) - 1 /\ (i - 1) + 1 = i
    BY <1>1, <2>1
  <2> QED
    BY <1>2, <2>1, <2>2
<1> QED
  BY <1>1, <1>2, <1>3 DEF Lists

\* A nonempty set of numbers has a least one.
LEMMA Least ==
    ASSUME NEW T, T \subseteq Nat, T # {}
    PROVE  \E i \in T : \A j \in T : i <= j
<1>1. IsWellFoundedOn(OpToRel(<, Nat), Nat)
  BY Zenon, NatLessThanWellFounded
<1>2. PICK x \in T : \A y \in T : ~(<<y, x>> \in OpToRel(<, Nat))
  BY Zenon, <1>1, WFMin
<1>3. \A y \in T : ~(y < x)
  BY Zenon, <1>2 DEF OpToRel
<1>4. \A y \in T : x <= y
  BY <1>3
<1> QED
  BY <1>4

\* ... and a greatest one, if it is bounded.
LEMMA Greatest ==
    ASSUME NEW n \in Nat, NEW T, T \subseteq 0 .. n, T # {}
    PROVE  \E i \in T : \A j \in T : i >= j
<1> DEFINE U == {n - i : i \in T}
<1>0. \A i \in T : i \in 0 .. n /\ n - i \in Nat
  OBVIOUS
<1>1. U \subseteq Nat /\ U # {}
  BY Zenon, <1>0
<1>2. PICK u \in U : \A v \in U : u <= v
  BY ZenonT(30), <1>1, Least
<1>3. PICK i \in T : u = n - i
  OBVIOUS
<1>4. ASSUME NEW j \in T PROVE i >= j
  <2>1. n - j \in U
    OBVIOUS
  <2>2. u <= n - j
    BY <1>2, <2>1
  <2> QED
    BY <1>0, <1>3, <2>2
<1> QED
  BY <1>4

\* The entries of a queue that are still to be written.
Live(q) == {i \in DOMAIN q : ~Finished(q[i])}

\* clearSendPriorityQueue leaves a part of the queue, and nothing only when every
\* send in it has ended.
LEMMA ClearProperties ==
    ASSUME NEW S, NEW q \in Seq(S)
    PROVE  /\ Clear(q) \in Seq(S) /\ Len(Clear(q)) <= Len(q)
           /\ Clear(q) = <<>> => \A i \in DOMAIN q : Finished(q[i])
<1>1. CASE Live(q) = {}
  <2>1. Clear(q) = <<>>
    BY <1>1 DEF Clear, Live
  <2> QED
    BY <1>1, <2>1, LenProperties DEF Live
<1>2. CASE Live(q) # {}
  <2> DEFINE a == CHOOSE i \in Live(q) : \A j \in Live(q) : i <= j
             b == CHOOSE i \in Live(q) : \A j \in Live(q) : i >= j
  <2>1. Len(q) \in Nat /\ DOMAIN q = 1 .. Len(q) /\ Live(q) \subseteq 1 .. Len(q)
    BY LenProperties DEF Live
  <2>2. a \in Live(q) /\ \A j \in Live(q) : a <= j
    <3>1. \E i \in Live(q) : \A j \in Live(q) : i <= j
      BY <1>2, <2>1, Least
    <3> QED
      BY <3>1
  <2>3. b \in Live(q) /\ \A j \in Live(q) : b >= j
    <3>1. \E i \in Live(q) : \A j \in Live(q) : i >= j
      BY <1>2, <2>1, Greatest
    <3> QED
      BY <3>1
  <2>4. Clear(q) = SubSeq(q, a, b)
    BY ZenonT(30), <1>2 DEF Clear, Live
  <2> HIDE DEF a, b
  <2>5. a \in 1 .. Len(q) /\ b \in 1 .. Len(q) /\ a <= b
    BY <2>1, <2>2, <2>3
  <2>6. \A i \in a .. b : q[i] \in S
    BY <2>1, <2>5, ElementOfSeq
  <2>7. Clear(q) \in Seq(S) /\ Len(Clear(q)) = b - a + 1
    BY <2>4, <2>5, <2>6, SubSeqProperties
  <2>8. Clear(q) # <<>>
    BY <2>5, <2>7, EmptySeq
  <2> QED
    BY <2>1, <2>5, <2>7, <2>8
<1> QED
  BY <1>1, <1>2

-----------------------------------------------------------------------------
(* The inductive invariant.                                                *)

\* The sends that wait for connectedFut, those it woke first.
Line == woken \o waiting
\* The messages that wait in a send of their own.
Slow == {m \in All : st[m] = "slow"}

\* The messages of a priority that wait in its queue: one that the task has in
\* hand does not.
QueuedOf(prio) == {m \in Msgs : st[m] = "queued" /\ Prio[m] = prio /\ m # held}

\* What becomes of a message.
States == {"new", "queued", "slow", "writing", "failing", "sent", "lost"}

\* The types.
Shape ==
    /\ st \in [All -> States]
    /\ stream \in {"nil", "open", "closed"}
    /\ loop \in {"off", "dial", "read", "close", "over"}
    /\ stopping \in {"no", "waiting", "done"}
    /\ high \in Seq(All) /\ medium \in Seq(Msgs) /\ low \in Seq(Msgs)
    /\ waiting \in Seq(All) /\ woken \in Seq(All) /\ wire \in Seq(All)

\* A message is in one place, the one its state says.
PlaceInv ==
    /\ Lists(Line, Slow)
    /\ Lists(medium, QueuedOf("Medium")) /\ Lists(low, QueuedOf("Low"))

\* The task has a queued message in hand while it waits, and one it sent, or
\* failed to, while it sends.
TaskInv ==
    /\ task \in {"idle", "asleep", "wait", "send", "off"}
    /\ task \in {"idle", "asleep", "off"} => held = None
    /\ task \in {"wait", "send"} => held \in Msgs
    /\ task = "wait" => st[held] = "queued"
    /\ task = "send" => st[held] \notin {"new", "queued"}

\* The hello of a stream does not wait for one.
HelloInv == HelloFirst /\ Slow \cap Hellos = {}

\* stopTasks leaves nothing under way, and nothing begins after it.
QuietInv ==
    /\ stopping # "no" =>
        /\ stopped /\ task = "off" /\ waiting = <<>> /\ woken = <<>>
        /\ loop \in {"off", "close", "over"}
        /\ \A m \in All : st[m] \in {"new", "queued", "sent", "lost"}
    /\ StoppedIsQuiet

\* What holds in every reachable state.
Inv == Shape /\ PlaceInv /\ TaskInv /\ HelloInv /\ QueuesBounded /\ QuietInv

-----------------------------------------------------------------------------
(* The line of sends that wait for a stream.                               *)

\* A send that joins the line joins its end, ...
LEMMA LineJoins ==
    ASSUME Shape, Lists(Line, Slow), NEW m \in All, st[m] # "slow",
           waiting' = Append(waiting, m), UNCHANGED woken,
           \A k \in All : st'[k] = IF k = m THEN "slow" ELSE st[k]
    PROVE  waiting' \in Seq(All) /\ Lists(Line, Slow)'
<1>1. waiting \in Seq(All) /\ woken \in Seq(All) /\ <<m>> \in Seq(All)
  BY DEF Shape
<1>2. waiting' = waiting \o <<m>> /\ waiting' \in Seq(All)
  BY <1>1, AppendIsConcat, AppendProperties
<1>3. woken \o (waiting \o <<m>>) = (woken \o waiting) \o <<m>>
  BY <1>1, ConcatAssociative
<1>4. Line \in Seq(All)
  BY <1>1, ConcatProperties DEF Line
<1>5. Line' = Append(Line, m)
  BY <1>2, <1>3, <1>4, AppendIsConcat DEF Line
<1>6. Slow' = Slow \cup {m} /\ m \notin Slow
  BY DEF Slow
<1> QED
  BY <1>2, <1>4, <1>5, <1>6, ListsAppend

\* ... the next one that goes on is its head, ...
LEMMA LineMoves ==
    ASSUME Shape, Lists(Line, Slow), woken # <<>>,
           woken' = Tail(woken), UNCHANGED waiting,
           NEW x \in States \ {"slow"},
           \A k \in All : st'[k] = IF k = Head(woken) THEN x ELSE st[k]
    PROVE  Head(woken) \in Slow /\ woken' \in Seq(All) /\ Lists(Line, Slow)'
<1>1. waiting \in Seq(All) /\ woken \in Seq(All)
  BY DEF Shape
<1>2. Line \in Seq(All) /\ Len(Line) = Len(woken) + Len(waiting)
      /\ \A i \in 1 .. Len(woken) + Len(waiting) :
            Line[i] = IF i <= Len(woken) THEN woken[i] ELSE waiting[i - Len(woken)]
  BY <1>1, ConcatProperties DEF Line
<1>3. Len(woken) \in Nat \ {0} /\ Len(waiting) \in Nat
  BY <1>1, EmptySeq, LenProperties
<1>4. Line # <<>> /\ Head(Line) = Head(woken)
  BY <1>2, <1>3, EmptySeq
<1>5. woken' \in Seq(All) /\ Len(woken') = Len(woken) - 1
      /\ \A i \in 1 .. Len(woken) - 1 : woken'[i] = woken[i + 1]
  BY <1>1, HeadTailProperties
<1>6. Tail(Line) \in Seq(All) /\ Len(Tail(Line)) = Len(Line) - 1
      /\ \A i \in 1 .. Len(Line) - 1 : Tail(Line)[i] = Line[i + 1]
  BY <1>2, <1>4, HeadTailProperties
<1>7. Line' = Tail(Line)
  <2>1. Line' \in Seq(All) /\ Len(Line') = Len(woken') + Len(waiting)
        /\ \A i \in 1 .. Len(woken') + Len(waiting) :
              Line'[i] = IF i <= Len(woken') THEN woken'[i] ELSE waiting[i - Len(woken')]
    BY <1>1, <1>5, ConcatProperties DEF Line
  <2>2. Len(Line') = Len(Tail(Line))
    BY <1>2, <1>3, <1>5, <1>6, <2>1
  <2>3. ASSUME NEW i \in 1 .. Len(Line') PROVE Line'[i] = Tail(Line)[i]
    <3>1. i \in 1 .. Len(Line) - 1 /\ i + 1 \in 1 .. Len(woken) + Len(waiting)
          /\ i \in 1 .. Len(woken') + Len(waiting)
      BY <1>2, <1>3, <1>5, <2>1, <2>3
    <3>2. Tail(Line)[i] = Line[i + 1]
      BY <1>6, <3>1
    <3>3. CASE i <= Len(woken) - 1
      BY <1>2, <1>3, <1>5, <2>1, <3>1, <3>2, <3>3
    <3>4. CASE ~(i <= Len(woken) - 1)
      <4>1. (i + 1) - Len(woken) = i - Len(woken')
        BY <1>3, <1>5, <3>1
      <4> QED
        BY <1>2, <1>3, <1>5, <2>1, <3>1, <3>2, <3>4, <4>1
    <3> QED
      BY ZenonT(30), <3>3, <3>4
  <2> QED
    BY <1>6, <2>1, <2>2, <2>3, SeqEqual
<1>8. Head(Line) \in Slow /\ Lists(Tail(Line), Slow \ {Head(Line)})
  BY <1>2, <1>4, ListsTail
<1>9. Slow' = Slow \ {Head(woken)}
  BY <1>4, <1>8 DEF Slow
<1> QED
  BY ZenonT(30), <1>4, <1>5, <1>7, <1>8, <1>9

\* ... and connectedFut wakes all of it in order.
LEMMA LineWakes ==
    ASSUME Shape, woken' = woken \o waiting, waiting' = <<>>
    PROVE  Line' = Line /\ woken' \in Seq(All) /\ waiting' \in Seq(All)
<1>1. waiting \in Seq(All) /\ woken \in Seq(All)
  BY DEF Shape
<1>2. woken' \in Seq(All) /\ waiting' \in Seq(All)
  BY <1>1, ConcatProperties, EmptySeq
<1>3. Line' = woken'
  BY <1>2, ConcatEmptySeq DEF Line
<1> QED
  BY <1>2, <1>3 DEF Line

\* A message that is no hello may follow on any stream.
LEMMA HelloStays ==
    ASSUME wire \in Seq(All), HelloFirst, NEW m \in Msgs, wire' = Append(wire, m)
    PROVE  wire' \in Seq(All) /\ HelloFirst'
<1>0. m \in All /\ m \notin Hellos
  BY QueueAssumption DEF All, QueueAssumption
<1>1. /\ wire' \in Seq(All) /\ Len(wire) \in Nat /\ DOMAIN wire = 1 .. Len(wire)
      /\ DOMAIN wire' = 1 .. Len(wire) + 1 /\ wire'[Len(wire) + 1] = m
      /\ \A i \in 1 .. Len(wire) : wire'[i] = wire[i]
  BY <1>0, AppendProperties, LenProperties
<1> QED
  BY <1>0, <1>1 DEF HelloFirst

\* sendMsg puts the message on the stream or in the line, or gives it up.
LEMMA SendKeeps ==
    ASSUME Shape, Lists(Line, Slow), HelloInv, NEW m \in Msgs, st[m] # "slow",
           SendMsg(m), UNCHANGED <<stream, woken>>
    PROVE  /\ st' \in [All -> States] /\ st'[m] \in {"writing", "slow", "lost"}
           /\ \A k \in All : k # m => st'[k] = st[k]
           /\ waiting' \in Seq(All) /\ wire' \in Seq(All)
           /\ Lists(Line, Slow)' /\ HelloInv'
<1>0. st \in [All -> States] /\ m \in All /\ m \notin Hellos
  BY QueueAssumption DEF Shape, All, QueueAssumption
<1>1. CASE /\ stream = "open"
           /\ st' = [st EXCEPT ![m] = "writing"]
           /\ wire' = Append(wire, m)
           /\ UNCHANGED waiting
  <2>1. wire' \in Seq(All) /\ HelloFirst'
    BY <1>1, HelloStays DEF Shape, HelloInv
  <2>3. Slow' = Slow /\ Line' = Line
    BY <1>0, <1>1 DEF Slow, Line
  <2>2. HelloInv'
    BY <2>1, <2>3 DEF HelloInv
  <2> QED
    BY <1>0, <1>1, <2>1, <2>2, <2>3 DEF Shape, States
<1>2. CASE /\ st' = [st EXCEPT ![m] = "slow"]
           /\ waiting' = Append(waiting, m)
           /\ UNCHANGED wire
  <2>1. waiting' \in Seq(All) /\ Lists(Line, Slow)'
    <3>1. \A k \in All : st'[k] = IF k = m THEN "slow" ELSE st[k]
      BY <1>0, <1>2
    <3> QED
      BY <1>0, <1>2, <3>1, LineJoins
  <2>2. Slow' = Slow \cup {m}
    BY <1>0, <1>2 DEF Slow
  <2> QED
    BY <1>0, <1>2, <2>1, <2>2 DEF Shape, States, HelloInv, HelloFirst
<1>3. CASE /\ st' = [st EXCEPT ![m] = "lost"]
           /\ UNCHANGED <<wire, waiting>>
  <2>1. Slow' = Slow /\ Line' = Line
    BY <1>0, <1>3 DEF Slow, Line
  <2> QED
    BY <1>0, <1>3, <2>1 DEF Shape, States, HelloInv, HelloFirst
<1> QED
  BY <1>1, <1>2, <1>3 DEF SendMsg

-----------------------------------------------------------------------------
(* sendEncoded.                                                            *)

\* What clearSendPriorityQueue leaves fits.
LEMMA ClearFits ==
    ASSUME Inv
    PROVE  Clear(high) \in Seq(All) /\ Len(Clear(high)) \in Nat /\ Len(Clear(high)) <= MaxHigh
<1>1. high \in Seq(All) /\ Len(high) <= MaxHigh
  BY DEF Inv, Shape, QueuesBounded
<1>2. Clear(high) \in Seq(All) /\ Len(Clear(high)) <= Len(high)
  BY <1>1, ClearProperties
<1>3. Len(high) \in Nat /\ Len(Clear(high)) \in Nat
  BY <1>1, <1>2, LenProperties
<1> QED
  BY <1>1, <1>2, <1>3, QueueAssumption

\* A new message that does not enter a queue leaves the queued ones where they are.
LEMMA NewKeepsQueued ==
    ASSUME Inv, NEW m \in All, st[m] \in {"new", "writing", "failing", "slow"},
           st'[m] \notin {"new", "queued"},
           \A k \in All : k # m => st'[k] = st[k], UNCHANGED <<medium, low, task, held>>
    PROVE  /\ Lists(medium, QueuedOf("Medium"))' /\ Lists(low, QueuedOf("Low"))'
           /\ TaskInv'
<1>1. QueuedOf("Medium")' = QueuedOf("Medium") /\ QueuedOf("Low")' = QueuedOf("Low")
  BY DEF QueuedOf, All
<1>2. TaskInv'
  <2>1. held \in Msgs => held \in All
    BY DEF All
  <2> QED
    BY <2>1 DEF Inv, TaskInv
<1> QED
  BY <1>1, <1>2 DEF Inv, PlaceInv

\* disconnectPeer fails the writes of the stream and wakes who waits for one.
LEMMA DisconnectKeeps ==
    ASSUME Inv, stopping = "no", NEW m \in All, st[m] = "new",
           Disconnect([st EXCEPT ![m] = "lost"]), high' \in Seq(All), Len(high') <= MaxHigh,
           UNCHANGED <<medium, low, taskVars>>
    PROVE  Inv'
<1>0. st \in [All -> States] /\ stopping' = "no" /\ wire' = wire /\ loop' = loop
      /\ UNCHANGED <<task, held>>
  BY DEF Inv, Shape, Disconnect, taskVars
<1>1. /\ st' \in [All -> States] /\ Slow' = Slow
      /\ \A k \in All : st'[k] = "queued" <=> st[k] = "queued"
      /\ \A k \in All : st'[k] = "new" => st[k] = "new"
  <2>1. CASE st' = [st EXCEPT ![m] = "lost"]
    BY <1>0, <2>1 DEF Slow, States
  <2>2. CASE st' = Failing([st EXCEPT ![m] = "lost"])
    BY <1>0, <2>2 DEF Slow, States, Failing
  <2> QED
    BY <2>1, <2>2 DEF Disconnect
<1>2. Line' = Line /\ woken' \in Seq(All) /\ waiting' \in Seq(All)
  <2>1. CASE stream = "nil"
    BY <2>1, LineWakes DEF Inv, Disconnect, Complete
  <2>2. CASE stream # "nil"
    BY <2>2 DEF Inv, Shape, Disconnect, Line
  <2> QED
    BY <2>1, <2>2
<1>3. stream' \in {"nil", "open", "closed"} /\ (stream' = "open" => stream = "open")
  BY DEF Inv, Shape, Disconnect
<1>4. Shape'
  BY <1>0, <1>1, <1>2, <1>3 DEF Inv, Shape
<1>5. PlaceInv'
  <2>1. QueuedOf("Medium")' = QueuedOf("Medium") /\ QueuedOf("Low")' = QueuedOf("Low")
    BY <1>0, <1>1 DEF QueuedOf, All
  <2> QED
    BY <1>1, <1>2, <2>1 DEF Inv, PlaceInv
<1>6. TaskInv'
  <2>1. held \in Msgs => held \in All
    BY DEF All
  <2> QED
    BY <1>0, <1>1, <2>1 DEF Inv, TaskInv
<1>7. HelloInv' /\ QueuesBounded' /\ QuietInv'
  BY <1>0, <1>1, <1>3 DEF Inv, HelloInv, HelloFirst, QueuesBounded, QuietInv, StoppedIsQuiet
<1> QED
  BY <1>4, <1>5, <1>6, <1>7 DEF Inv

\* A message that is sent at once.
LEMMA SendHighKeeps ==
    ASSUME Inv, ~stopped, NEW m \in Msgs, st[m] = "new", SendHigh(m)
    PROVE  Inv'
<1> DEFINE q == Clear(high)
<1>0. q \in Seq(All) /\ Len(q) \in Nat /\ Len(q) <= MaxHigh /\ m \in All /\ stopping = "no"
  BY ClearFits DEF All, Inv, QuietInv
<1>1. CASE RoomIn(q, MaxHigh)
  <2>1. /\ SendMsg(m) /\ high' = (IF st'[m] = "lost" THEN q ELSE Append(q, m))
        /\ UNCHANGED <<medium, low, taskVars, stream, connected, woken, lifeVars>>
    BY <1>1 DEF SendHigh
  <2>2. /\ st' \in [All -> States] /\ st'[m] \in {"writing", "slow", "lost"}
        /\ \A k \in All : k # m => st'[k] = st[k]
        /\ waiting' \in Seq(All) /\ wire' \in Seq(All)
        /\ Lists(Line, Slow)' /\ HelloInv'
    BY <1>0, <2>1, SendKeeps DEF Inv, PlaceInv
  <2>3. high' \in Seq(All) /\ Len(high') <= MaxHigh
    BY <1>0, <1>1, <2>1, AppendProperties, QueueAssumption DEF RoomIn
  <2>4. /\ Lists(medium, QueuedOf("Medium"))' /\ Lists(low, QueuedOf("Low"))'
        /\ TaskInv'
    BY <1>0, <2>1, <2>2, NewKeepsQueued DEF taskVars
  <2>5. Shape' /\ QueuesBounded' /\ QuietInv'
    BY <1>0, <2>1, <2>2, <2>3
       DEF Inv, Shape, QueuesBounded, QuietInv, StoppedIsQuiet, lifeVars
  <2> QED
    BY <2>2, <2>4, <2>5 DEF Inv, PlaceInv
<1>2. CASE ~RoomIn(q, MaxHigh)
  <2>1. /\ Disconnect([st EXCEPT ![m] = "lost"]) /\ high' = q
        /\ UNCHANGED <<medium, low, taskVars>>
    BY <1>2 DEF SendHigh
  <2> QED
    BY ZenonT(30), <1>0, <2>1, DisconnectKeeps
<1> QED
  BY <1>1, <1>2

\* A message that enters a queue enters its end.
LEMMA EnqueueKeeps ==
    ASSUME Inv, ~stopped, NEW m \in Msgs, st[m] = "new", Enqueue(m)
    PROVE  Inv'
<1> DEFINE fits == IF Prio[m] = "Medium" THEN RoomIn(medium, MaxMedium) ELSE RoomIn(low, MaxLow)
<1>0. /\ m \in All /\ stopping = "no" /\ st \in [All -> States] /\ Prio[m] \in {"Medium", "Low"}
      /\ medium \in Seq(Msgs) /\ low \in Seq(Msgs)
      /\ Len(medium) \in Nat /\ Len(low) \in Nat
      /\ high' \in Seq(All) /\ Len(high') <= MaxHigh
  BY ClearFits, LenProperties, QueueAssumption DEF All, Inv, Shape, QuietInv, Enqueue
<1>1. /\ st' = [st EXCEPT ![m] = IF fits THEN "queued" ELSE "lost"]
      /\ medium' = IF fits /\ Prio[m] = "Medium" THEN Append(medium, m) ELSE medium
      /\ low' = IF fits /\ Prio[m] = "Low" THEN Append(low, m) ELSE low
      /\ UNCHANGED <<taskVars, streamVars, lifeVars>>
  BY DEF Enqueue
<1>2. m # held
  BY QueueAssumption DEF Inv, TaskInv, QueueAssumption
<1>3. /\ medium' \in Seq(Msgs) /\ Len(medium') <= MaxMedium
      /\ low' \in Seq(Msgs) /\ Len(low') <= MaxLow
  BY <1>0, <1>1, AppendProperties, QueueAssumption DEF RoomIn, Inv, QueuesBounded
<1>4. /\ QueuedOf("Medium")' = IF fits /\ Prio[m] = "Medium" THEN QueuedOf("Medium") \cup {m}
                              ELSE QueuedOf("Medium")
      /\ QueuedOf("Low")' = IF fits /\ Prio[m] = "Low" THEN QueuedOf("Low") \cup {m}
                              ELSE QueuedOf("Low")
      /\ m \notin QueuedOf("Medium") /\ m \notin QueuedOf("Low")
  BY <1>0, <1>1, <1>2 DEF QueuedOf, All, taskVars
<1>5. Lists(medium, QueuedOf("Medium"))' /\ Lists(low, QueuedOf("Low"))'
  BY <1>0, <1>1, <1>4, ListsAppend DEF Inv, PlaceInv
<1>6. Slow' = Slow /\ Line' = Line
  BY <1>0, <1>1 DEF Slow, Line, streamVars
<1>7. TaskInv'
  <2>1. held \in Msgs => held \in All
    BY DEF All
  <2> QED
    BY <1>0, <1>1, <1>2, <2>1 DEF Inv, TaskInv, taskVars
<1>8. Shape'
  BY <1>0, <1>1, <1>3 DEF Inv, Shape, States, streamVars, lifeVars
<1>9. HelloInv' /\ QueuesBounded' /\ QuietInv'
  BY <1>0, <1>1, <1>3, <1>6
     DEF Inv, HelloInv, HelloFirst, QueuesBounded, QuietInv, StoppedIsQuiet, streamVars, lifeVars
<1> QED
  BY <1>5, <1>6, <1>7, <1>8, <1>9 DEF Inv, PlaceInv

\* sendEncoded keeps the invariant.
LEMMA SendEncodedKeeps ==
    ASSUME Inv, NEW m \in Msgs, SendEncoded(m)
    PROVE  Inv'
<1>0. st[m] = "new" /\ m \in All /\ st \in [All -> States]
  BY DEF SendEncoded, All, Inv, Shape
<1>1. CASE stopped
  <2>1. /\ st' = [st EXCEPT ![m] = "lost"]
        /\ UNCHANGED <<queues, taskVars, streamVars, lifeVars>>
    BY <1>1 DEF SendEncoded
  <2>2. Slow' = Slow /\ Line' = Line
    BY <1>0, <2>1 DEF Slow, Line, streamVars
  <2>3. /\ Lists(medium, QueuedOf("Medium"))' /\ Lists(low, QueuedOf("Low"))'
        /\ TaskInv'
    BY <1>0, <2>1, NewKeepsQueued DEF taskVars, queues
  <2>4. Shape' /\ HelloInv' /\ QueuesBounded'
    BY <1>0, <2>1, <2>2 DEF Inv, Shape, States, HelloInv, HelloFirst, QueuesBounded,
                      queues, streamVars, lifeVars
  <2>5. QuietInv'
    BY <1>0, <2>1 DEF Inv, QuietInv, StoppedIsQuiet, taskVars, streamVars, lifeVars
  <2> QED
    BY <2>2, <2>3, <2>4, <2>5 DEF Inv, PlaceInv
<1>2. CASE ~stopped
  BY <1>0, <1>2, SendHighKeeps, EnqueueKeeps DEF SendEncoded
<1> QED
  BY <1>1, <1>2

-----------------------------------------------------------------------------
(* sendNonHighPriorityTask.                                                *)

\* The task with a message it took from its queue.
LEMMA WaitOrSendKeeps ==
    ASSUME Inv, NEW m \in Msgs, st[m] = "queued", task \in {"idle", "wait"}, held \in {None, m},
           WaitOrSend(m), UNCHANGED lifeVars,
           medium' \in Seq(Msgs), Len(medium') <= MaxMedium, Lists(medium', QueuedOf("Medium") \ {m}),
           low' \in Seq(Msgs), Len(low') <= MaxLow, Lists(low', QueuedOf("Low") \ {m})
    PROVE  Inv'
<1> DEFINE q == Clear(high)
<1>0. /\ q \in Seq(All) /\ Len(q) <= MaxHigh /\ m \in All /\ stopping = "no"
      /\ st \in [All -> States] /\ None \notin Msgs
  BY ClearFits, QueueAssumption DEF QueueAssumption, All, Inv, Shape, QuietInv
<1>1. high' = q /\ held' = m /\ UNCHANGED <<stream, connected, woken>>
  BY DEF WaitOrSend
<1>2. ASSUME st' \in [All -> States], \A k \in All : k # m => st'[k] = st[k],
             waiting' \in Seq(All), wire' \in Seq(All), Lists(Line, Slow)', HelloInv',
             \/ task' = "wait" /\ st'[m] = "queued"
             \/ task' = "send" /\ st'[m] \notin {"new", "queued"}
      PROVE  Inv'
  <2>1. QueuedOf("Medium")' = QueuedOf("Medium") \ {m} /\ QueuedOf("Low")' = QueuedOf("Low") \ {m}
    BY <1>0, <1>1, <1>2 DEF QueuedOf, All
  <2>2. PlaceInv'
    BY Zenon, <1>2, <2>1 DEF PlaceInv
  <2>3. TaskInv'
    BY <1>1, <1>2 DEF TaskInv
  <2>4. Shape' /\ QueuesBounded' /\ QuietInv'
    BY <1>0, <1>1, <1>2
       DEF Inv, Shape, QueuesBounded, QuietInv, StoppedIsQuiet, lifeVars
  <2> QED
    BY <1>2, <2>2, <2>3, <2>4 DEF Inv
<1>3. CASE q # <<>>
  <2>1. task' = "wait" /\ UNCHANGED <<st, wire, waiting>>
    BY <1>3 DEF WaitOrSend
  <2>2. Slow' = Slow /\ Line' = Line /\ HelloInv'
    BY <1>1, <2>1 DEF Slow, Line, Inv, HelloInv, HelloFirst
  <2> QED
    BY <1>0, <1>2, <2>1, <2>2 DEF Inv, Shape, PlaceInv
<1>4. CASE q = <<>>
  <2>1. task' = "send" /\ SendMsg(m)
    BY <1>4 DEF WaitOrSend
  <2>2. /\ st' \in [All -> States] /\ st'[m] \in {"writing", "slow", "lost"}
        /\ \A k \in All : k # m => st'[k] = st[k]
        /\ waiting' \in Seq(All) /\ wire' \in Seq(All)
        /\ Lists(Line, Slow)' /\ HelloInv'
    BY <1>0, <1>1, <2>1, SendKeeps DEF Inv, PlaceInv
  <2> QED
    BY <1>2, <2>1, <2>2
<1> QED
  BY <1>3, <1>4

\* The task's own steps.
LEMMA TaskKeeps ==
    ASSUME Inv, TaskTakes \/ TaskSleeps \/ TaskRoused \/ TaskWakes \/ TaskDone
    PROVE  Inv'
<1>0. /\ medium \in Seq(Msgs) /\ Len(medium) \in Nat /\ Len(medium) <= MaxMedium
      /\ low \in Seq(Msgs) /\ Len(low) \in Nat /\ Len(low) <= MaxLow
      /\ Lists(medium, QueuedOf("Medium")) /\ Lists(low, QueuedOf("Low"))
      /\ MaxMedium \in Nat /\ MaxLow \in Nat
  BY LenProperties, QueueAssumption DEF Inv, Shape, QueuesBounded, PlaceInv, QueueAssumption
<1>1. CASE TaskTakes
  <2>0. task = "idle" /\ held = None /\ UNCHANGED lifeVars
    BY <1>1 DEF TaskTakes, Inv, TaskInv
  <2>1. CASE /\ medium # <<>>
             /\ medium' = Tail(medium) /\ UNCHANGED low
             /\ WaitOrSend(Head(medium))
    <3>1. /\ Head(medium) \in QueuedOf("Medium") /\ Tail(medium) \in Seq(Msgs)
          /\ Lists(Tail(medium), QueuedOf("Medium") \ {Head(medium)})
      BY <1>0, <2>1, ListsTail
    <3>2. Len(Tail(medium)) <= MaxMedium
      BY <1>0, <2>1, HeadTailProperties
    <3>3. /\ Head(medium) \in Msgs /\ st[Head(medium)] = "queued"
          /\ QueuedOf("Low") \ {Head(medium)} = QueuedOf("Low")
      BY <3>1 DEF QueuedOf
    <3> QED
      BY <1>0, <2>0, <2>1, <3>1, <3>2, <3>3, WaitOrSendKeeps
  <2>2. CASE /\ medium = <<>> /\ low # <<>>
             /\ low' = Tail(low) /\ UNCHANGED medium
             /\ WaitOrSend(Head(low))
    <3>1. /\ Head(low) \in QueuedOf("Low") /\ Tail(low) \in Seq(Msgs)
          /\ Lists(Tail(low), QueuedOf("Low") \ {Head(low)})
      BY <1>0, <2>2, ListsTail
    <3>2. Len(Tail(low)) <= MaxLow
      BY <1>0, <2>2, HeadTailProperties
    <3>3. /\ Head(low) \in Msgs /\ st[Head(low)] = "queued"
          /\ QueuedOf("Medium") \ {Head(low)} = QueuedOf("Medium")
      BY <3>1 DEF QueuedOf
    <3> QED
      BY <1>0, <2>0, <2>2, <3>1, <3>2, <3>3, WaitOrSendKeeps
  <2> QED
    BY <1>1, <2>1, <2>2 DEF TaskTakes
<1>2. CASE TaskWakes
  <2>1. /\ task = "wait" /\ WaitOrSend(held) /\ UNCHANGED <<medium, low, lifeVars>>
        /\ held \in Msgs /\ st[held] = "queued"
    BY <1>2 DEF TaskWakes, Inv, TaskInv
  <2>2. QueuedOf("Medium") \ {held} = QueuedOf("Medium") /\ QueuedOf("Low") \ {held} = QueuedOf("Low")
    BY DEF QueuedOf
  <2> QED
    BY <1>0, <2>1, <2>2, WaitOrSendKeeps
<1>3. CASE TaskDone
  <2>1. /\ task = "send" /\ Finished(held) /\ task' = "idle" /\ held' = None
        /\ UNCHANGED <<st, queues, streamVars, lifeVars>>
        /\ None \notin Msgs
    BY <1>3, QueueAssumption DEF TaskDone, QueueAssumption
  <2>2. QueuedOf("Medium")' = QueuedOf("Medium") /\ QueuedOf("Low")' = QueuedOf("Low")
    BY <2>1 DEF QueuedOf, Finished
  <2>3. Slow' = Slow /\ Line' = Line
    BY <2>1 DEF Slow, Line, streamVars
  <2>4. PlaceInv' /\ TaskInv'
    BY <2>1, <2>2, <2>3 DEF Inv, PlaceInv, TaskInv, queues
  <2>5. Shape' /\ HelloInv' /\ QueuesBounded' /\ QuietInv'
    BY <2>1, <2>3 DEF Inv, Shape, HelloInv, HelloFirst, QueuesBounded, QuietInv, StoppedIsQuiet,
                queues, streamVars, lifeVars
  <2> QED
    BY <2>4, <2>5 DEF Inv
<1>4. CASE TaskSleeps \/ TaskRoused
  <2>1. /\ task \in {"idle", "asleep"} /\ task' \in {"idle", "asleep"}
        /\ UNCHANGED <<st, high, medium, low, held, streamVars, lifeVars>>
    BY <1>4 DEF TaskSleeps, TaskRoused, queues
  <2>2. /\ QueuedOf("Medium")' = QueuedOf("Medium") /\ QueuedOf("Low")' = QueuedOf("Low")
        /\ Slow' = Slow /\ Line' = Line
    BY <2>1 DEF QueuedOf, Slow, Line, streamVars
  <2>3. PlaceInv' /\ TaskInv'
    BY <2>1, <2>2 DEF Inv, PlaceInv, TaskInv
  <2>4. Shape' /\ HelloInv' /\ QueuesBounded' /\ QuietInv'
    BY <2>1, <2>2 DEF Inv, Shape, HelloInv, HelloFirst, QueuesBounded, QuietInv, StoppedIsQuiet,
                streamVars, lifeVars
  <2> QED
    BY <2>3, <2>4 DEF Inv
<1> QED
  BY <1>1, <1>2, <1>3, <1>4

-----------------------------------------------------------------------------
(* Sends under way.                                                        *)

\* A write ends.
LEMMA WriteEnds ==
    ASSUME Inv, NEW m \in All, st[m] \in {"writing", "failing"}, NEW x \in {"sent", "lost"},
           st' = [st EXCEPT ![m] = x], UNCHANGED <<queues, taskVars, streamVars, lifeVars>>
    PROVE  Inv'
<1>0. st \in [All -> States] /\ stopping = "no"
  BY ZenonT(30) DEF Inv, Shape, QuietInv
<1>1. Slow' = Slow /\ Line' = Line
  BY <1>0 DEF Slow, Line, streamVars
<1>2. /\ Lists(medium, QueuedOf("Medium"))' /\ Lists(low, QueuedOf("Low"))'
      /\ TaskInv'
  BY <1>0, NewKeepsQueued DEF taskVars, queues
<1>3. Shape' /\ HelloInv' /\ QueuesBounded' /\ QuietInv'
  BY <1>0, <1>1 DEF Inv, Shape, States, HelloInv, HelloFirst, QueuesBounded, QuietInv, StoppedIsQuiet,
              queues, streamVars, lifeVars
<1> QED
  BY <1>1, <1>2, <1>3 DEF Inv, PlaceInv

\* A send that waited for the stream goes on.
LEMMA WakeSlowKeeps ==
    ASSUME Inv, WakeSlow
    PROVE  Inv'
<1> DEFINE m == Head(woken)
<1>0. /\ st \in [All -> States] /\ stopping = "no" /\ woken # <<>> /\ woken' = Tail(woken)
      /\ UNCHANGED <<queues, taskVars, stream, connected, waiting, lifeVars>>
  BY DEF Inv, Shape, QuietInv, WakeSlow
<1>1. m \in All
  BY <1>0, HeadTailProperties DEF Inv, Shape
<1>2. PICK x \in {"writing", "lost"} :
        /\ st' = [st EXCEPT ![m] = x]
        /\ wire' = IF x = "writing" THEN Append(wire, m) ELSE wire
        /\ x = "writing" => stream = "open"
  BY DEF WakeSlow
<1>3. \A k \in All : st'[k] = IF k = m THEN x ELSE st[k]
  BY <1>0, <1>1, <1>2
<1>4. x \in States \ {"slow"}
  BY DEF States
<1>5. m \in Slow /\ woken' \in Seq(All) /\ Lists(Line, Slow)'
  BY <1>0, <1>3, <1>4, LineMoves DEF Inv, PlaceInv
<1>6. /\ Lists(medium, QueuedOf("Medium"))' /\ Lists(low, QueuedOf("Low"))'
      /\ TaskInv'
  BY <1>0, <1>1, <1>3, <1>5, NewKeepsQueued DEF taskVars, queues, Slow
<1>7. wire' \in Seq(All) /\ HelloInv'
  <2>0. m \in Msgs /\ Slow' = Slow \ {m}
    BY <1>0, <1>1, <1>3, <1>4, <1>5 DEF Inv, HelloInv, Slow, All
  <2>1. CASE x = "lost"
    BY <1>0, <1>2, <2>0, <2>1 DEF Inv, Shape, HelloInv, HelloFirst
  <2>2. CASE x = "writing"
    <3>1. wire' \in Seq(All) /\ HelloFirst'
      BY <1>2, <2>0, <2>2, HelloStays DEF Inv, Shape, HelloInv
    <3> QED
      BY <2>0, <3>1 DEF Inv, HelloInv
  <2> QED
    BY <2>1, <2>2
<1>8. Shape'
  BY <1>0, <1>1, <1>2, <1>4, <1>5, <1>7 DEF Inv, Shape, queues, lifeVars
<1>9. QueuesBounded' /\ QuietInv'
  BY <1>0 DEF Inv, QueuesBounded, QuietInv, StoppedIsQuiet, queues, lifeVars
<1> QED
  BY <1>5, <1>6, <1>7, <1>8, <1>9 DEF Inv, PlaceInv

\* The stream closes under its writes.
LEMMA StreamDiesKeeps ==
    ASSUME Inv, StreamDies
    PROVE  Inv'
<1>0. /\ st \in [All -> States] /\ stream' = "closed"
      /\ UNCHANGED <<queues, taskVars, wire, connected, waiting, woken, lifeVars>>
  BY DEF Inv, Shape, StreamDies
<1>1. \A k \in All : st'[k] = IF st[k] = "writing" THEN "failing" ELSE st[k]
  BY <1>0 DEF StreamDies, Failing
<1>2. st' \in [All -> States]
  BY <1>0 DEF StreamDies, Failing, States
<1>3. Slow' = Slow /\ Line' = Line
  BY <1>0, <1>1 DEF Slow, Line
<1>4. QueuedOf("Medium")' = QueuedOf("Medium") /\ QueuedOf("Low")' = QueuedOf("Low")
  BY <1>0, <1>1 DEF QueuedOf, All, taskVars
<1>5. TaskInv'
  <2>1. held \in Msgs => held \in All
    BY DEF All
  <2> QED
    BY <1>0, <1>1, <2>1 DEF Inv, TaskInv, taskVars
<1>6. Shape' /\ HelloInv' /\ QueuesBounded'
  BY <1>0, <1>2, <1>3 DEF Inv, Shape, HelloInv, HelloFirst, QueuesBounded, queues, lifeVars
<1>7. QuietInv'
  BY <1>0, <1>1 DEF Inv, QuietInv, StoppedIsQuiet, taskVars, lifeVars
<1> QED
  BY <1>0, <1>3, <1>4, <1>5, <1>6, <1>7 DEF Inv, PlaceInv, queues

-----------------------------------------------------------------------------
(* The stream comes and goes.                                              *)

\* Steps that leave the messages as they are, and complete connectedFut at most.
LEMMA LoopKeeps ==
    ASSUME Inv, UNCHANGED <<st, queues, taskVars, wire, stopped>>,
           stream' \in {"nil", "open", "closed"}, stream' = "open" => stream = "open",
           loop' \in {"off", "dial", "read", "close", "over"},
           \/ UNCHANGED <<waiting, woken>>
           \/ woken' = woken \o waiting /\ waiting' = <<>>,
           UNCHANGED stopping, stopping # "no" => loop' \in {"off", "close", "over"}
    PROVE  Inv'
<1>1. Line' = Line /\ woken' \in Seq(All) /\ waiting' \in Seq(All)
  <2>1. CASE UNCHANGED <<waiting, woken>>
    BY <2>1 DEF Inv, Shape, Line
  <2>2. CASE woken' = woken \o waiting /\ waiting' = <<>>
    BY <2>2, LineWakes DEF Inv
  <2> QED
    BY <2>1, <2>2
<1>2. Slow' = Slow /\ QueuedOf("Medium")' = QueuedOf("Medium") /\ QueuedOf("Low")' = QueuedOf("Low")
  BY DEF Slow, QueuedOf, taskVars
<1>3. PlaceInv' /\ TaskInv'
  BY <1>1, <1>2 DEF Inv, PlaceInv, TaskInv, queues, taskVars
<1>4. Shape' /\ HelloInv' /\ QueuesBounded'
  BY <1>1, <1>2 DEF Inv, Shape, HelloInv, HelloFirst, QueuesBounded, queues
<1>5. stopping # "no" => waiting' = <<>> /\ woken' = <<>>
  <2>1. <<>> \o <<>> = <<>>
    BY EmptySeq, ConcatEmptySeq
  <2> QED
    BY <2>1 DEF Inv, QuietInv
<1>6. QuietInv'
  BY <1>5 DEF Inv, QuietInv, StoppedIsQuiet, taskVars
<1> QED
  BY <1>3, <1>4, <1>6 DEF Inv

\* A new stream: the hello, and the sends that waited.
LEMMA OpenedKeeps ==
    ASSUME Inv, loop = "dial", Opened, Greet
    PROVE  Inv'
<1>1. PICK h \in Hellos :
        /\ st[h] = "new"
        /\ loop' = "read"
        /\ woken' = woken \o waiting /\ waiting' = <<>>
        /\ IF RoomIn(Clear(high), MaxHigh)
           THEN /\ stream' = "open" /\ wire' = <<h>>
                /\ st' = [st EXCEPT ![h] = "writing"] /\ high' = Append(Clear(high), h)
           ELSE /\ stream' = "closed" /\ wire' = <<>>
                /\ st' = [st EXCEPT ![h] = "lost"] /\ high' = Clear(high)
        /\ UNCHANGED <<medium, low, taskVars, stopping>>
  BY DEF Opened, Greet
<1>0. /\ h \in All /\ st \in [All -> States] /\ stopping = "no"
      /\ Clear(high) \in Seq(All) /\ Len(Clear(high)) \in Nat /\ Len(Clear(high)) <= MaxHigh
  BY ClearFits DEF All, Inv, Shape, QuietInv
<1>2. /\ st' \in [All -> States] /\ st'[h] \in {"writing", "lost"}
      /\ \A k \in All : k # h => st'[k] = st[k]
  BY <1>0, <1>1 DEF States
<1>3. Slow' = Slow
  BY <1>0, <1>1, <1>2 DEF Slow
<1>4. Line' = Line /\ woken' \in Seq(All) /\ waiting' \in Seq(All)
  BY <1>1, LineWakes DEF Inv
<1>5. /\ Lists(medium, QueuedOf("Medium"))' /\ Lists(low, QueuedOf("Low"))'
      /\ TaskInv'
  BY <1>0, <1>1, <1>2, NewKeepsQueued DEF taskVars
<1>6. high' \in Seq(All) /\ Len(high') <= MaxHigh
  <2>1. CASE RoomIn(Clear(high), MaxHigh)
    <3>1. high' = Append(Clear(high), h) /\ Len(Clear(high)) < MaxHigh
      BY <1>1, <2>1 DEF RoomIn
    <3>2. high' \in Seq(All) /\ Len(high') = Len(Clear(high)) + 1
      BY <1>0, <3>1, AppendProperties
    <3> QED
      BY <1>0, <3>1, <3>2, QueueAssumption
  <2>2. CASE ~RoomIn(Clear(high), MaxHigh)
    BY <1>0, <1>1, <2>2
  <2> QED
    BY <2>1, <2>2
<1>7. wire' \in Seq(All) /\ HelloInv'
  <2>1. CASE wire' = <<h>>
    BY <1>0, <1>3, <2>1 DEF Inv, HelloInv, HelloFirst
  <2>2. CASE wire' = <<>>
    BY <1>3, <2>2 DEF Inv, HelloInv, HelloFirst
  <2> QED
    BY <1>1, <2>1, <2>2
<1>8. Shape'
  BY <1>0, <1>1, <1>2, <1>4, <1>6, <1>7 DEF Inv, Shape
<1>9. QueuesBounded' /\ QuietInv'
  BY <1>0, <1>1, <1>6 DEF Inv, QueuesBounded, QuietInv, StoppedIsQuiet
<1> QED
  BY <1>3, <1>4, <1>5, <1>7, <1>8, <1>9 DEF Inv, PlaceInv

\* A new stream without one.
LEMMA OpenedQuietly ==
    ASSUME Inv, loop = "dial", Opened, GreetNot
    PROVE  Inv'
<1>0. /\ loop' = "read" /\ stream' = "open" /\ wire' = <<>>
      /\ woken' = woken \o waiting /\ waiting' = <<>>
      /\ UNCHANGED <<st, high, medium, low, taskVars, stopped, stopping>>
      /\ stopping = "no"
  BY DEF Opened, GreetNot, Inv, QuietInv
<1>1. Line' = Line /\ woken' \in Seq(All) /\ waiting' \in Seq(All)
  BY <1>0, LineWakes DEF Inv
<1>2. Slow' = Slow /\ QueuedOf("Medium")' = QueuedOf("Medium") /\ QueuedOf("Low")' = QueuedOf("Low")
  BY <1>0 DEF Slow, QueuedOf, taskVars
<1>3. PlaceInv' /\ TaskInv'
  BY <1>0, <1>1, <1>2 DEF Inv, PlaceInv, TaskInv, taskVars
<1>4. Shape' /\ HelloInv' /\ QueuesBounded'
  BY <1>0, <1>1, <1>2, EmptySeq DEF Inv, Shape, HelloInv, HelloFirst, QueuesBounded
<1>5. QuietInv'
  BY <1>0 DEF Inv, QuietInv, StoppedIsQuiet
<1> QED
  BY <1>3, <1>4, <1>5 DEF Inv

-----------------------------------------------------------------------------
(* stopTasks.                                                              *)

\* Nothing is listed by the empty sequence.
LEMMA ListsNothing == Lists(<<>>, {})
BY DEF Lists

\* The send task is cancelled.
LEMMA StopTasksKeeps ==
    ASSUME Inv, StopTasks
    PROVE  Inv'
<1>0. /\ st \in [All -> States] /\ stopping = "no" /\ stopping' = "waiting" /\ stopped' = TRUE
      /\ task' = "off" /\ held' = None /\ waiting' = <<>> /\ woken' = <<>>
      /\ loop' = IF loop \in {"dial", "read"} THEN "close" ELSE loop
      /\ stream' = IF stream = "open" THEN "closed" ELSE stream
      /\ UNCHANGED <<queues, wire>>
      /\ st' = [m \in All |->
              IF st[m] \in {"slow", "writing", "failing"} \/ m = held THEN "lost" ELSE st[m]]
      /\ None \notin Msgs
  BY QueueAssumption DEF Inv, Shape, StopTasks, QueueAssumption
<1>1. /\ st' \in [All -> States] /\ \A m \in All : st'[m] \in {"new", "queued", "sent", "lost"}
      /\ Slow' = {}
  BY <1>0 DEF States, Slow
<1>2. Line' = <<>> /\ waiting' \in Seq(All) /\ woken' \in Seq(All)
  BY <1>0, EmptySeq, ConcatEmptySeq DEF Line
<1>3. QueuedOf("Medium")' = QueuedOf("Medium") /\ QueuedOf("Low")' = QueuedOf("Low")
  BY <1>0 DEF QueuedOf, All
<1>4. PlaceInv'
  BY <1>0, <1>1, <1>2, <1>3, ListsNothing DEF Inv, PlaceInv, queues
<1>5. TaskInv' /\ HelloInv' /\ QueuesBounded'
  BY <1>0, <1>1 DEF Inv, TaskInv, HelloInv, HelloFirst, QueuesBounded, queues
<1>6. Shape'
  BY <1>0, <1>1, <1>2 DEF Inv, Shape, queues
<1>7. QuietInv'
  BY <1>0, <1>1 DEF Inv, Shape, QuietInv, StoppedIsQuiet
<1> QED
  BY <1>4, <1>5, <1>6, <1>7 DEF Inv

\* The queues are cleared after it.
LEMMA StopTasksDoneKeeps ==
    ASSUME Inv, StopTasksDone
    PROVE  Inv'
<1>0. /\ st \in [All -> States] /\ stopping = "waiting" /\ stopping' = "done"
      /\ high' = <<>> /\ medium' = <<>> /\ low' = <<>>
      /\ st' = [m \in All |-> IF st[m] = "queued" THEN "lost" ELSE st[m]]
      /\ UNCHANGED <<taskVars, streamVars, loop, disc, stopped>>
  BY DEF Inv, Shape, StopTasksDone
<1>1. /\ st' \in [All -> States] /\ \A m \in All : st'[m] \in {"new", "sent", "lost"}
  BY <1>0 DEF States, Inv, QuietInv
<1>2. Slow' = Slow /\ Line' = Line
  BY <1>0 DEF Slow, Line, streamVars
<1>3. QueuedOf("Medium")' = {} /\ QueuedOf("Low")' = {}
  BY <1>1 DEF QueuedOf, All
<1>4. PlaceInv'
  BY ZenonT(30), <1>0, <1>2, <1>3, ListsNothing DEF Inv, PlaceInv
<1>5. TaskInv' /\ HelloInv'
  <2>1. task = "off" /\ UNCHANGED <<task, held, stream, wire>>
    BY <1>0 DEF Inv, QuietInv, taskVars, streamVars
  <2> QED
    BY <1>2, <2>1 DEF Inv, TaskInv, HelloInv, HelloFirst
<1>6. QueuesBounded'
  BY <1>0, QueueAssumption DEF QueuesBounded
<1>7. Shape'
  BY <1>0, <1>1, EmptySeq DEF Inv, Shape, streamVars
<1>8. QuietInv'
  BY <1>0, <1>1 DEF Inv, QuietInv, StoppedIsQuiet, taskVars, streamVars
<1> QED
  BY <1>4, <1>5, <1>6, <1>7, <1>8 DEF Inv

-----------------------------------------------------------------------------
(* The theorems.                                                           *)

\* A peer starts with empty queues.
LEMMA InvInit == Init => Inv
<1> SUFFICES ASSUME Init PROVE Inv
  OBVIOUS
<1>1. /\ st = [m \in All |-> "new"] /\ held = None /\ task = "idle"
      /\ high = <<>> /\ medium = <<>> /\ low = <<>> /\ wire = <<>>
      /\ waiting = <<>> /\ woken = <<>> /\ stream = "nil" /\ loop = "off" /\ stopping = "no"
  BY DEF Init
<1>2. Line = <<>> /\ Slow = {} /\ QueuedOf("Medium") = {} /\ QueuedOf("Low") = {}
  BY <1>1, EmptySeq, ConcatEmptySeq DEF Line, Slow, QueuedOf, All
<1>3. PlaceInv
  BY ZenonT(30), <1>1, <1>2, ListsNothing DEF PlaceInv
<1>4. Shape
  BY <1>1, EmptySeq DEF Shape, States
<1>5. TaskInv /\ HelloInv /\ QuietInv
  BY <1>1, <1>2 DEF TaskInv, HelloInv, HelloFirst, QuietInv, StoppedIsQuiet
<1>6. QueuesBounded
  BY <1>1, QueueAssumption DEF QueuesBounded
<1> QED
  BY <1>3, <1>4, <1>5, <1>6 DEF Inv

\* Every step keeps the invariant.
LEMMA InvNext == Inv /\ [Next]_vars => Inv'
<1> SUFFICES ASSUME Inv, [Next]_vars PROVE Inv'
  OBVIOUS
<1>1. ASSUME NEW m \in Msgs, SendEncoded(m) PROVE Inv'
  BY <1>1, SendEncodedKeeps
<1>2. ASSUME NEW m \in All, WriteFails(m) PROVE Inv'
  BY Zenon, <1>2, WriteEnds DEF WriteFails
<1>3. CASE DiscClosed
  BY <1>3, LoopKeeps DEF DiscClosed, Complete, Inv, Shape, QuietInv
<1>4. CASE TaskTakes \/ TaskSleeps \/ TaskRoused \/ TaskWakes \/ TaskDone
  BY <1>4, TaskKeeps
<1>5. CASE WakeSlow
  BY <1>5, WakeSlowKeeps
<1>6. CASE WriteDone
  <2>1. PICK i \in DOMAIN wire : st[wire[i]] = "writing" /\ st' = [st EXCEPT ![wire[i]] = "sent"]
    BY ZenonT(30), <1>6 DEF WriteDone
  <2>2. wire[i] \in All
    BY <2>1, LenProperties, ElementOfSeq DEF Inv, Shape
  <2> QED
    BY Zenon, <1>6, <2>1, <2>2, WriteEnds DEF WriteDone
<1>7. CASE StreamDies
  BY <1>7, StreamDiesKeeps
<1>8. CASE Connect
  BY <1>8, LoopKeeps DEF Connect, FreshFut, Inv, Shape, QuietInv
<1>9. CASE DialOk
  <2>1. CASE stopped
    BY <1>9, <2>1, LoopKeeps DEF DialOk, Inv, Shape, QuietInv, streamVars
  <2>2. CASE ~stopped
    BY <1>9, <2>2, OpenedKeeps, OpenedQuietly DEF DialOk, Opened
  <2> QED
    BY <2>1, <2>2
<1>10. CASE DialFails
  BY <1>10, LoopKeeps DEF DialFails, Complete, Inv, Shape
<1>11. CASE ReadEnds
  BY <1>11, LoopKeeps DEF ReadEnds, Inv, Shape, streamVars
<1>12. CASE LoopCloses
  BY <1>12, LoopKeeps DEF LoopCloses, Inv, Shape, QuietInv
<1>13. CASE StopTasks
  BY <1>13, StopTasksKeeps
<1>14. CASE StopTasksDone
  BY <1>14, StopTasksDoneKeeps
<1>15. CASE UNCHANGED vars
  BY <1>15, LoopKeeps DEF vars, Inv, Shape, QuietInv, queues, taskVars
<1> QED
  BY <1>1, <1>2, <1>3, <1>4, <1>5, <1>6, <1>7, <1>8, <1>9, <1>10, <1>11, <1>12, <1>13, <1>14, <1>15
     DEF Next

\* The sends in the line are those that wait before connectedFut or after it.
LEMMA WellFormedHere == Inv => WellFormed
<1> SUFFICES ASSUME Inv PROVE WellFormed
  OBVIOUS
<1>1. waiting \in Seq(All) /\ woken \in Seq(All)
  BY DEF Inv, Shape
<1>2. /\ Len(waiting) \in Nat /\ DOMAIN waiting = 1 .. Len(waiting)
      /\ Len(woken) \in Nat /\ DOMAIN woken = 1 .. Len(woken)
  BY <1>1, LenProperties
<1>3. Len(Line) = Len(woken) + Len(waiting)
      /\ \A i \in 1 .. Len(woken) + Len(waiting) :
            Line[i] = IF i <= Len(woken) THEN woken[i] ELSE waiting[i - Len(woken)]
  BY <1>1, ConcatProperties DEF Line
<1>4. ASSUME NEW i \in DOMAIN waiting PROVE waiting[i] \in Slow
  <2>1. Len(woken) + i \in 1 .. Len(woken) + Len(waiting) /\ ~(Len(woken) + i <= Len(woken))
        /\ (Len(woken) + i) - Len(woken) = i
    BY <1>2
  <2>2. Line[Len(woken) + i] = waiting[i]
    BY <1>3, <2>1
  <2> QED
    BY <1>3, <2>1, <2>2 DEF Inv, PlaceInv, Lists
<1>5. ASSUME NEW i \in DOMAIN woken PROVE woken[i] \in Slow
  <2>1. i \in 1 .. Len(woken) + Len(waiting) /\ i <= Len(woken)
    BY <1>2
  <2> QED
    BY <1>3, <2>1 DEF Inv, PlaceInv, Lists
<1>6. ASSUME NEW m \in Slow
      PROVE  m \in {waiting[i] : i \in DOMAIN waiting} \cup {woken[i] : i \in DOMAIN woken}
  <2>1. PICK i \in 1 .. Len(woken) + Len(waiting) : Line[i] = m
    BY <1>3 DEF Inv, PlaceInv, Lists
  <2>2. i <= Len(woken) => i \in DOMAIN woken
    BY <1>2
  <2>3. ~(i <= Len(woken)) => i - Len(woken) \in DOMAIN waiting
    BY <1>2
  <2> QED
    BY <1>3, <2>1, <2>2, <2>3
<1>7. Slow = {waiting[i] : i \in DOMAIN waiting} \cup {woken[i] : i \in DOMAIN woken}
  BY <1>4, <1>5, <1>6, Zenon
<1>8. held \in All \cup {None}
  BY DEF Inv, TaskInv, All
<1>9. TypeOK
  BY <1>7, <1>8, Zenon DEF Inv, Shape, TaskInv, States, Slow, TypeOK
<1> QED
  BY <1>9 DEF Inv, HelloInv, QuietInv, WellFormed

\* However messages, dials, dying streams, disconnectPeer and stopTasks interleave:
\* every message is where its state says, the queues keep their limits, a stopped
\* peer holds nothing, and nothing precedes the hello of a stream.
THEOREM WellFormedAlways == Spec => []WellFormed
<1>1. Init => Inv
  BY InvInit
<1>2. Inv /\ [Next]_vars => Inv'
  BY InvNext
<1>3. Inv => WellFormed
  BY WellFormedHere
<1> QED
  BY <1>1, <1>2, <1>3, PTL DEF Spec

\* The task that finds nothing left of sendPriorityQueue has found every send in
\* it ended.
LEMMA SendsAfterHigh ==
    ASSUME Inv, NEW m, WaitOrSend(m), task' = "send"
    PROVE  \A i \in DOMAIN high : Finished(high[i])
<1>1. high \in Seq(All)
  BY DEF Inv, Shape
<1>2. Clear(high) = <<>>
  BY DEF WaitOrSend
<1> QED
  BY <1>1, <1>2, ClearProperties

\* sendNonHighPriorityTask starts a queued message only when every high priority
\* send has ended, for any number of sends in any order, though it waits for the
\* last one only and finished sends are removed from the ends of the queue only.
THEOREM QueuedWaitsForHighAlways == Spec => QueuedWaitsForHigh
<1>1. ASSUME Inv, [Next]_vars
      PROVE  [\A m \in Msgs :
                held' = m /\ task # "send" /\ task' = "send"
                    => \A i \in DOMAIN high : Finished(high[i])]_vars
  <2> SUFFICES ASSUME Next, task # "send", task' = "send"
               PROVE  \A i \in DOMAIN high : Finished(high[i])
    BY <1>1
  <2>1. TaskTakes \/ TaskWakes \/ task' = task \/ task' \in {"off", "idle", "asleep"}
    BY Zenon DEF Next, SendEncoded, SendHigh, Enqueue, WriteFails, DiscClosed, TaskSleeps,
           TaskRoused, TaskDone, WakeSlow,
           WriteDone, StreamDies, Connect, DialOk, Opened, DialFails, ReadEnds, LoopCloses,
           StopTasks, StopTasksDone, taskVars
  <2> QED
    BY <1>1, <2>1, SendsAfterHigh DEF TaskTakes, TaskWakes
<1>2. Init => Inv
  BY InvInit
<1>3. Inv /\ [Next]_vars => Inv'
  BY InvNext
<1> QED
  BY <1>1, <1>2, <1>3, PTL DEF Spec, QueuedWaitsForHigh
=============================================================================
