-------------------------- MODULE PrimitiveProofs --------------------------
(***************************************************************************)
(* Proofs about two building blocks that other modules stand on: the       *)
(* window of a yamux stream (YamuxWindow), for every default and every     *)
(* largest window, and the waiter of a call of the C binding (CallWait),   *)
(* for any calls and replies.                                              *)
(***************************************************************************)
EXTENDS YamuxWindow, CallWait, TLAPS

-----------------------------------------------------------------------------
(* The window of a yamux stream.                                           *)

\* The window alone is no inductive bound: what is in flight fits because
\* credit, flight and grants together do.
WindowInv == TypeOK /\ Conserved

\* A stream starts with window and credit in step.
LEMMA WindowInit ==
    ASSUME WindowAssumption, Init
    PROVE  WindowInv
BY DEF WindowAssumption, Init, WindowInv, TypeOK, Conserved, policing

\* What membership in an interval says.
LEMMA InRange == \A k \in Int : \A x \in 0..k : x \in Nat /\ x <= k
OBVIOUS

\* Spending from a grant moves bytes, and makes none.
LEMMA SpendFromGrant ==
    ASSUME NEW c \in Nat, NEW f \in Nat, NEW g \in Nat, NEW n \in Nat, NEW d \in Nat,
           NEW k \in Nat, k <= c + d - n
    PROVE  k + (f + n) + (g - d) <= c + f + g
OBVIOUS

\* Orders compose.
LEMMA Transitive == \A x, y, z \in Int : x <= y /\ y <= z => x <= z
OBVIOUS

\* One step of sender or receiver keeps the invariant.
LEMMA WindowStep ==
    ASSUME WindowAssumption, WindowInv, [Next]_vars
    PROVE  WindowInv'
<1> USE DEF WindowAssumption, WindowInv, TypeOK, Conserved, policing, Amounts
<1>1. ASSUME NEW n \in Amounts, Spend(n) PROVE WindowInv'
  BY <1>1 DEF Spend
<1>2. ASSUME NEW d \in Amounts, Grant(d) PROVE WindowInv'
  <2>1. d \in Nat /\ UNCHANGED <<credit, flying>> /\ receiver' \in {receiver, "done"}
    BY <1>2 DEF Grant
  <2>2. granted' = granted \/ granted' = granted + d
    BY <1>2 DEF Grant
  <2>3. window' = IF receiver' = "policing" THEN window + d ELSE 0
    BY <1>2 DEF Grant
  <2>4. TypeOK'
    BY <2>1, <2>2, <2>3
  <2>5. Conserved'
    BY <2>1, <2>2, <2>3
  <2> QED
    BY Zenon, <2>4, <2>5
<1>3. ASSUME NEW n \in Amounts, NEW d \in Amounts, Accept(n, d)
      PROVE  WindowInv'
  <2>1. /\ n \in Nat /\ d \in Nat /\ n <= flying
        /\ flying' = flying - n /\ credit' = credit
    BY <1>3 DEF Accept
  <2>2. CASE receiver' = "policing"
    <3>1. receiver = "policing" /\ window' = window - n + d
      BY <1>3, <2>2 DEF Accept
    <3>2. granted' = granted \/ granted' = granted + d
      BY <1>3, <2>2 DEF Accept
    <3>3. n <= window
      BY <2>1, <3>1
    <3> QED
      BY <2>1, <2>2, <3>1, <3>2, <3>3
  <2>3. CASE receiver' # "policing"
    <3>1. receiver' = "done" /\ window' = 0 /\ granted' \in {granted, granted + d}
      BY <1>3, <2>3 DEF Accept
    <3> QED
      BY <2>1, <3>1
  <2> QED
    BY <2>2, <2>3
<1>4. ASSUME NEW n \in Amounts, NEW d \in Amounts, Earn(d, n)
      PROVE  WindowInv'
  <2>1. /\ n \in Nat /\ d \in Nat /\ d <= granted
        /\ granted' = granted - d /\ flying' = flying + n
        /\ UNCHANGED <<window, receiver>>
    BY <1>4 DEF Earn
  <2>2. credit' \in Nat /\ credit' <= credit + d - n
    <3>1. credit' \in 0..(credit + d - n)
      BY <1>4 DEF Earn
    <3>2. credit + d - n \in Int
      BY <2>1
    <3> HIDE DEF WindowAssumption, WindowInv, TypeOK, Conserved, policing, Amounts
    <3> QED
      BY <3>1, <3>2, InRange
  <2>3. granted' \in Nat /\ flying' \in Nat
    BY <2>1
  <2>4. TypeOK'
    BY <2>1, <2>2, <2>3
  <2>5. credit' + flying' + granted' <= credit + flying + granted
    BY Zenon, <2>1, <2>2, SpendFromGrant
  <2>6. Conserved'
    <3>1. credit + flying + granted \in Int /\ credit' + flying' + granted' \in Int
      BY <2>4
    <3>2. CASE receiver = "policing"
      <4>1. credit + flying + granted <= window /\ window' = window /\ window \in Int
        BY <2>1, <3>2
      <4>2. credit' + flying' + granted' <= window'
        <5> HIDE DEF WindowAssumption, WindowInv, TypeOK, Conserved, policing, Amounts
        <5> QED
          BY <2>5, <3>1, <4>1, Transitive
      <4> QED
        BY <4>2
    <3> QED
      BY <2>1, <3>2
  <2> QED
    BY Zenon, <2>4, <2>6
<1>5. CASE Abandon
  BY <1>5 DEF Abandon
<1>6. CASE Forget
  BY <1>6 DEF Forget
<1>7. CASE StopPolicing
  BY <1>7 DEF StopPolicing
<1>8. CASE UNCHANGED vars
  BY <1>8 DEF vars
<1> QED
  BY <1>1, <1>2, <1>3, <1>4, <1>5, <1>6, <1>7, <1>8 DEF Next

\* Whatever the window sizes, and however sends, window updates, resets and the
\* end of the stream interleave, everything a yamux sender has sent, may send or
\* will be allowed to send fits the receiver's window.
THEOREM WindowConserved ==
    ASSUME WindowAssumption
    PROVE  Spec => []Conserved
<1>1. WindowInv => Conserved
  BY DEF WindowInv
<1>2. (Init => WindowInv) /\ (WindowInv /\ [Next]_vars => WindowInv')
  BY WindowInit, WindowStep
<1> QED
  BY <1>1, <1>2, PTL DEF Spec

\* A yamux receiver never has cause to raise "Peer exhausted the recvWindow"
\* against a sender that runs sendLoop.
THEOREM WindowNeverOverrun ==
    ASSUME WindowAssumption
    PROVE  Spec => []NeverOverrun
<1>1. WindowInv => NeverOverrun
  BY DEF WindowInv, TypeOK, Conserved, NeverOverrun, policing
<1>2. (Init => WindowInv) /\ (WindowInv /\ [Next]_vars => WindowInv')
  BY WindowInit, WindowStep
<1> QED
  BY <1>1, <1>2, PTL DEF Spec

-----------------------------------------------------------------------------
(* The waiter of a call of the C binding.                                  *)

\* What each phase of the callback says of the waiter and of its mutex.
PhaseOK(r) ==
    /\ r.call = call
    /\ done <=> r.phase = "signalled"
    /\ r.phase # "queued" => r.reply \in Replies /\ answer = r.reply
    /\ r.phase \in {"written", "signalled"} => field = r.reply
    /\ r.phase = "signalled" => style = "cond"
    /\ style = "cond" /\ r.phase \in {"written", "signalled"} => mutex = "callback"

\* One callback at a time, and none that main does not wait for.
OneInFlight ==
    /\ \A r, s \in inflight : r = s
    /\ inflight # {} /\ act # "exited" => Waiting

\* At most one callback is under way, for the call main waits in; a flag that is
\* up and a mutex that is free mean that it has returned.
WaitInv ==
    /\ WaitTypeOK
    /\ OneInFlight
    /\ \A r \in inflight : PhaseOK(r)
    /\ ReadsItsReply

\* The fields of a callback under way.
LEMMA FlightFields ==
    ASSUME NEW c \in Nat, NEW q \in Requests,
           NEW p \in {"queued", "answered", "written", "signalled"},
           NEW v \in Replies \cup {None}
    PROVE  /\ Flight(c, q, p, v) \in Flights
           /\ Flight(c, q, p, v).call = c /\ Flight(c, q, p, v).phase = p
           /\ Flight(c, q, p, v).reply = v /\ Flight(c, q, p, v).what = q
BY DEF Flight, Flights

\* With one flight, moving it on leaves one flight.
LEMMA MovedOne ==
    ASSUME WaitInv, NEW r \in inflight,
           NEW p \in {"queued", "answered", "written", "signalled"},
           NEW v \in Replies \cup {None}
    PROVE  /\ Moved(r, p, v) = {Flight(r.call, r.what, p, v)}
           /\ Flight(r.call, r.what, p, v) \in Flights
           /\ inflight \ {r} = {}
<1>1. r \in Flights BY DEF WaitInv, WaitTypeOK
<1>2. r.call \in Nat /\ r.what \in Requests BY <1>1 DEF Flights
<1>3. inflight \ {r} = {} BY DEF WaitInv, OneInFlight
<1> QED BY <1>2, <1>3, FlightFields DEF Moved

\* Init and the steps of main.
LEMMA WaitInvInit == WaitInit => WaitInv
<1> SUFFICES ASSUME WaitInit PROVE WaitInv
  OBVIOUS
<1>1. WaitTypeOK BY Zenon DEF WaitInit, WaitTypeOK
<1>2. OneInFlight /\ \A r \in inflight : PhaseOK(r) BY DEF WaitInit, OneInFlight
<1>3. ReadsItsReply BY Zenon DEF WaitInit, ReadsItsReply
<1> QED BY <1>1, <1>2, <1>3 DEF WaitInv

\* main moves and the waiter is left alone.
LEMMA MainMoves ==
    ASSUME WaitInv, SeesDone \/ Blocks \/ WakesEarly \/ Deadline \/ GivesUp \/ Returns \/ Quits
    PROVE  WaitInv'
<1>1. UNCHANGED <<style, call, inflight, done, field, mutex, answer>>
  BY DEF SeesDone, Blocks, WakesEarly, Deadline, GivesUp, Returns, Quits
<1>2. WaitTypeOK'
  BY <1>1 DEF WaitInv, WaitTypeOK, SeesDone, Blocks, WakesEarly, Deadline, GivesUp, Returns, Quits
<1>3. OneInFlight'
  <2>1. CASE SeesDone
    <3>1. \A r \in inflight : r.phase = "signalled" /\ style = "cond" /\ mutex = "callback"
      BY <2>1 DEF WaitInv, PhaseOK, SeesDone
    <3>2. inflight = {} BY <2>1, <3>1 DEF SeesDone
    <3> QED BY <1>1, <3>2 DEF OneInFlight
  <2>2. CASE Blocks \/ WakesEarly \/ Deadline
    BY <1>1, <2>2 DEF WaitInv, OneInFlight, Waiting, Blocks, WakesEarly, Deadline
  <2>3. CASE GivesUp \/ Quits
    BY <1>1, <2>3 DEF WaitInv, OneInFlight, GivesUp, Quits
  <2>4. CASE Returns
    BY <1>1, <2>4 DEF WaitInv, OneInFlight, Waiting, Returns
  <2> QED BY <2>1, <2>2, <2>3, <2>4
<1>4. \A r \in inflight' : PhaseOK(r)' BY <1>1 DEF WaitInv, PhaseOK
<1>5. ReadsItsReply' BY <1>1 DEF WaitInv, ReadsItsReply
<1> QED BY <1>2, <1>3, <1>4, <1>5 DEF WaitInv

\* A call starts with nothing in flight, since main is in none.
LEMMA CallStarts ==
    ASSUME WaitInv, (\E q \in Requests : Submit(q)) \/ SubmitRefused
    PROVE  WaitInv'
<1>1. act = "run" /\ call \in Nat /\ call' = call + 1 /\ field' = None
      /\ answer' = None /\ style' = style /\ mutex' = mutex
  BY DEF WaitInv, WaitTypeOK, Submit, SubmitRefused, FreshWaiter
<1>2. inflight = {} BY <1>1 DEF WaitInv, OneInFlight, Waiting
<1>3. ~done' /\ done' \in BOOLEAN BY Zenon DEF Submit, SubmitRefused, FreshWaiter
<1>4. ReadsItsReply' BY <1>3 DEF ReadsItsReply
<1>5. CASE SubmitRefused
  <2>1. inflight' = {} /\ act' \in {"run", "waiting"} BY <1>2, <1>5 DEF SubmitRefused
  <2>2. WaitTypeOK' BY <1>1, <1>3, <2>1 DEF WaitInv, WaitTypeOK
  <2>3. OneInFlight' /\ \A r \in inflight' : PhaseOK(r)' BY <2>1 DEF OneInFlight
  <2> QED BY <1>4, <2>2, <2>3 DEF WaitInv
<1>6. ASSUME NEW q \in Requests, Submit(q) PROVE WaitInv'
  <2>1. PICK f : f = Flight(call + 1, q, "queued", None) OBVIOUS
  <2>2. inflight' = {f} /\ act' = "waiting" BY <1>2, <1>6, <2>1 DEF Submit
  <2>3. f \in Flights /\ f.call = call + 1 /\ f.phase = "queued" BY <1>1, <2>1, FlightFields
  <2>4. PhaseOK(f)' BY <1>1, <1>3, <2>3 DEF PhaseOK
  <2>5. WaitTypeOK' BY <1>1, <1>3, <2>2, <2>3 DEF WaitInv, WaitTypeOK
  <2>6. OneInFlight' BY <2>2 DEF OneInFlight, Waiting
  <2> QED BY <1>4, <2>2, <2>4, <2>5, <2>6 DEF WaitInv
<1> QED BY <1>5, <1>6

\* The library answers the call.
LEMMA LibraryAnswers ==
    ASSUME WaitInv, NEW r \in inflight, NEW v \in Replies, Answer(r, v)
    PROVE  WaitInv'
<1> DEFINE f == Flight(r.call, r.what, "answered", v)
<1>1. inflight' = {f} /\ f \in Flights BY MovedOne DEF Answer
<1>2. r \in Flights /\ PhaseOK(r) BY DEF WaitInv, WaitTypeOK
<1>3. f.call = r.call /\ f.phase = "answered" /\ f.reply = v
  BY <1>2, FlightFields DEF Flights
<1>4. answer' = v /\ done = FALSE
  BY <1>2 DEF Answer, PhaseOK, WaitInv, WaitTypeOK
<1>5. PhaseOK(f)' BY <1>2, <1>3, <1>4 DEF PhaseOK, Answer
<1> QED
  BY <1>1, <1>4, <1>5
  DEF WaitInv, WaitTypeOK, OneInFlight, Waiting, ReadsItsReply, Answer, Over

\* The callback fills the waiter in.
LEMMA WaiterFilled ==
    ASSUME WaitInv, NEW r \in inflight, CallbackWrites(r)
    PROVE  WaitInv'
<1> DEFINE f == Flight(r.call, r.what, "written", r.reply)
<1>1. r \in Flights /\ PhaseOK(r) /\ r.reply \in Replies /\ answer = r.reply
  BY DEF WaitInv, WaitTypeOK, PhaseOK, CallbackWrites
<1>2. inflight' = {f} /\ f \in Flights BY <1>1, MovedOne DEF CallbackWrites
<1>3. f.call = r.call /\ f.phase = "written" /\ f.reply = r.reply
  BY <1>1, FlightFields DEF Flights
<1>4. done' = FALSE /\ field' = r.reply
  BY <1>1 DEF CallbackWrites, PhaseOK, WaitInv, WaitTypeOK
<1>5. PhaseOK(f)' BY <1>1, <1>3, <1>4 DEF PhaseOK, CallbackWrites
<1> QED
  BY <1>1, <1>2, <1>4, <1>5
  DEF WaitInv, WaitTypeOK, OneInFlight, Waiting, ReadsItsReply, CallbackWrites, Over

\* The flag goes up: the last access of a polled waiter, while the mutex of the
\* other is still held.
LEMMA FlagRaised ==
    ASSUME WaitInv, NEW r \in inflight, CallbackDone(r)
    PROVE  WaitInv'
<1> DEFINE f == Flight(r.call, r.what, "signalled", r.reply)
<1>1. r \in Flights /\ PhaseOK(r) /\ r.phase = "written" /\ r.reply \in Replies
      /\ answer = r.reply /\ field = r.reply
  BY DEF WaitInv, WaitTypeOK, PhaseOK, CallbackDone
<1>2. done' = TRUE /\ Waiting /\ Waiting'
      /\ UNCHANGED <<style, call, field, mutex, answer>>
  BY DEF CallbackDone, WaitInv, OneInFlight, Waiting, Over
<1>3. ReadsItsReply' BY <1>1, <1>2, CallAssumption DEF ReadsItsReply
<1>4. WaitTypeOK' /\ OneInFlight' /\ \A s \in inflight' : PhaseOK(s)'
  <2>1. act' \in {"waiting", "blocked", "expired"} BY <1>2 DEF Waiting
  <2>2. CASE style = "cond"
    <3>1. inflight' = {f} /\ f \in Flights BY <1>1, <2>2, MovedOne DEF CallbackDone
    <3>2. f.call = r.call /\ f.phase = "signalled" /\ f.reply = r.reply
      BY <1>1, FlightFields DEF Flights
    <3>3. PhaseOK(f)' BY <1>1, <1>2, <2>2, <3>2 DEF PhaseOK
    <3> QED BY <1>2, <2>1, <3>1, <3>3 DEF WaitInv, WaitTypeOK, OneInFlight
  <2>3. CASE style # "cond"
    <3>1. inflight' = {} BY <2>3 DEF CallbackDone, WaitInv, OneInFlight
    <3> QED BY <1>2, <2>1, <3>1 DEF WaitInv, WaitTypeOK, OneInFlight
  <2> QED BY <2>2, <2>3
<1> QED BY <1>3, <1>4 DEF WaitInv

\* The callback lets go of the mutex, and with it of the waiter.
LEMMA MutexReleased ==
    ASSUME WaitInv, NEW r \in inflight, CallbackUnlocks(r)
    PROVE  WaitInv'
<1>1. inflight' = {} BY DEF CallbackUnlocks, WaitInv, OneInFlight
<1> QED BY <1>1 DEF CallbackUnlocks, WaitInv, WaitTypeOK, OneInFlight, ReadsItsReply

\* WaitInv holds at every step of every program that makes its calls one by one.
THEOREM WaitInvAlways == WaitSpec => []WaitInv
<1>1. WaitInv /\ [WaitNext]_waitVars => WaitInv'
  <2> SUFFICES ASSUME WaitInv, [WaitNext]_waitVars PROVE WaitInv'
    OBVIOUS
  <2>1. CASE (\E q \in Requests : Submit(q)) \/ SubmitRefused BY <2>1, CallStarts
  <2>2. CASE SeesDone \/ Blocks \/ WakesEarly \/ Deadline \/ GivesUp \/ Returns \/ Quits
    BY <2>2, MainMoves
  <2>3. ASSUME NEW r \in inflight,
               \/ \E v \in Replies : Answer(r, v)
               \/ CallbackWrites(r) \/ CallbackDone(r) \/ CallbackUnlocks(r)
        PROVE  WaitInv'
    BY <2>3, LibraryAnswers, WaiterFilled, FlagRaised, MutexReleased
  <2>4. CASE UNCHANGED waitVars
    BY <2>4 DEF waitVars, WaitInv, WaitTypeOK, OneInFlight, PhaseOK, Waiting, ReadsItsReply
  <2> QED BY <2>1, <2>2, <2>3, <2>4 DEF WaitNext
<1> QED BY <1>1, WaitInvInit, PTL DEF WaitSpec

\* For every program and library: a callback that is under way belongs to the
\* call main waits in, so that no timeout, late callback, spurious wakeup or
\* refused submission makes it write to a waiter main has left.
THEOREM WaiterOwned == WaitSpec => []OwnsItsWaiter
<1>1. WaitInv => OwnsItsWaiter BY DEF WaitInv, OneInFlight, PhaseOK, OwnsItsWaiter
<1> QED BY <1>1, WaitInvAlways, PTL

\* For every program and library: what main reads once the flag is up is the
\* whole reply to this very call.
THEOREM ReplyIsItsOwn == WaitSpec => []ReadsItsReply
<1>1. WaitInv => ReadsItsReply BY DEF WaitInv
<1> QED BY <1>1, WaitInvAlways, PTL
=============================================================================
