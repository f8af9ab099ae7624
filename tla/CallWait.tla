------------------------------ MODULE CallWait ------------------------------
(* A thread of a C program that turns the asynchronous calls of the C       *)
(* binding into blocking ones (cbind/examples).  It hands a waiter on its    *)
(* stack to each call; the callback, on the library's dispatch thread, fills *)
(* the waiter in.  common.h polls an atomic flag ("poll"),                   *)
(* libp2p_mobile_check.c waits on a condition variable ("cond").             *)
EXTENDS Integers

CONSTANTS
    Requests, Replies,     \* what is asked for, and what callbacks copy
    None

ASSUME CallAssumption == None \notin Replies

VARIABLES
    style,                 \* how this program waits
    act,                   \* where main is within a call
    call,                  \* the number of its latest call
    inflight,              \* the calls whose callbacks have not returned
    done, field,           \* the waiter: its flag, and the copied reply
    mutex,                 \* the mutex of a "cond" waiter
    answer                 \* history: what the library replied to the latest call

waitVars == <<style, act, call, inflight, done, field, mutex, answer>>

Flight(c, q, p, v) == [call |-> c, what |-> q, phase |-> p, reply |-> v]
Moved(r, p, v) == (inflight \ {r}) \cup {Flight(r.call, r.what, p, v)}

Over == act \in {"exited", "returned"}
Waiting == act \in {"waiting", "blocked", "expired"}

WaitInit ==
    /\ style \in {"poll", "cond"} /\ act = "run" /\ call = 0 /\ inflight = {}
    /\ done = FALSE /\ field = None /\ mutex = "free" /\ answer = None

-----------------------------------------------------------------------------
(* The calling thread.                                                     *)

\* memset of the waiter before every call; wait_init.
FreshWaiter == done' = FALSE /\ field' = None /\ answer' = None

\* Submit a call and wait for its callback.
Submit(q) ==
    /\ act = "run"
    /\ call' = call + 1
    /\ FreshWaiter
    /\ inflight' = inflight \cup {Flight(call + 1, q, "queued", None)}
    /\ act' = "waiting"
    /\ UNCHANGED <<style, mutex>>

\* The library does not take the call, and no callback will come.  common.h
\* ignores the result and waits; the mobile check gives the call up.
SubmitRefused ==
    /\ act = "run"
    /\ call' = call + 1
    /\ FreshWaiter
    /\ act' = IF style = "cond" THEN "run" ELSE "waiting"
    /\ UNCHANGED <<style, inflight, mutex>>

\* wait_done, or the end of the loop of wait_for_callback: main goes on with what
\* the waiter says.
SeesDone ==
    /\ act = "waiting" /\ done
    /\ style = "cond" => mutex = "free"
    /\ act' = "run"
    /\ UNCHANGED <<style, call, inflight, done, field, mutex, answer>>

\* pthread_cond_timedwait: to sleep, awake for no reason, or past the deadline.
Blocks ==
    /\ style = "cond" /\ act = "waiting" /\ ~done /\ mutex = "free"
    /\ act' = "blocked"
    /\ UNCHANGED <<style, call, inflight, done, field, mutex, answer>>

WakesEarly ==
    /\ act = "blocked"
    /\ act' = "waiting"
    /\ UNCHANGED <<style, call, inflight, done, field, mutex, answer>>

Deadline ==
    /\ act = "blocked"
    /\ act' = "expired"
    /\ UNCHANGED <<style, call, inflight, done, field, mutex, answer>>

\* Mutant: the wait just ends.
GivesUpReturning ==
    /\ \/ style = "poll" /\ act = "waiting" /\ ~done
       \/ act = "expired" /\ mutex = "free"
    /\ act' = "run"
    /\ UNCHANGED <<style, call, inflight, done, field, mutex, answer>>

\* Mutant: a wait without a limit.
GivesUpNever ==
    /\ act = "expired" /\ mutex = "free"
    /\ act' = "exited"
    /\ UNCHANGED <<style, call, inflight, done, field, mutex, answer>>

\* The limit of wait_done, and ETIMEDOUT once the mutex is held again: exit.
GivesUp ==
    /\ \/ style = "poll" /\ act = "waiting" /\ ~done
       \/ act = "expired" /\ mutex = "free"
    /\ act' = "exited"
    /\ UNCHANGED <<style, call, inflight, done, field, mutex, answer>>

-----------------------------------------------------------------------------
(* The dispatch thread.                                                    *)

\* The handler of a call has its result v.
Answer(r, v) ==
    /\ ~Over /\ r \in inflight /\ r.phase = "queued"
    /\ inflight' = Moved(r, "answered", v)
    /\ answer' = IF r.call = call THEN v ELSE answer
    /\ UNCHANGED <<style, act, call, done, field, mutex>>

\* Mutant: on_bool raises the flag and then fills in the waiter.
CallbackWritesDone(r) ==
    /\ ~Over /\ r \in inflight /\ r.phase = "answered"
    /\ style = "cond" => mutex = "free"
    /\ done' = TRUE
    /\ mutex' = IF style = "cond" THEN "callback" ELSE mutex
    /\ inflight' = Moved(r, "written", r.reply)
    /\ UNCHANGED <<style, act, call, field, answer>>

\* on_bool and its like up to the flag: the result and the reply are copied,
\* under the mutex in on_created and on_bool_reply of the mobile check.
CallbackWrites(r) ==
    /\ ~Over /\ r \in inflight /\ r.phase = "answered"
    /\ style = "cond" => mutex = "free"
    /\ field' = r.reply
    /\ mutex' = IF style = "cond" THEN "callback" ELSE mutex
    /\ inflight' = Moved(r, "written", r.reply)
    /\ UNCHANGED <<style, act, call, done, answer>>

\* atomic_store of the flag, which is the last access; or signal_done.
CallbackDone(r) ==
    /\ ~Over /\ r \in inflight /\ r.phase = "written"
    /\ done' = TRUE
    /\ inflight' = IF style = "cond" THEN Moved(r, "signalled", r.reply) ELSE inflight \ {r}
    /\ act' = IF act = "blocked" THEN "waiting" ELSE act
    /\ UNCHANGED <<style, call, field, mutex, answer>>

\* pthread_mutex_unlock in the callbacks of the mobile check.
CallbackUnlocks(r) ==
    /\ ~Over /\ r \in inflight /\ r.phase = "signalled"
    /\ mutex' = "free"
    /\ inflight' = inflight \ {r}
    /\ UNCHANGED <<style, act, call, done, field, answer>>

-----------------------------------------------------------------------------
(* Any program that makes calls one after the other.                       *)

Returns ==
    /\ act = "run"
    /\ act' = "returned"
    /\ UNCHANGED <<style, call, inflight, done, field, mutex, answer>>

\* wait_done gives up on something else than a call.
Quits ==
    /\ act = "run"
    /\ act' = "exited"
    /\ UNCHANGED <<style, call, inflight, done, field, mutex, answer>>

WaitNext ==
    \/ \E q \in Requests : Submit(q)
    \/ SubmitRefused \/ SeesDone \/ Blocks \/ WakesEarly \/ Deadline \/ GivesUp
    \/ Returns \/ Quits
    \/ \E r \in inflight :
        \/ \E v \in Replies : Answer(r, v)
        \/ CallbackWrites(r) \/ CallbackDone(r) \/ CallbackUnlocks(r)

WaitSpec == WaitInit /\ [][WaitNext]_waitVars

-----------------------------------------------------------------------------
(* Properties.                                                             *)

Flights ==
    [call : Nat, what : Requests, phase : {"queued", "answered", "written", "signalled"},
     reply : Replies \cup {None}]

\* Types of the waiter and of the calls.
WaitTypeOK ==
    /\ style \in {"poll", "cond"} /\ mutex \in {"free", "callback"}
    /\ act \in {"run", "waiting", "blocked", "expired", "exited", "returned"}
    /\ call \in Nat /\ inflight \subseteq Flights /\ done \in BOOLEAN
    /\ {field, answer} \subseteq Replies \cup {None}

\* "A timeout must not unwind stack waiters that a late callback still owns"
\* (common.h): while the process lives, a callback that has not returned belongs
\* to the call that main is waiting in, so that it writes to no waiter that was
\* left, destroyed or handed to another call.
OwnsItsWaiter ==
    act # "exited" => \A r \in inflight : r.call = call /\ Waiting

\* The reply main reads once it sees the flag is the one the library gave to
\* this very call, and all of it: neither one of an earlier call nor a torn one.
ReadsItsReply == done => answer # None /\ field = answer
=============================================================================
