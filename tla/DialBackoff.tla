----------------------------- MODULE DialBackoff -----------------------------
(***************************************************************************)
(* The dial backoff of libp2p/dial_backoff.nim under the dials that use it *)
(* (dialAndUpgrade of dialer.nim): a bounded table of consecutive failures,*)
(* each with the time until which its key is not dialed.  `addrs` and      *)
(* `peers` are two such tables; the keys of one do not meet the other's.   *)
(*                                                                         *)
(* Times are relative: entries[k].until is until - now, and Tick lets all  *)
(* of them fall.  An entry that has decayed stays at -maxDelay, below which*)
(* nothing tells times apart.  Failures count up to MaxFailures.           *)
(* The sums with the clock are exact, Moments being far from their limit;  *)
(* the product of two settings, which need not be, has its width.          *)
(***************************************************************************)
EXTENDS Integers, FiniteSets, FiniteSetsExt, Functions

CONSTANTS
    Keys, Dials,           \* what is dialed, and the attempts under way
    Forced,                \* the attempts with forceDial
    Configs,               \* the DialBackoffConfigs to look at; jitter in percent
    MaxBackoffEntries,
    MaxFailures,           \* bound on the count of failures
    Limit,                 \* a Duration is in -Limit .. Limit - 1: 2^63 in the code
    None

ASSUME BackoffAssumption ==
    /\ MaxBackoffEntries \in Nat \ {0} /\ MaxFailures \in Nat \ {0}
    /\ Forced \subseteq Dials /\ None \notin Keys
    /\ Limit \in Nat
    /\ \A c \in Configs :
        /\ c.tolerance \in Nat /\ c.factor \in Int /\ c.jitter \in Nat
        /\ c.base \in Int /\ c.base < Limit
        /\ c.maxDelay \in Nat /\ c.maxDelay < Limit
        /\ c.base > 0 /\ c.factor > 1 =>          \* the wait is at its ceiling by then
              c.base * c.factor ^ (MaxFailures - c.tolerance - 1) >= c.maxDelay

VARIABLES
    config,                \* self.config
    entries,               \* [Tabled -> [failures, until]]
    dial                   \* [Dials -> the key an attempt is dialing, or None]

vars == <<config, entries, dial>>

Tabled == DOMAIN entries

Init ==
    /\ config \in Configs
    /\ entries = [k \in {} |-> 0]
    /\ dial = [d \in Dials |-> None]

-----------------------------------------------------------------------------
(* The wait.                                                               *)

\* Durations are signed integers.
Wrap(x) == ((x + Limit) % (2 * Limit)) - Limit

\* Mutant: the product is compared with the ceiling once it is made.
GrowUnguarded(delay) == Wrap(delay * config.factor)

\* The body of delay's loop; at the ceiling it returns, which later rounds keep.
Grow(delay) ==
    IF delay > config.maxDelay \div config.factor
    THEN config.maxDelay ELSE Wrap(delay * config.factor)

\* The loop, after n rounds.
Grown[n \in 0 .. MaxFailures] == IF n = 0 THEN config.base ELSE Grow(Grown[n - 1])

\* delay: the wait after so many consecutive failures.
Delay(failures) ==
    IF failures <= config.tolerance \/ config.base <= 0 \/ config.maxDelay <= 0 THEN 0
    ELSE IF config.factor <= 1 THEN Min({config.base, config.maxDelay})
    ELSE Min({Grown[failures - config.tolerance - 1], config.maxDelay})

\* jittered: what may remain of a wait.
Span(delay) == (delay * Min({config.jitter, 100})) \div 100
Jittered(delay) ==
    IF delay <= 0 \/ config.jitter <= 0 THEN {delay} ELSE (delay - Span(delay)) .. delay

-----------------------------------------------------------------------------
(* The table.                                                              *)

Decayed(k) == entries[k].until + config.maxDelay <= 0

\* prune
Pruned == {k \in Tabled : ~Decayed(k)}

\* Mutant: the longest wait goes.
SoonestLast(T) == {k \in T : \A j \in T : entries[j].until <= entries[k].until}

\* evictSoonest: the order of the table decides among equals.
Soonest(T) == {k \in T : \A j \in T : entries[k].until <= entries[j].until}

\* Mutant: only stale entries make room.
KeptAll(k) ==
    {IF Cardinality(Tabled) < MaxBackoffEntries \/ k \in Tabled THEN Tabled ELSE Pruned}

\* The keys that may stay when a failure of k is counted.
Kept(k) ==
    IF Cardinality(Tabled) < MaxBackoffEntries \/ k \in Tabled THEN {Tabled}
    ELSE IF Cardinality(Pruned) < MaxBackoffEntries THEN {Pruned}
    ELSE {Pruned \ {j} : j \in Soonest(Pruned)}

\* countFailure
CountFailure(k) ==
    \E kept \in Kept(k) :
        LET before == IF k \in kept /\ ~Decayed(k) THEN entries[k].failures ELSE 0
            failures == Min({before + 1, MaxFailures})
        IN  \E wait \in Jittered(Delay(failures)) :
                entries' = [j \in kept \cup {k} |->
                    IF j = k THEN [failures |-> failures, until |-> wait] ELSE entries[j]]

\* recordSuccess
RecordSuccess(k) == entries' = Restrict(entries, Tabled \ {k})

\* blockedIn
Blocked(k) == k \in Tabled /\ entries[k].until > 0

-----------------------------------------------------------------------------
(* The attempts, and time.                                                 *)

\* Mutant: the wait stops nobody.
MayDialAlways(d, k) == TRUE

\* `forceDial` overrides the wait.
MayDial(d, k) == d \in Forced \/ ~Blocked(k)

DialStarts(d, k) ==
    /\ dial[d] = None
    /\ MayDial(d, k)
    /\ dial' = [dial EXCEPT ![d] = k]
    /\ UNCHANGED <<config, entries>>

DialFails(d) ==
    /\ dial[d] # None
    /\ CountFailure(dial[d])
    /\ dial' = [dial EXCEPT ![d] = None]
    /\ UNCHANGED config

DialSucceeds(d) ==
    /\ dial[d] # None
    /\ RecordSuccess(dial[d])
    /\ dial' = [dial EXCEPT ![d] = None]
    /\ UNCHANGED config

DialCancelled(d) ==
    /\ dial[d] # None
    /\ dial' = [dial EXCEPT ![d] = None]
    /\ UNCHANGED <<config, entries>>

Tick ==
    /\ entries' = [k \in Tabled |-> [failures |-> entries[k].failures,
                                     until |-> Max({entries[k].until - 1, -config.maxDelay})]]
    /\ UNCHANGED <<config, dial>>

Next ==
    \/ Tick
    \/ \E d \in Dials :
        \/ \E k \in Keys : DialStarts(d, k)
        \/ DialFails(d) \/ DialSucceeds(d) \/ DialCancelled(d)

\* Time passes.
Spec == Init /\ [][Next]_vars /\ WF_vars(Tick)

-----------------------------------------------------------------------------
(* Properties.                                                             *)

\* The factor, n times.
Power[n \in 0 .. MaxFailures] == IF n = 0 THEN 1 ELSE Max({config.factor, 1}) * Power[n - 1]

\* The wait as the fields of DialBackoffConfig describe it: base after the first
\* failure over the tolerance, times factor for each further one, up to maxDelay.
Promised(failures) ==
    IF failures <= config.tolerance THEN 0
    ELSE LET power == Power[failures - config.tolerance - 1]
         IN  Max({0, Min({config.base * power, config.maxDelay})})

\* "Cap per table, so a peer that names a fresh address per dial stays bounded":
\* whatever keys fail in which order, countFailure makes room first.
TableBounded == Cardinality(Tabled) <= MaxBackoffEntries

\* The table is well typed and bounded, and an entry waits no longer than its
\* failures promise.
WellFormed ==
    /\ dial \in [Dials -> Keys \cup {None}] /\ Tabled \subseteq Keys
    /\ TableBounded
    /\ \A k \in Tabled :
        /\ entries[k].failures \in 1 .. MaxFailures
        /\ entries[k].until <= Promised(entries[k].failures)

\* A failure makes its key wait as long as promised, less at most the jitter: the
\* growth neither overflows nor stops short of the ceiling.  The count goes up by
\* one, or starts again for a key that blocked nothing for a full maxDelay.
WaitsAsPromised ==
    [][\A d \in Dials : DialFails(d) =>
        LET k == dial[d]
            e == entries'[k]
            full == Promised(e.failures)
        IN  /\ full - Span(full) <= e.until /\ e.until <= full
            /\ e.failures = IF k \in Tabled /\ ~Decayed(k)
                            THEN Min({entries[k].failures + 1, MaxFailures}) ELSE 1]_vars

\* A failure of one key forgets another only to stay within the bound, and then
\* the least: an idle entry, or, when none is idle, one whose wait ends first.
ForgetsTheLeast ==
    [][\A d \in Dials, j \in Tabled \ DOMAIN entries' : DialFails(d) =>
        /\ Cardinality(Tabled) = MaxBackoffEntries /\ dial[d] \notin Tabled
        /\ \/ Decayed(j)
           \/ /\ DOMAIN entries' = (Tabled \ {j}) \cup {dial[d]}
              /\ \A k \in Tabled : entries[j].until <= entries[k].until]_vars

\* A key on backoff is dialed again: it is free some time, unless a forced dial
\* comes between; attempts that were under way when it was blocked cannot fail
\* so often that it stays blocked.
RetryComes ==
    \A k \in Keys : Blocked(k) ~> (~Blocked(k) \/ \E d \in Forced : dial[d] = k)
=============================================================================
