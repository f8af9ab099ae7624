----------------------------- MODULE RankedDial -----------------------------
(***************************************************************************)
(* One ranked dial of a peer: libp2p/rankeddial.nim, with the candidates   *)
(* dialer.nim makes of the peer's addresses.  Wire addresses are queued at *)
(* once and those of a name as its lookups answer; up to MaxParallelDials  *)
(* attempts run, best rank first, and the first that connects wins.        *)
(*                                                                         *)
(* A name's lookups (expandCandidate, resolveCandidate) answer in parts,   *)
(* each with some of the name's addresses.  The loop of firstConnected     *)
(* runs one round whenever an attempt ended or `changed` was completed.    *)
(***************************************************************************)
EXTENDS Integers, Sequences, FiniteSets, SequencesExt, FiniteSetsExt

CONSTANTS
    Direct, Names,       \* wire addresses, and names
    AddrsOf,             \* the addresses lookups may find for a name
    Rank,                \* dialRank of an address
    MaxDialCandidates, MaxParallelDials

ASSUME RankedAssumption ==
    /\ AddrsOf \in [Names -> SUBSET UNION {AddrsOf[n] : n \in Names}]
    /\ MaxDialCandidates \in Nat /\ MaxParallelDials \in Nat \ {0}

Addrs == Direct \cup UNION {AddrsOf[n] : n \in Names}

VARIABLES
    queued, seen, left,      \* the candidates to try, and DialBudget
    attempt,                 \* of an address: none, running, up, failed, closed, won
    pending,                 \* attempts not yet taken out of RankedDial.pending
    lookups, changed,        \* names under lookup; the future `changed` is complete
    expired,                 \* the deadline has passed
    loop                     \* of run: looping, dropping, done

vars == <<queued, seen, left, attempt, pending, lookups, changed, expired, loop>>

-----------------------------------------------------------------------------
(* The queue and its budget.                                               *)

Fresh(addrs) == addrs \ seen

\* The candidates `take` keeps: fresh ones, the best ranks first, while the
\* budget lasts.
Taken(addrs) ==
    CHOOSE T \in SUBSET Fresh(addrs) :
        /\ Cardinality(T) = Min({left, Cardinality(Fresh(addrs))})
        /\ \A a \in T, b \in Fresh(addrs) \ T : Rank[a] <= Rank[b]

\* Insert each behind the candidates of its rank.
ByRank(q, addrs) ==
    FoldLeft(LAMBDA acc, a :
        LET i == Cardinality({k \in 1 .. Len(acc) : Rank[acc[k]] <= Rank[a]})
        IN  InsertAt(acc, i + 1, a), q, SetToSeq(addrs))

Queue(addrs) ==
    /\ queued' = ByRank(queued, Taken(addrs))
    /\ seen' = seen \cup addrs
    /\ left' = left - Cardinality(Taken(addrs))

\* run: queue the wire addresses, start the lookups of the names.
Init ==
    LET n == Min({MaxDialCandidates, Cardinality(Direct)})
        best == CHOOSE T \in SUBSET Direct :
            Cardinality(T) = n /\ \A a \in T, b \in Direct \ T : Rank[a] <= Rank[b]
    IN  /\ queued = ByRank(<<>>, best)
        /\ seen = Direct /\ left = MaxDialCandidates - n
        /\ attempt = [a \in Addrs |-> "none"] /\ pending = {}
        /\ lookups \in kSubset(Min({MaxDialCandidates, Cardinality(Names)}), Names)
        /\ changed = TRUE /\ expired = FALSE /\ loop = "looping"

\* queueResolved: a lookup of the name answers, unless the budget is spent.
Resolved(n, addrs) ==
    /\ loop = "looping"
    /\ n \in lookups /\ left > 0
    /\ addrs # {} /\ addrs \subseteq AddrsOf[n]
    /\ Queue(addrs)
    /\ changed' = TRUE
    /\ UNCHANGED <<attempt, pending, lookups, expired, loop>>

\* Mutant: the loop is not told.
NameDoneQuietly(n) ==
    /\ loop = "looping"
    /\ n \in lookups
    /\ lookups' = lookups \ {n}
    /\ UNCHANGED <<queued, seen, left, attempt, pending, changed, expired, loop>>

\* queueName ends: all lookups answered, failed, timed out, or the budget is
\* spent.
NameDone(n) ==
    /\ loop = "looping"
    /\ n \in lookups
    /\ lookups' = lookups \ {n}
    /\ changed' = TRUE
    /\ UNCHANGED <<queued, seen, left, attempt, pending, expired, loop>>

Deadline ==
    /\ ~expired
    /\ expired' = TRUE
    /\ UNCHANGED <<queued, seen, left, attempt, pending, lookups, changed, loop>>

-----------------------------------------------------------------------------
(* The attempts.                                                           *)

\* dialAndUpgrade of one address: connected, or nil.
AttemptEnds(a, how) ==
    /\ attempt[a] = "running"
    /\ attempt' = [attempt EXCEPT ![a] = how]
    /\ UNCHANGED <<queued, seen, left, pending, lookups, changed, expired, loop>>

Ended == {a \in pending : attempt[a] # "running"}
Winners == {a \in Ended : attempt[a] = "up"}

Room == MaxParallelDials - Cardinality(pending \ Ended)

\* Mutant: the dial gives up before it opens the next attempts.
NothingLeftBefore(running) == pending \ Ended = {} /\ lookups = {}

NothingLeft(running) == running = {} /\ lookups = {}

\* A round of firstConnected.
Round ==
    /\ loop = "looping"
    /\ changed \/ Ended # {}
    /\ changed' = FALSE
    /\ \/ \E a \in Winners : \E gone \in SUBSET (Ended \ Winners) :
            /\ attempt' = [attempt EXCEPT ![a] = "won"]
            /\ pending' = pending \ ({a} \cup gone)
            /\ loop' = "dropping"
            /\ UNCHANGED queued
       \/ LET n == IF expired THEN 0 ELSE Min({Room, Len(queued)})
              opened == {queued[i] : i \in 1 .. n}
          IN  /\ Winners = {}
              /\ attempt' = [a \in Addrs |-> IF a \in opened THEN "running" ELSE attempt[a]]
              /\ pending' = (pending \ Ended) \cup opened
              /\ queued' = SubSeq(queued, n + 1, Len(queued))
              /\ loop' = IF NothingLeft(pending') THEN "dropping" ELSE "looping"
    /\ UNCHANGED <<seen, left, lookups, expired>>

\* The dial is cancelled.
Cancelled ==
    /\ loop = "looping"
    /\ loop' = "dropping"
    /\ UNCHANGED <<queued, seen, left, attempt, pending, lookups, changed, expired>>

\* Mutant: an attempt that connected meanwhile is left alone.
LosersForgotten ==
    [a \in Addrs |-> IF a \in pending /\ attempt[a] = "running" THEN "failed" ELSE attempt[a]]

\* Every attempt left is cancelled; it may connect all the same, and is closed.
LosersDropped ==
    [a \in Addrs |-> IF a \notin pending THEN attempt[a]
                     ELSE IF attempt[a] = "up" THEN "closed" ELSE "failed"]

\* dropLosers and the end of the lookups.
Drop ==
    /\ loop = "dropping"
    /\ attempt' = LosersDropped
    /\ pending' = {} /\ lookups' = {}
    /\ loop' = "done"
    /\ UNCHANGED <<queued, seen, left, changed, expired>>

Next ==
    \/ Deadline \/ Round \/ Cancelled \/ Drop
    \/ \E n \in Names : NameDone(n) \/ \E addrs \in SUBSET AddrsOf[n] : Resolved(n, addrs)
    \/ \E a \in Addrs : AttemptEnds(a, "up") \/ AttemptEnds(a, "failed")

\* Lookups and attempts end by the deadline, and the loop runs.
Fairness ==
    /\ WF_vars(Deadline) /\ WF_vars(Round) /\ WF_vars(Drop)
    /\ \A n \in Names : WF_vars(NameDone(n))
    /\ \A a \in Addrs : WF_vars(AttemptEnds(a, "up") \/ AttemptEnds(a, "failed"))

Spec == Init /\ [][Next]_vars /\ Fairness

-----------------------------------------------------------------------------
(* Properties.                                                             *)

\* Types of the RankedDial's fields.
TypeOK ==
    /\ queued \in Seq(Addrs) /\ left \in 0 .. MaxDialCandidates
    /\ attempt \in [Addrs -> {"none", "running", "up", "failed", "closed", "won"}]
    /\ pending \subseteq Addrs /\ lookups \subseteq Names
    /\ Cardinality({a \in Addrs : attempt[a] = "running"}) <= MaxParallelDials

\* A dial leaves at most one connection: once it is over, every attempt but the
\* winner has failed or was closed.
NoLeakedConnection ==
    /\ loop = "done" => \A a \in Addrs : attempt[a] \notin {"running", "up"}
    /\ Cardinality({a \in Addrs : attempt[a] = "won"}) <= 1

\* No address is dialed twice, and never more than MaxDialCandidates of them,
\* however the names overlap.
EachDialedOnce ==
    /\ Cardinality({a \in Addrs : attempt[a] # "none"}) + Len(queued) + left
           = MaxDialCandidates
    /\ \A i \in 1 .. Len(queued) : attempt[queued[i]] = "none"
    /\ IsInjective(queued)

\* The books of the race are in order: the budget, no address twice, and no
\* connection left over when firstConnected returns.
WellFormed == TypeOK /\ EachDialedOnce /\ NoLeakedConnection

\* A dial that was not cut off gives up only when every candidate was tried:
\* no candidate that came in while it looked around is forgotten.
GivesUpOnlyWhenDone ==
    [][Round /\ loop' = "dropping" /\ ~expired /\ Winners = {} => queued' = <<>>]_vars

\* The dial returns: no wake-up is lost between attempts and lookups.
DialReturns == <>(loop = "done")
=============================================================================
