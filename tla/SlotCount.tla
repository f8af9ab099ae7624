----------------------------- MODULE SlotCount ------------------------------
(***************************************************************************)
(* What the semaphore behind the connection slots of libp2p/connmanager.nim*)
(* promises, whatever the order of its waiters: slots are held, waited for *)
(* (getIncomingSlot), or forced (getOutgoingSlot with forceDial, which     *)
(* enters the semaphore's queue without waiting and holds the slot anyhow).*)
(* `owed` counts the entries of forced slots that are still in the queue.  *)
(* Dialer implements this specification.                                   *)
(***************************************************************************)
EXTENDS Integers, FiniteSets

CONSTANTS Cap, Slots

\* What the theorems ask of the constants; Dialer assumes it of its own.
SlotAssumption == Cap \in Nat \ {0} /\ IsFiniteSet(Slots)

VARIABLES avail, owed, held, waiting

vars == <<avail, owed, held, waiting>>

Init == avail = Cap /\ owed = 0 /\ held = {} /\ waiting = {}

Free(s) == s \in Slots \ (held \cup waiting)

\* tryGetIncomingSlot, getOutgoingSlot without force: only when one is free.
TryAcquire(s) ==
    /\ Free(s)
    /\ avail > 0
    /\ avail' = avail - 1
    /\ held' = held \cup {s}
    /\ UNCHANGED <<owed, waiting>>

\* getOutgoingSlot(forceDial = true).
ForceAcquire(s) ==
    /\ Free(s)
    /\ held' = held \cup {s}
    /\ IF avail > 0 THEN avail' = avail - 1 /\ owed' = owed
                    ELSE avail' = avail /\ owed' = owed + 1
    /\ UNCHANGED waiting

\* getIncomingSlot when none is free, and its cancellation.
Wait(s) ==
    /\ Free(s)
    /\ avail = 0
    /\ waiting' = waiting \cup {s}
    /\ UNCHANGED <<avail, owed, held>>

Cancel(s) ==
    /\ s \in waiting
    /\ waiting' = waiting \ {s}
    /\ UNCHANGED <<avail, owed, held>>

\* release: to the first entry of the queue, or to the pool.
Release(s) ==
    /\ s \in held
    /\ \/ /\ owed = 0 /\ waiting = {}
          /\ avail' = avail + 1
          /\ held' = held \ {s}
          /\ UNCHANGED <<owed, waiting>>
       \/ /\ owed > 0
          /\ owed' = owed - 1
          /\ held' = held \ {s}
          /\ UNCHANGED <<avail, waiting>>
       \/ \E w \in waiting :
          /\ waiting' = waiting \ {w}
          /\ held' = (held \ {s}) \cup {w}
          /\ UNCHANGED <<avail, owed>>

Next ==
    \E s \in Slots :
        TryAcquire(s) \/ ForceAcquire(s) \/ Wait(s) \/ Cancel(s) \/ Release(s)

Spec == Init /\ [][Next]_vars

-----------------------------------------------------------------------------
(* Properties.                                                             *)

\* Types of the semaphore's fields.
TypeOK ==
    /\ avail \in Nat /\ owed \in Nat
    /\ held \subseteq Slots /\ waiting \subseteq Slots /\ held \cap waiting = {}

\* Slots are neither lost nor made: those held and those free are the capacity
\* and the forced ones that wait for their turn, in every order of releases.
Balanced == Cardinality(held) + avail = Cap + owed

\* The semaphore has no free slot while anyone waits for one.
NoIdleSlot == owed > 0 \/ waiting # {} => avail = 0

\* `release` cannot raise: "semaphore released without acquire" is unreachable,
\* for while a slot is held the semaphore is below its size.
ReleaseIsAcquired == held # {} => avail < Cap
=============================================================================
