-------------------------- MODULE SlotCountProofs ---------------------------
(***************************************************************************)
(* Proofs about SlotCount: connection slots are conserved and a release    *)
(* never exceeds the semaphore's size, for every capacity, every set of    *)
(* slots and every order of acquires, forced acquires and releases.        *)
(***************************************************************************)
EXTENDS SlotCount, FiniteSetTheorems, TLAPS

\* Together the facts about the semaphore are inductive.
IInv == TypeOK /\ Balanced /\ NoIdleSlot

\* A new element makes a finite set one larger, ...
LEMMA AddOne ==
    ASSUME NEW S, IsFiniteSet(S), NEW x, x \notin S
    PROVE  IsFiniteSet(S \cup {x}) /\ Cardinality(S \cup {x}) = Cardinality(S) + 1
BY FS_AddElement

\* ... and one less makes it one smaller.
LEMMA DropOne ==
    ASSUME NEW S, IsFiniteSet(S), NEW x \in S
    PROVE  IsFiniteSet(S \ {x}) /\ Cardinality(S \ {x}) = Cardinality(S) - 1
BY FS_RemoveElement

\* The held slots are finitely many.
LEMMA HeldFinite ==
    ASSUME SlotAssumption, TypeOK
    PROVE  IsFiniteSet(held) /\ Cardinality(held) \in Nat
BY FS_Subset, FS_CardinalityType DEF SlotAssumption, TypeOK

\* One step of the semaphore keeps the invariant.
LEMMA NextKeeps ==
    ASSUME SlotAssumption, IInv, Next
    PROVE  IInv'
<1> USE DEF SlotAssumption, IInv, TypeOK, Balanced, NoIdleSlot
<1>1. PICK s \in Slots :
        TryAcquire(s) \/ ForceAcquire(s) \/ Wait(s) \/ Cancel(s) \/ Release(s)
  BY DEF Next
<1>2. IsFiniteSet(held) /\ Cardinality(held) \in Nat
  BY HeldFinite
<1>3. s \notin held => Cardinality(held \cup {s}) = Cardinality(held) + 1
  BY <1>2, AddOne
<1>4. s \in held => /\ IsFiniteSet(held \ {s})
                    /\ Cardinality(held \ {s}) = Cardinality(held) - 1
  BY <1>2, DropOne
<1>5. CASE TryAcquire(s)
  BY <1>2, <1>3, <1>5 DEF TryAcquire, Free
<1>6. CASE ForceAcquire(s)
  <2>1. CASE avail > 0
    BY <1>2, <1>3, <1>6, <2>1 DEF ForceAcquire, Free
  <2>2. CASE ~(avail > 0)
    BY <1>2, <1>3, <1>6, <2>2 DEF ForceAcquire, Free
  <2> QED BY <2>1, <2>2
<1>7. CASE Wait(s)
  BY <1>7 DEF Wait, Free
<1>8. CASE Cancel(s)
  BY <1>8 DEF Cancel
<1>9. CASE Release(s)
  <2>1. CASE owed = 0 /\ waiting = {} /\ avail' = avail + 1 /\ held' = held \ {s}
                /\ UNCHANGED <<owed, waiting>>
    BY <1>2, <1>4, <1>9, <2>1 DEF Release
  <2>2. CASE owed > 0 /\ owed' = owed - 1 /\ held' = held \ {s}
                /\ UNCHANGED <<avail, waiting>>
    BY <1>2, <1>4, <1>9, <2>2 DEF Release
  <2>3. ASSUME NEW w \in waiting, waiting' = waiting \ {w},
               held' = (held \ {s}) \cup {w}, UNCHANGED <<avail, owed>>
        PROVE  IInv'
    <3>1. s \in held /\ w \notin held \ {s}
      BY <1>9, <2>3 DEF Release
    <3>4. Cardinality((held \ {s}) \cup {w}) = Cardinality(held \ {s}) + 1
      BY Zenon, <1>4, <3>1, AddOne
    <3>2. Cardinality(held') = Cardinality(held)
      BY <1>2, <1>4, <2>3, <3>1, <3>4
    <3>3. QED
      BY <2>3, <3>1, <3>2
  <2>4. QED
    BY <1>9, <2>1, <2>2, <2>3 DEF Release
<1>10. QED
  BY <1>1, <1>5, <1>6, <1>7, <1>8, <1>9

\* The semaphore's facts hold in every reachable state.
THEOREM Invariance ==
    ASSUME SlotAssumption
    PROVE  Spec => []IInv
<1>1. Init => IInv
  BY FS_EmptySet DEF SlotAssumption, Init, IInv, TypeOK, Balanced, NoIdleSlot
<1>2. IInv /\ UNCHANGED vars => IInv'
  BY DEF IInv, TypeOK, Balanced, NoIdleSlot, vars
<1>3. IInv /\ [Next]_vars => IInv'
  BY <1>2, NextKeeps
<1>4. QED
  BY <1>1, <1>3, PTL DEF Spec

\* Slots held and slots free are the capacity and the forced slots owed.
THEOREM SlotsBalanced ==
    ASSUME SlotAssumption
    PROVE  Spec => []Balanced
<1>1. IInv => Balanced
  BY DEF IInv
<1>2. QED
  BY <1>1, Invariance, PTL

\* A release always finds the semaphore below its size: the assertion in
\* ConnectionSlot.release is never reached.
THEOREM ReleaseNeverFails ==
    ASSUME SlotAssumption
    PROVE  Spec => []ReleaseIsAcquired
<1>1. ASSUME IInv PROVE ReleaseIsAcquired
  <2>1. SUFFICES ASSUME held # {} PROVE avail < Cap
    BY DEF ReleaseIsAcquired
  <2>2. PICK s : s \in held
    BY <2>1
  <2>3. IsFiniteSet(held) /\ Cardinality(held) \in Nat
    BY <1>1, HeldFinite DEF IInv
  <2>4. Cardinality(held) # 0
    BY <2>2, <2>3, FS_EmptySet
  <2>5. CASE owed > 0
    BY <1>1, <2>5 DEF SlotAssumption, IInv, NoIdleSlot, TypeOK
  <2>6. CASE ~(owed > 0)
    BY <1>1, <2>3, <2>4, <2>6 DEF SlotAssumption, IInv, Balanced, TypeOK
  <2>7. QED
    BY <2>5, <2>6
<1>2. QED
  BY <1>1, Invariance, PTL
=============================================================================
