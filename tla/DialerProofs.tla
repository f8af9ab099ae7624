---------------------------- MODULE DialerProofs ----------------------------
(***************************************************************************)
(* Proofs about Dialer.                                                    *)
(***************************************************************************)
EXTENDS Dialer, SequenceTheorems, FiniteSetTheorems, TLAPS

\* The sequence has the elements of the set, each once.
Lists(q, D) ==
    /\ \A i \in 1 .. Len(q) : q[i] \in D
    /\ \A x \in D : \E i \in 1 .. Len(q) : q[i] = x
    /\ \A i, j \in 1 .. Len(q) : q[i] = q[j] => i = j

\* A queue without repetitions, after an append and after a take.
LEMMA ListsAppend ==
    ASSUME NEW S, NEW q \in Seq(S), NEW D, Lists(q, D), NEW x \in S, x \notin D
    PROVE  Append(q, x) \in Seq(S) /\ Lists(Append(q, x), D \cup {x})
BY AppendProperties DEF Lists

LEMMA ListsTail ==
    ASSUME NEW S, NEW q \in Seq(S), NEW D, Lists(q, D), q # <<>>
    PROVE  /\ Head(q) \in D
           /\ Tail(q) \in Seq(S) /\ Lists(Tail(q), D \ {Head(q)})
<1>1. Len(q) \in Nat \ {0} /\ Head(q) = q[1]
  BY EmptySeq
<1>2. Tail(q) \in Seq(S) /\ Len(Tail(q)) = Len(q) - 1
      /\ \A i \in 1 .. Len(q) - 1 : Tail(q)[i] = q[i + 1]
  BY HeadTailProperties
<1>3. \A x \in D \ {Head(q)} : \E i \in 1 .. Len(Tail(q)) : Tail(q)[i] = x
  <2> TAKE x \in D \ {Head(q)}
  <2>1. PICK i \in 1 .. Len(q) : q[i] = x
    BY DEF Lists
  <2>2. i # 1 /\ i - 1 \in 1 .. Len(q) - 1 /\ (i - 1) + 1 = i
    BY <1>1, <2>1
  <2> QED
    BY <1>2, <2>1, <2>2
<1> QED
  BY <1>1, <1>2, <1>3 DEF Lists

\* ... and after the removal of one entry.
LEMMA ListsRemove ==
    ASSUME NEW S, NEW q \in Seq(S), NEW D, Lists(q, D), NEW k \in 1 .. Len(q)
    PROVE  Without(q, k) \in Seq(S) /\ Lists(Without(q, k), D \ {q[k]})
<1> DEFINE r == Without(q, k)
           a == SubSeq(q, 1, k - 1)
           b == SubSeq(q, k + 1, Len(q))
<1>0. Len(q) \in Nat /\ \A i \in 1 .. Len(q) : q[i] \in S
  BY ElementOfSeq
<1>1. a \in Seq(S) /\ Len(a) = k - 1 /\ \A i \in 1 .. k - 1 : a[i] = q[i]
  <2>1. k - 1 \in Int /\ \A i \in 1 .. k - 1 : q[i] \in S
    BY <1>0
  <2> QED
    BY <1>0, <2>1, SubSeqProperties
<1>2. b \in Seq(S) /\ Len(b) = Len(q) - k /\ \A i \in 1 .. Len(q) - k : b[i] = q[k + i]
  <2>1. k + 1 \in Int /\ \A i \in k + 1 .. Len(q) : q[i] \in S
    BY <1>0
  <2> QED
    BY <1>0, <2>1, SubSeqProperties
<1>3. r \in Seq(S) /\ Len(r) = Len(q) - 1
      /\ \A i \in 1 .. Len(q) - 1 : r[i] = IF i < k THEN q[i] ELSE q[i + 1]
  <2>1. r = a \o b
    BY DEF Without
  <2> HIDE DEF r, a, b
  <2>2. Len(a) + Len(b) = Len(q) - 1
    BY <1>0, <1>1, <1>2
  <2>3. r \in Seq(S) /\ Len(r) = Len(q) - 1
        /\ \A i \in 1 .. Len(q) - 1 : r[i] = IF i <= Len(a) THEN a[i] ELSE b[i - Len(a)]
    <3>1. /\ a \o b \in Seq(S) /\ Len(a \o b) = Len(a) + Len(b)
          /\ \A i \in 1 .. Len(a) + Len(b) :
                (a \o b)[i] = IF i <= Len(a) THEN a[i] ELSE b[i - Len(a)]
      BY ZenonT(30), <1>1, <1>2, ConcatProperties
    <3> QED
      BY <2>1, <2>2, <3>1
  <2>4. ASSUME NEW i \in 1 .. Len(q) - 1
        PROVE  r[i] = IF i < k THEN q[i] ELSE q[i + 1]
    <3>1. CASE i < k
      BY <1>0, <1>1, <2>3, <3>1
    <3>2. CASE ~(i < k)
      <4>1. i - (k - 1) \in 1 .. Len(q) - k /\ k + (i - (k - 1)) = i + 1
        BY <1>0, <3>2
      <4>2. r[i] = b[i - (k - 1)]
        BY <1>0, <1>1, <2>3, <3>2
      <4> QED
        BY ZenonT(30), <1>2, <3>2, <4>1, <4>2
    <3> QED
      BY <3>1, <3>2
  <2> QED
    BY <2>3, <2>4
<1> HIDE DEF r
<1>4. \A x \in D \ {q[k]} : \E i \in 1 .. Len(r) : r[i] = x
  <2> TAKE x \in D \ {q[k]}
  <2>1. PICK i \in 1 .. Len(q) : q[i] = x
    BY DEF Lists
  <2>2. CASE i < k
    BY <1>0, <1>3, <2>1, <2>2
  <2>3. CASE i > k
    <3>1. i - 1 \in 1 .. Len(q) - 1 /\ ~(i - 1 < k) /\ (i - 1) + 1 = i
      BY <1>0, <2>3
    <3> QED
      BY ZenonT(30), <1>3, <2>1, <3>1
  <2> QED
    BY <1>0, <2>1, <2>2, <2>3
<1>5. \A i \in 1 .. Len(r) : r[i] \in D \ {q[k]}
  BY <1>0, <1>3 DEF Lists
<1>6. \A i, j \in 1 .. Len(r) : r[i] = r[j] => i = j
  BY <1>0, <1>3 DEF Lists
<1> QED
  BY <1>3, <1>4, <1>5, <1>6 DEF Lists, r

-----------------------------------------------------------------------------
(* The peers' locks.                                                       *)

\* Where a dial is.
Phases == {"idle", "locking", "granted", "dialing", "finishing", "closing", "done"}

\* The dials that queue for the lock of p, and all that keep it in the table.
Waiting(p) == {d \in Dials : Target[d] = p /\ phase[d] = "locking"}
Users(p) == {d \in Dials : Target[d] = p /\ (Busy(d) \/ phase[d] = "locking")}

\* A peer's lock is held by the one dial under way to the peer, its queue lists
\* the dials that wait for it, and nobody waits for a lock that is free.
LockInv ==
    /\ phase \in [Dials -> Phases] /\ holder \in [Peers -> Dials \cup {None}]
    /\ lockQueue \in [Peers -> Seq(Dials)] /\ users \in [Peers -> Nat]
    /\ \A d \in Dials : phase[d] = "locking" => Target[d] # None
    /\ \A p \in Peers, d \in Dials : holder[p] = d <=> Busy(d) /\ Target[d] = p
    /\ \A p \in Peers : Lists(lockQueue[p], Waiting(p))
    /\ \A p \in Peers : holder[p] = None => lockQueue[p] = <<>>
    /\ LockTableIsExact

\* The users of a lock are finitely many.
LEMMA UsersFinite ==
    ASSUME NEW p
    PROVE  IsFiniteSet(Users(p)) /\ Cardinality(Users(p)) \in Nat
<1>1. Users(p) \subseteq Dials
  BY DEF Users
<1> QED
  BY <1>1, DialerAssumption, FS_Subset, FS_CardinalityType DEF DialerAssumption

\* Moves of dials that leave every set of users as it is leave the count right.
LEMMA SameUsers ==
    ASSUME LockInv, UNCHANGED users,
           \A e \in Dials : (Busy(e) \/ phase[e] = "locking")' <=> (Busy(e) \/ phase[e] = "locking")
    PROVE  LockTableIsExact'
<1>1. \A p \in Peers : Users(p)' = Users(p)
  BY DEF Users
<1> QED
  BY <1>1 DEF LockInv, LockTableIsExact, Users

\* The count stays right when a dial leaves with its user.
LEMMA UserLeaves ==
    ASSUME LockInv, NEW d \in Dials, Target[d] \in Peers,
           Busy(d) \/ phase[d] = "locking", phase'[d] = "done", DropUser(Target[d]),
           \A e \in Dials \ {d} :
                (Busy(e) \/ phase[e] = "locking")' <=> (Busy(e) \/ phase[e] = "locking")
    PROVE  LockTableIsExact' /\ users' \in [Peers -> Nat]
<1>1. \A p \in Peers : Users(p)' = IF p = Target[d] THEN Users(p) \ {d} ELSE Users(p)
  BY DEF Users, Busy
<1>2. d \in Users(Target[d])
  BY DEF Users
<1>3. \A p \in Peers : users[p] = Cardinality(Users(p))
  BY DEF LockInv, LockTableIsExact, Users
<1>4. Cardinality(Users(Target[d]) \ {d}) = Cardinality(Users(Target[d])) - 1
      /\ IsFiniteSet(Users(Target[d]) \ {d})
  BY <1>2, UsersFinite, FS_RemoveElement
<1>5. \A p \in Peers : users'[p] = IF p = Target[d] THEN users[p] - 1 ELSE users[p]
  BY DEF DropUser, LockInv
<1>6. \A p \in Peers : users'[p] = Cardinality(Users(p)')
  BY ZenonT(30), <1>1, <1>3, <1>4, <1>5
<1>7. \A p \in Peers : users'[p] \in Nat
  BY <1>3, <1>4, <1>5, FS_CardinalityType, UsersFinite
<1>8. users' \in [Peers -> Nat]
  BY <1>7 DEF DropUser, LockInv
<1> QED
  BY <1>6, <1>8 DEF LockTableIsExact, Users

\* ... and when a dial joins with its user.
LEMMA UserJoins ==
    ASSUME LockInv, NEW d \in Dials, Target[d] \in Peers,
           phase[d] = "idle", phase'[d] \in {"locking", "granted"},
           users' = [users EXCEPT ![Target[d]] = @ + 1],
           \A e \in Dials \ {d} : phase'[e] = phase[e]
    PROVE  LockTableIsExact' /\ users' \in [Peers -> Nat]
<1>1. \A p \in Peers : Users(p)' = IF p = Target[d] THEN Users(p) \cup {d} ELSE Users(p)
  BY DEF Users, Busy
<1>2. d \notin Users(Target[d])
  BY DEF Users, Busy
<1>3. \A p \in Peers : users[p] = Cardinality(Users(p))
  BY DEF LockInv, LockTableIsExact, Users
<1>4. Cardinality(Users(Target[d]) \cup {d}) = Cardinality(Users(Target[d])) + 1
  BY Zenon, <1>2, UsersFinite, FS_AddElement
<1>5. \A p \in Peers : users'[p] = IF p = Target[d] THEN users[p] + 1 ELSE users[p]
  BY DEF LockInv
<1>6. \A p \in Peers : users'[p] = Cardinality(Users(p)')
  BY <1>1, <1>3, <1>4, <1>5
<1>7. users' \in [Peers -> Nat]
  BY DEF LockInv
<1> QED
  BY <1>6, <1>7 DEF LockTableIsExact, Users

\* A dial to a peer that is under way holds the peer's lock and is its only one.
LEMMA HolderIsAlone ==
    ASSUME LockInv, NEW d \in Dials, Busy(d), Target[d] # None
    PROVE  /\ Target[d] \in Peers /\ holder[Target[d]] = d
           /\ \A e \in Dials : Busy(e) /\ Target[e] = Target[d] => e = d
BY DialerAssumption DEF DialerAssumption, LockInv

\* A dial that goes on, with the lock if it has one, disturbs no lock.
LEMMA StaysBusy ==
    ASSUME LockInv, NEW d \in Dials, Busy(d), UNCHANGED lockVars,
           NEW to \in {"dialing", "finishing", "closing"}, phase' = [phase EXCEPT ![d] = to]
    PROVE  LockInv'
<1>1. phase' \in [Dials -> Phases] /\ Busy(d)' /\ phase'[d] # "locking" /\ phase[d] # "locking"
  BY DEF LockInv, Phases, Busy
<1>2. \A e \in Dials \ {d} : phase'[e] = phase[e]
  BY DEF LockInv
<1>3. \A e \in Dials : (Busy(e)' <=> Busy(e)) /\ (phase'[e] = "locking" <=> phase[e] = "locking")
  BY <1>1, <1>2 DEF Busy
<1>4. LockTableIsExact'
  BY <1>3, SameUsers DEF lockVars
<1>5. \A p \in Peers : Waiting(p)' = Waiting(p)
  BY <1>3 DEF Waiting
<1>6. \A p \in Peers : Lists(lockQueue[p], Waiting(p))'
  BY <1>5 DEF LockInv, lockVars, Lists
<1> QED
  BY <1>1, <1>3, <1>4, <1>6 DEF LockInv, lockVars

\* What the end of a dial does to the phases: the dial is done, and at most one
\* other dial, which waited, is granted the lock.
LEMMA EndDialPhase ==
    ASSUME LockInv, NEW d \in Dials, Busy(d), NEW how, EndDial(d, how)
    PROVE  /\ phase' \in [Dials -> Phases]
           /\ phase'[d] = "done"
           /\ \A e \in Dials \ {d} :
                phase'[e] = phase[e] \/ (phase[e] = "locking" /\ phase'[e] = "granted")
<1> DEFINE p == Target[d]
           q == lockQueue[p]
<1>1. CASE p = None \/ q = <<>>
  <2>1. phase' = [phase EXCEPT ![d] = "done"]
    BY <1>1 DEF EndDial
  <2> QED
    BY <2>1 DEF LockInv, Phases
<1>3. CASE p # None /\ q # <<>>
  <2>1. p \in Peers
    BY <1>3, HolderIsAlone
  <2>2. Head(q) \in Waiting(p)
    BY ZenonT(30), <1>3, <2>1, ListsTail DEF LockInv
  <2>3. Head(q) \in Dials /\ phase[Head(q)] = "locking" /\ Head(q) # d
    BY <2>2 DEF Waiting, Busy
  <2>4. phase' = [phase EXCEPT ![d] = "done", ![Head(q)] = "granted"]
    BY <1>3 DEF EndDial
  <2> QED
    BY <2>3, <2>4 DEF LockInv, Phases
<1> QED
  BY <1>1, <1>3

\* releaseDialLock keeps the locks in order: the first waiter has the lock, or
\* nobody waits.
LEMMA EndDialKeepsLocks ==
    ASSUME LockInv, NEW d \in Dials, Busy(d), NEW how, EndDial(d, how)
    PROVE  LockInv'
<1> DEFINE p == Target[d]
           q == lockQueue[p]
<1>1. CASE p = None
  <2>1. phase' = [phase EXCEPT ![d] = "done"] /\ UNCHANGED lockVars
    BY <1>1 DEF EndDial
  <2>2. phase' \in [Dials -> Phases] /\ \A e \in Dials \ {d} : phase'[e] = phase[e]
    BY <2>1 DEF LockInv, Phases
  <2>3. phase'[d] = "done" /\ ~Busy(d)'
    BY <2>1 DEF LockInv, Busy
  <2>4. \A pp \in Peers : Target[d] # pp
    BY <1>1, DialerAssumption DEF DialerAssumption
  <2>5. \A pp \in Peers : Waiting(pp)' = Waiting(pp) /\ Users(pp)' = Users(pp)
    BY <2>2, <2>4 DEF Waiting, Users, Busy
  <2>6. LockTableIsExact'
    <3>1. \A pp \in Peers : users[pp] = Cardinality(Users(pp))
      BY DEF LockInv, LockTableIsExact, Users
    <3>2. \A pp \in Peers : users'[pp] = Cardinality(Users(pp)')
      BY <2>1, <2>5, <3>1 DEF lockVars
    <3> QED
      BY <3>2 DEF LockTableIsExact, Users
  <2>7. \A pp \in Peers : Lists(lockQueue[pp], Waiting(pp))'
    <3> SUFFICES ASSUME NEW pp \in Peers PROVE Lists(lockQueue'[pp], Waiting(pp)')
      OBVIOUS
    <3> QED
      BY <2>1, <2>5 DEF LockInv, lockVars
  <2>8. \A e \in Dials : \A pp \in Peers : (Busy(e) /\ Target[e] = pp)' <=> (Busy(e) /\ Target[e] = pp)
    BY <2>2, <2>4 DEF Busy
  <2>9. \A e \in Dials : phase'[e] = "locking" => Target[e] # None
    BY <2>2, <2>3 DEF LockInv
  <2> QED
    BY <2>1, <2>2, <2>6, <2>7, <2>8, <2>9 DEF LockInv, lockVars
<1>2. CASE p # None /\ q = <<>>
  <2>1. p \in Peers /\ holder[p] = d /\ \A e \in Dials : Busy(e) /\ Target[e] = p => e = d
    BY <1>2, HolderIsAlone
  <2>2. /\ phase' = [phase EXCEPT ![d] = "done"] /\ holder' = [holder EXCEPT ![p] = None]
        /\ DropUser(p) /\ UNCHANGED lockQueue
    BY <1>2 DEF EndDial
  <2>3. phase' \in [Dials -> Phases] /\ \A e \in Dials \ {d} : phase'[e] = phase[e]
    BY <2>2 DEF LockInv, Phases
  <2>4. phase'[d] = "done" /\ ~Busy(d)' /\ phase[d] # "locking"
    BY <2>2 DEF LockInv, Busy
  <2>5. \A e \in Dials \ {d} : Busy(e)' <=> Busy(e)
    BY <2>3 DEF Busy
  <2>6. LockTableIsExact' /\ users' \in [Peers -> Nat]
    BY <2>1, <2>2, <2>3, <2>4, <2>5, UserLeaves
  <2>7. \A pp \in Peers : Waiting(pp)' = Waiting(pp)
    BY <2>3, <2>4 DEF Waiting
  <2>8. \A pp \in Peers : Lists(lockQueue[pp], Waiting(pp))'
    BY <2>2, <2>7 DEF LockInv, Lists
  <2>9. \A pp \in Peers : holder'[pp] = IF pp = p THEN None ELSE holder[pp]
    BY <2>2 DEF LockInv
  <2>10. \A pp \in Peers, e \in Dials : (holder[pp] = e <=> Busy(e) /\ Target[e] = pp)'
    BY <2>1, <2>4, <2>5, <2>9, DialerAssumption DEF LockInv, DialerAssumption
  <2>11. \A e \in Dials : phase'[e] = "locking" => Target[e] # None
    BY <2>3, <2>4 DEF LockInv
  <2>12. \A pp \in Peers : holder'[pp] = None => lockQueue'[pp] = <<>>
    BY <1>2, <2>2, <2>9 DEF LockInv
  <2> QED
    BY ZenonT(30), <2>2, <2>3, <2>6, <2>8, <2>10, <2>11, <2>12 DEF LockInv
<1>3. CASE p # None /\ q # <<>>
  <2>0. PICK h : h = Head(q)
    OBVIOUS
  <2>1. p \in Peers /\ holder[p] = d /\ \A e \in Dials : Busy(e) /\ Target[e] = p => e = d
    BY <1>3, HolderIsAlone
  <2>2. h \in Waiting(p) /\ Tail(q) \in Seq(Dials) /\ Lists(Tail(q), Waiting(p) \ {h})
    BY Zenon, <1>3, <2>0, <2>1, ListsTail DEF LockInv
  <2>3. h \in Dials /\ Target[h] = p /\ phase[h] = "locking" /\ h # d
    BY <2>2 DEF Waiting, Busy
  <2>4. /\ phase' = [phase EXCEPT ![d] = "done", ![h] = "granted"]
        /\ holder' = [holder EXCEPT ![p] = h] /\ lockQueue' = [lockQueue EXCEPT ![p] = Tail(q)]
        /\ DropUser(p)
    BY <1>3, <2>0 DEF EndDial
  <2>5. /\ phase' \in [Dials -> Phases] /\ phase'[d] = "done" /\ phase'[h] = "granted"
        /\ \A e \in Dials \ {d, h} : phase'[e] = phase[e]
    BY <2>3, <2>4 DEF LockInv, Phases
  <2>6. /\ ~Busy(d)' /\ phase[d] # "locking" /\ Busy(h)' /\ ~Busy(h)
        /\ \A e \in Dials \ {d, h} : Busy(e)' <=> Busy(e)
    BY <2>3, <2>5 DEF Busy
  <2>7. LockTableIsExact' /\ users' \in [Peers -> Nat]
    BY <2>1, <2>3, <2>4, <2>5, <2>6, UserLeaves
  <2>8. \A pp \in Peers : Waiting(pp)' = IF pp = p THEN Waiting(p) \ {h} ELSE Waiting(pp)
    BY <2>3, <2>5, <2>6 DEF Waiting
  <2>9. \A pp \in Peers : lockQueue'[pp] = IF pp = p THEN Tail(q) ELSE lockQueue[pp]
    BY <2>1, <2>4 DEF LockInv
  <2>10. \A pp \in Peers : Lists(lockQueue[pp], Waiting(pp))'
    <3> SUFFICES ASSUME NEW pp \in Peers PROVE Lists(lockQueue'[pp], Waiting(pp)')
      OBVIOUS
    <3>1. CASE pp = p
      BY ZenonT(30), <2>2, <2>8, <2>9, <3>1
    <3>2. CASE pp # p
      BY <2>8, <2>9, <3>2 DEF LockInv
    <3> QED
      BY <3>1, <3>2
  <2>11. \A pp \in Peers : holder'[pp] = IF pp = p THEN h ELSE holder[pp]
    BY <2>1, <2>4 DEF LockInv
  <2>12. \A pp \in Peers, e \in Dials : (holder[pp] = e <=> Busy(e) /\ Target[e] = pp)'
    BY <2>1, <2>3, <2>6, <2>11 DEF LockInv
  <2>13. \A e \in Dials : phase'[e] = "locking" => Target[e] # None
    BY <2>5 DEF LockInv
  <2>14. \A pp \in Peers : holder'[pp] = None => lockQueue'[pp] = <<>>
    BY <2>3, <2>9, <2>11, DialerAssumption DEF LockInv, DialerAssumption
  <2>15. lockQueue' \in [Peers -> Seq(Dials)] /\ holder' \in [Peers -> Dials \cup {None}]
    BY <2>1, <2>2, <2>3, <2>4 DEF LockInv
  <2> QED
    BY <2>5, <2>7, <2>10, <2>12, <2>13, <2>14, <2>15 DEF LockInv
<1> QED
  BY <1>1, <1>2, <1>3

\* acquireDialLock: the lock is taken when it is free, else the dial queues up.
LEMMA ConnectKeepsLocks ==
    ASSUME LockInv, NEW d \in Dials, Connect(d)
    PROVE  LockInv'
<1> DEFINE p == Target[d]
<1>0. phase[d] = "idle" /\ ~Busy(d)
  BY DEF Connect, Busy
<1>1. CASE p = None
  <2>1. phase' = [phase EXCEPT ![d] = "granted"] /\ UNCHANGED lockVars
    BY <1>1 DEF Connect
  <2>2. /\ phase' \in [Dials -> Phases] /\ phase'[d] = "granted"
        /\ \A e \in Dials \ {d} : phase'[e] = phase[e]
    BY <2>1 DEF LockInv, Phases
  <2>4. \A pp \in Peers : Target[d] # pp
    BY <1>1, DialerAssumption DEF DialerAssumption
  <2>5. \A pp \in Peers : Waiting(pp)' = Waiting(pp) /\ Users(pp)' = Users(pp)
    BY <2>2, <2>4 DEF Waiting, Users, Busy
  <2>6. LockTableIsExact'
    <3>1. \A pp \in Peers : users[pp] = Cardinality(Users(pp))
      BY DEF LockInv, LockTableIsExact, Users
    <3>2. \A pp \in Peers : users'[pp] = Cardinality(Users(pp)')
      BY <2>1, <2>5, <3>1 DEF lockVars
    <3> QED
      BY <3>2 DEF LockTableIsExact, Users
  <2>7. \A pp \in Peers : Lists(lockQueue[pp], Waiting(pp))'
    <3> SUFFICES ASSUME NEW pp \in Peers PROVE Lists(lockQueue'[pp], Waiting(pp)')
      OBVIOUS
    <3> QED
      BY <2>1, <2>5 DEF LockInv, lockVars
  <2>8. \A e \in Dials : \A pp \in Peers : (Busy(e) /\ Target[e] = pp)' <=> (Busy(e) /\ Target[e] = pp)
    BY <2>2, <2>4 DEF Busy
  <2>9. \A e \in Dials : phase'[e] = "locking" => Target[e] # None
    BY <2>2 DEF LockInv
  <2> QED
    BY <2>1, <2>2, <2>6, <2>7, <2>8, <2>9 DEF LockInv, lockVars
<1>2. CASE p # None /\ LockFree(p)
  <2>1. p \in Peers
    BY <1>2, DialerAssumption DEF DialerAssumption
  <2>2. /\ phase' = [phase EXCEPT ![d] = "granted"] /\ holder' = [holder EXCEPT ![p] = d]
        /\ users' = [users EXCEPT ![p] = @ + 1] /\ UNCHANGED lockQueue
    BY <1>2 DEF Connect
  <2>3. /\ phase' \in [Dials -> Phases] /\ phase'[d] = "granted" /\ Busy(d)'
        /\ \A e \in Dials \ {d} : phase'[e] = phase[e] /\ (Busy(e)' <=> Busy(e))
    BY <2>2 DEF LockInv, Phases, Busy
  <2>4. LockTableIsExact' /\ users' \in [Peers -> Nat]
    BY ZenonT(30), <1>0, <2>1, <2>2, <2>3, UserJoins
  <2>5. \A pp \in Peers : Waiting(pp)' = Waiting(pp)
    BY <1>0, <2>3 DEF Waiting
  <2>6. \A pp \in Peers : Lists(lockQueue[pp], Waiting(pp))'
    <3> SUFFICES ASSUME NEW pp \in Peers PROVE Lists(lockQueue'[pp], Waiting(pp)')
      OBVIOUS
    <3> QED
      BY <2>2, <2>5 DEF LockInv
  <2>7. holder' \in [Peers -> Dials \cup {None}]
        /\ \A pp \in Peers : holder'[pp] = IF pp = p THEN d ELSE holder[pp]
    BY <2>1, <2>2 DEF LockInv
  <2>8. \A e \in Dials : ~(Busy(e) /\ Target[e] = p)
    BY <1>2, <2>1, DialerAssumption DEF LockInv, LockFree, DialerAssumption
  <2>9. \A pp \in Peers, e \in Dials : (holder[pp] = e <=> Busy(e) /\ Target[e] = pp)'
    BY <1>0, <2>3, <2>7, <2>8 DEF LockInv
  <2>10. \A e \in Dials : phase'[e] = "locking" => Target[e] # None
    BY <2>3 DEF LockInv
  <2>11. \A pp \in Peers : holder'[pp] = None => lockQueue'[pp] = <<>>
    BY <2>2, <2>7, DialerAssumption DEF LockInv, DialerAssumption
  <2> QED
    BY <2>2, <2>3, <2>4, <2>6, <2>7, <2>9, <2>10, <2>11 DEF LockInv
<1>3. CASE p # None /\ ~LockFree(p)
  <2>1. p \in Peers
    BY <1>3, DialerAssumption DEF DialerAssumption
  <2>2. /\ phase' = [phase EXCEPT ![d] = "locking"] /\ UNCHANGED holder
        /\ lockQueue' = [lockQueue EXCEPT ![p] = Append(@, d)]
        /\ users' = [users EXCEPT ![p] = @ + 1]
    BY <1>3 DEF Connect
  <2>3. /\ phase' \in [Dials -> Phases] /\ phase'[d] = "locking" /\ ~Busy(d)'
        /\ \A e \in Dials \ {d} : phase'[e] = phase[e] /\ (Busy(e)' <=> Busy(e))
    BY <2>2 DEF LockInv, Phases, Busy
  <2>4. LockTableIsExact' /\ users' \in [Peers -> Nat]
    BY ZenonT(30), <1>0, <2>1, <2>2, <2>3, UserJoins
  <2>5. \A pp \in Peers : Waiting(pp)' = IF pp = p THEN Waiting(p) \cup {d} ELSE Waiting(pp)
    BY <1>0, <2>3 DEF Waiting
  <2>6. \A pp \in Peers : lockQueue'[pp] = IF pp = p THEN Append(lockQueue[p], d) ELSE lockQueue[pp]
    BY <2>1, <2>2 DEF LockInv
  <2>7. d \notin Waiting(p)
    BY <1>0 DEF Waiting
  <2>8. Append(lockQueue[p], d) \in Seq(Dials)
        /\ Lists(Append(lockQueue[p], d), Waiting(p) \cup {d})
    BY <2>1, <2>7, ListsAppend DEF LockInv
  <2>9. \A pp \in Peers : Lists(lockQueue[pp], Waiting(pp))'
    <3> SUFFICES ASSUME NEW pp \in Peers PROVE Lists(lockQueue'[pp], Waiting(pp)')
      OBVIOUS
    <3>1. CASE pp = p
      BY ZenonT(30), <2>5, <2>6, <2>8, <3>1
    <3>2. CASE pp # p
      BY <2>5, <2>6, <3>2 DEF LockInv
    <3> QED
      BY <3>1, <3>2
  <2>10. lockQueue' \in [Peers -> Seq(Dials)]
    BY <2>1, <2>2, <2>8 DEF LockInv
  <2>11. \A pp \in Peers, e \in Dials : (holder[pp] = e <=> Busy(e) /\ Target[e] = pp)'
    BY <1>0, <2>2, <2>3 DEF LockInv
  <2>12. \A e \in Dials : phase'[e] = "locking" => Target[e] # None
    BY <1>3, <2>3 DEF LockInv
  <2>13. \A pp \in Peers : holder'[pp] = None => lockQueue'[pp] = <<>>
    BY <1>3, <2>2, <2>6 DEF LockInv, LockFree
  <2> QED
    BY <2>2, <2>3, <2>4, <2>9, <2>10, <2>11, <2>12, <2>13 DEF LockInv
<1> QED
  BY <1>1, <1>2, <1>3

\* A dial that is cancelled while it waits leaves the queue and the table.
LEMMA CancelKeepsLocks ==
    ASSUME LockInv, NEW d \in Dials, CancelWaiting(d)
    PROVE  LockInv'
<1> DEFINE p == Target[d]
           q == lockQueue[p]
<1>0. phase[d] = "locking" /\ ~Busy(d) /\ p \in Peers
  <2>1. phase[d] = "locking"
    BY DEF CancelWaiting
  <2>2. ~Busy(d)
    BY <2>1 DEF Busy
  <2> QED
    BY <2>1, <2>2, DialerAssumption DEF LockInv, DialerAssumption
<1>1. q \in Seq(Dials) /\ Lists(q, Waiting(p)) /\ DOMAIN q = 1 .. Len(q)
  BY <1>0, LenProperties DEF LockInv
<1>2. PICK k \in 1 .. Len(q) :
        q[k] = d /\ lockQueue' = [lockQueue EXCEPT ![p] = Without(q, k)]
  BY ZenonT(30), <1>1 DEF CancelWaiting
<1>3. Without(q, k) \in Seq(Dials) /\ Lists(Without(q, k), Waiting(p) \ {d})
  BY <1>1, <1>2, ListsRemove
<1>4. phase' = [phase EXCEPT ![d] = "done"] /\ UNCHANGED holder /\ DropUser(p)
  BY DEF CancelWaiting
<1>5. /\ phase' \in [Dials -> Phases] /\ phase'[d] = "done" /\ ~Busy(d)'
      /\ \A e \in Dials \ {d} : phase'[e] = phase[e] /\ (Busy(e)' <=> Busy(e))
  BY <1>4 DEF LockInv, Phases, Busy
<1>6. LockTableIsExact' /\ users' \in [Peers -> Nat]
  BY <1>0, <1>4, <1>5, UserLeaves
<1>7. \A pp \in Peers : Waiting(pp)' = IF pp = p THEN Waiting(p) \ {d} ELSE Waiting(pp)
  BY <1>5 DEF Waiting
<1>8. \A pp \in Peers : lockQueue'[pp] = IF pp = p THEN Without(q, k) ELSE lockQueue[pp]
  BY <1>0, <1>2 DEF LockInv
<1>9. \A pp \in Peers : Lists(lockQueue[pp], Waiting(pp))'
  <2> SUFFICES ASSUME NEW pp \in Peers PROVE Lists(lockQueue'[pp], Waiting(pp)')
    OBVIOUS
  <2>1. CASE pp = p
    BY ZenonT(30), <1>3, <1>7, <1>8, <2>1
  <2>2. CASE pp # p
    BY <1>7, <1>8, <2>2 DEF LockInv
  <2> QED
    BY <2>1, <2>2
<1>10. lockQueue' \in [Peers -> Seq(Dials)]
  BY <1>0, <1>2, <1>3 DEF LockInv
<1>11. \A pp \in Peers, e \in Dials : (holder[pp] = e <=> Busy(e) /\ Target[e] = pp)'
  BY <1>0, <1>4, <1>5 DEF LockInv
<1>12. \A e \in Dials : phase'[e] = "locking" => Target[e] # None
  BY <1>5 DEF LockInv
<1>13. \A pp \in Peers : holder'[pp] = None => lockQueue'[pp] = <<>>
  <2>1. q # <<>>
    BY <1>1, <1>2, EmptySeq
  <2>2. holder[p] # None
    BY <1>0, <2>1 DEF LockInv
  <2> QED
    BY <1>4, <1>8, <2>2 DEF LockInv
<1> QED
  BY <1>4, <1>5, <1>6, <1>9, <1>10, <1>11, <1>12, <1>13 DEF LockInv

-----------------------------------------------------------------------------
(* The slots.                                                              *)

\* A slot belongs to a dial that is out or to a connection with a monitor, and only
\* a dial that got that far has a connection.
AccountInv ==
    /\ conn \in [Conns -> {"none", "stored", "closed"}]
    /\ monitor \subseteq Conns /\ queue \in Seq(Dials)
    /\ SlotsAreAccountedFor
    /\ \A c \in monitor : conn[c] # "none"
    /\ \A d \in Dials : phase[d] \in {"idle", "locking", "granted", "dialing"} => conn[d] = "none"

\* And the semaphore's counts balance.
SlotInv == AccountInv /\ SC!TypeOK /\ SC!Balanced /\ SC!NoIdleSlot

\* release is a release of the abstract semaphore: to the forced dial that is
\* owed a slot, or to the pool.
LEMMA ReleaseIsRelease ==
    ASSUME SlotInv, NEW c \in held, Release(c)
    PROVE  SC!Next /\ queue' \in Seq(Dials) /\ held' = held \ {c}
<1>1. c \in Conns /\ Len(queue) \in Nat /\ held' = held \ {c}
  BY LenProperties DEF SlotInv, AccountInv, SC!TypeOK, Release
<1>2. CASE queue = <<>>
  <2>1. Len(queue) = 0 /\ avail' = avail + 1 /\ queue' = queue
    BY <1>2 DEF Release
  <2>2. SC!Release(c)
    BY <1>1, <2>1 DEF SC!Release
  <2> QED
    BY <1>1, <2>1, <2>2 DEF SC!Next, SlotInv, AccountInv
<1>3. CASE queue # <<>>
  <2>1. avail' = avail /\ queue' = Tail(queue)
    BY <1>3 DEF Release
  <2>2. Len(queue) > 0 /\ Len(queue') = Len(queue) - 1 /\ queue' \in Seq(Dials)
    BY <1>3, <2>1, EmptySeq, HeadTailProperties DEF SlotInv, AccountInv
  <2>3. SC!Release(c)
    BY Zenon, <1>1, <2>1, <2>2 DEF SC!Release
  <2> QED
    BY <1>1, <2>2, <2>3 DEF SC!Next
<1> QED
  BY <1>2, <1>3

\* getOutgoingSlot takes a free slot, or forces one and enters the queue.
LEMMA GetIsAcquire ==
    ASSUME SlotInv, NEW d \in Dials, d \notin held, GetOutgoingSlot(d)
    PROVE  SC!Next /\ queue' \in Seq(Dials) /\ held' = held \cup {d}
<1>1. SC!Free(d) /\ d \in Conns /\ held' = held \cup {d}
  BY DEF SC!Free, GetOutgoingSlot, Conns
<1>2. CASE avail > 0
  <2>1. avail' = avail - 1 /\ queue' = queue
    BY <1>2 DEF GetOutgoingSlot
  <2>2. SC!ForceAcquire(d)
    BY <1>1, <1>2, <2>1 DEF SC!ForceAcquire
  <2> QED
    BY <1>1, <2>1, <2>2 DEF SC!Next, SlotInv, AccountInv
<1>3. CASE ~(avail > 0)
  <2>1. avail' = avail /\ queue' = Append(queue, d)
    BY <1>3 DEF GetOutgoingSlot
  <2>2. queue' \in Seq(Dials) /\ Len(queue') = Len(queue) + 1
    BY <2>1, AppendProperties DEF SlotInv, AccountInv
  <2>3. SC!ForceAcquire(d)
    BY <1>1, <1>3, <2>1, <2>2 DEF SC!ForceAcquire
  <2> QED
    BY <1>1, <2>2, <2>3 DEF SC!Next
<1> QED
  BY <1>2, <1>3

\* The end of a dial that is not out leaves the slots as they are ...
LEMMA EndKeepsSlots ==
    ASSUME LockInv, SlotInv, NEW d \in Dials, Busy(d), phase[d] # "dialing", NEW how,
           EndDial(d, how), UNCHANGED <<conn, monitor, slotVars>>
    PROVE  AccountInv' /\ UNCHANGED SC!vars
<1>1. UNCHANGED SC!vars
  BY DEF SC!vars, slotVars
<1>3. \A e \in Dials : phase'[e] = "dialing" <=> phase[e] = "dialing"
  BY EndDialPhase
<1>4. SlotsAreAccountedFor'
  BY <1>3 DEF SlotInv, AccountInv, SlotsAreAccountedFor, slotVars
<1>5. \A e \in Dials : phase'[e] \in {"idle", "locking", "granted", "dialing"}
            => phase[e] \in {"idle", "locking", "granted", "dialing"}
  BY EndDialPhase
<1> QED
  BY <1>1, <1>4, <1>5 DEF SlotInv, AccountInv, slotVars

\* ... and one that is out gives its slot back.
LEMMA EndReleasesSlot ==
    ASSUME LockInv, SlotInv, NEW d \in Dials, phase[d] = "dialing", NEW how,
           EndDial(d, how), Release(d), UNCHANGED <<conn, monitor>>
    PROVE  AccountInv' /\ SC!Next
<1>1. d \in held /\ d \notin monitor
  BY DEF SlotInv, AccountInv, SlotsAreAccountedFor
<1>2. SC!Next /\ queue' \in Seq(Dials) /\ held' = held \ {d}
  BY <1>1, ReleaseIsRelease
<1>4. Busy(d)
  BY DEF Busy
<1>5. \A e \in Dials : phase'[e] = "dialing" <=> phase[e] = "dialing" /\ e # d
  BY <1>4, EndDialPhase
<1>6. SlotsAreAccountedFor'
  BY <1>1, <1>2, <1>5 DEF SlotInv, AccountInv, SlotsAreAccountedFor
<1>7. \A e \in Dials : phase'[e] \in {"idle", "locking", "granted", "dialing"}
            => phase[e] \in {"idle", "locking", "granted", "dialing"}
  BY <1>4, EndDialPhase
<1> QED
  BY <1>2, <1>6, <1>7 DEF SlotInv, AccountInv

\* The monitor of a connection gives its slot back.
LEMMA MonitorKeepsSlots ==
    ASSUME SlotInv, NEW c \in monitor, Release(c), monitor' = monitor \ {c}, UNCHANGED <<phase, conn>>
    PROVE  AccountInv' /\ SC!Next
<1>1. c \in held /\ (c \in Dials => phase[c] # "dialing")
  BY DEF SlotInv, AccountInv, SlotsAreAccountedFor
<1>2. SC!Next /\ queue' \in Seq(Dials) /\ held' = held \ {c}
  BY <1>1, ReleaseIsRelease
<1>4. SlotsAreAccountedFor'
  BY <1>1, <1>2 DEF SlotInv, AccountInv, SlotsAreAccountedFor
<1> QED
  BY <1>2, <1>4 DEF SlotInv, AccountInv

\* Every step of the dialer keeps the slots accounted for, and is a step of the
\* abstract semaphore or leaves it alone.
LEMMA SlotNext ==
    ASSUME LockInv, SlotInv, [Next]_vars
    PROVE  AccountInv' /\ (SC!Next \/ UNCHANGED SC!vars)
<1> DEFINE Early == {"idle", "locking", "granted", "dialing"}
           Goal == AccountInv' /\ (SC!Next \/ UNCHANGED SC!vars)
<1>0. ASSUME UNCHANGED slotVars, UNCHANGED monitor, conn' \in [Conns -> {"none", "stored", "closed"}],
             \A e \in Dials : phase'[e] = "dialing" <=> phase[e] = "dialing",
             \A e \in Dials : phase'[e] \in Early => phase[e] \in Early /\ conn'[e] = conn[e],
             \A c \in Conns : conn[c] # "none" => conn'[c] # "none"
      PROVE  Goal
  <2>1. UNCHANGED SC!vars
    BY <1>0 DEF SC!vars, slotVars
  <2>3. SlotsAreAccountedFor'
    BY <1>0 DEF SlotInv, AccountInv, SlotsAreAccountedFor, slotVars
  <2> QED
    BY <1>0, <2>1, <2>3 DEF SlotInv, AccountInv, slotVars
<1>1. ASSUME NEW d \in Dials, Connect(d) PROVE Goal
  <2>1. /\ UNCHANGED <<slotVars, monitor, conn>> /\ phase[d] = "idle"
        /\ phase'[d] # "dialing" /\ \A e \in Dials \ {d} : phase'[e] = phase[e]
    BY <1>1 DEF Connect, LockInv
  <2> QED
    BY <1>0, <2>1 DEF SlotInv, AccountInv
<1>2. ASSUME NEW d \in Dials, ConnectReturns(d) \/ CancelWaiting(d) PROVE Goal
  <2>1. /\ UNCHANGED <<slotVars, monitor, conn>> /\ phase[d] \in {"idle", "locking"}
        /\ phase'[d] = "done" /\ \A e \in Dials \ {d} : phase'[e] = phase[e]
    BY <1>2 DEF ConnectReturns, CancelWaiting, LockInv
  <2> QED
    BY <1>0, <2>1 DEF SlotInv, AccountInv
<1>3. ASSUME NEW d \in Dials, Establish(d) PROVE Goal
  <2>1. phase[d] = "granted" /\ Busy(d) /\ phase[d] # "dialing" /\ UNCHANGED <<conn, monitor>>
    BY <1>3 DEF Establish, Busy
  <2>2. ASSUME NEW how, EndDial(d, how), UNCHANGED slotVars PROVE Goal
    BY <2>1, <2>2, EndKeepsSlots
  <2>3. ASSUME GetOutgoingSlot(d), phase' = [phase EXCEPT ![d] = "dialing"] PROVE Goal
    <3>1. d \notin held
      BY <2>1 DEF SlotInv, AccountInv, SlotsAreAccountedFor
    <3>2. SC!Next /\ queue' \in Seq(Dials) /\ held' = held \cup {d}
      BY <2>3, <3>1, GetIsAcquire
    <3>4. phase'[d] = "dialing" /\ \A e \in Dials \ {d} : phase'[e] = phase[e]
      BY <2>3 DEF LockInv
    <3>5. SlotsAreAccountedFor'
      BY <2>1, <3>2, <3>4 DEF SlotInv, AccountInv, SlotsAreAccountedFor
    <3> QED
      BY <2>1, <3>2, <3>4, <3>5 DEF SlotInv, AccountInv
  <2> QED
    BY <1>3, <2>2, <2>3 DEF Establish
<1>4. ASSUME NEW d \in Dials, DialFails(d) PROVE Goal
  BY <1>4, EndReleasesSlot DEF DialFails
<1>5. ASSUME NEW d \in Dials, DialCancelled(d) PROVE Goal
  BY <1>5, EndReleasesSlot DEF DialCancelled
<1>6. ASSUME NEW d \in Dials, NEW how \in {"stored", "closed"}, NEW to \in {"finishing", "closing"},
             phase[d] = "dialing", phase' = [phase EXCEPT ![d] = to], UNCHANGED slotVars,
             conn' = [conn EXCEPT ![d] = how], monitor' = monitor \cup {d}
      PROVE  Goal
  <2>1. UNCHANGED SC!vars
    BY <1>6 DEF SC!vars, slotVars
  <2>3. phase'[d] = to /\ \A e \in Dials \ {d} : phase'[e] = phase[e]
    BY <1>6 DEF LockInv
  <2>4. d \in Conns /\ conn'[d] = how /\ \A c \in Conns \ {d} : conn'[c] = conn[c]
    BY <1>6 DEF SlotInv, AccountInv, Conns
  <2>5. SlotsAreAccountedFor'
    BY <1>6, <2>3 DEF SlotInv, AccountInv, SlotsAreAccountedFor, slotVars
  <2>6. conn' \in [Conns -> {"none", "stored", "closed"}] /\ monitor' \subseteq Conns
    BY <1>6, <2>4 DEF SlotInv, AccountInv
  <2>7. \A c \in monitor' : conn'[c] # "none"
    BY <1>6, <2>4, <2>6 DEF SlotInv, AccountInv
  <2>8. \A e \in Dials : phase'[e] \in {"idle", "locking", "granted", "dialing"} => conn'[e] = "none"
    BY <2>3, <2>4 DEF SlotInv, AccountInv, Conns
  <2> QED
    BY <1>6, <2>1, <2>5, <2>6, <2>7, <2>8 DEF SlotInv, AccountInv, slotVars
<1>7. ASSUME NEW d \in Dials, DialConnects(d) \/ StoreRefuses(d) PROVE Goal
  BY <1>6, <1>7 DEF DialConnects, StoreRefuses
<1>8. ASSUME NEW d \in Dials, NEW how, FinishFails(d, how) PROVE Goal
  <2>1. /\ phase[d] = "finishing" /\ phase'[d] = "closing" /\ d \in Conns
        /\ \A e \in Dials \ {d} : phase'[e] = phase[e]
        /\ UNCHANGED <<slotVars, monitor>>
    BY <1>8 DEF FinishFails, LockInv, Conns
  <2>2. /\ conn' \in [Conns -> {"none", "stored", "closed"}]
        /\ conn'[d] = "closed" /\ \A c \in Conns \ {d} : conn'[c] = conn[c]
    BY <1>8, <2>1 DEF FinishFails, SlotInv, AccountInv
  <2> QED
    BY <1>0, <2>1, <2>2 DEF Conns
<1>9. ASSUME NEW d \in Dials, FinishOk(d) \/ CloseDone(d) PROVE Goal
  <2>1. PICK how : /\ phase[d] \in {"finishing", "closing"} /\ EndDial(d, how)
                   /\ UNCHANGED <<conn, monitor, slotVars>>
    BY <1>9 DEF FinishOk, CloseDone
  <2>2. Busy(d) /\ phase[d] # "dialing"
    BY <2>1 DEF Busy
  <2> QED
    BY <2>1, <2>2, EndKeepsSlots
<1>10. ASSUME NEW c \in Incoming, Accept(c) PROVE Goal
  <2>1. /\ c \in Conns /\ c \notin Dials /\ conn[c] = "none" /\ UNCHANGED <<phase, queue>>
    BY <1>10, DialerAssumption DEF Accept, Conns, DialerAssumption
  <2>2. CASE avail > 0
    <3>1. /\ avail' = avail - 1 /\ held' = held \cup {c} /\ monitor' = monitor \cup {c}
          /\ conn' = [conn EXCEPT ![c] = "stored"]
      BY <1>10, <2>2 DEF Accept
    <3>2. c \notin held
      BY <2>1 DEF SlotInv, AccountInv, SlotsAreAccountedFor
    <3>3. SC!TryAcquire(c)
      BY <2>1, <2>2, <3>1, <3>2 DEF SC!TryAcquire, SC!Free
    <3>4. SC!Next
      BY <2>1, <3>3 DEF SC!Next
    <3>6. SlotsAreAccountedFor'
      BY <2>1, <3>1 DEF SlotInv, AccountInv, SlotsAreAccountedFor
    <3> QED
      BY <2>1, <3>1, <3>4, <3>6 DEF SlotInv, AccountInv
  <2>3. CASE ~(avail > 0)
    <3>1. conn' = [conn EXCEPT ![c] = "closed"] /\ UNCHANGED <<avail, held, monitor>>
      BY <1>10, <2>3 DEF Accept
    <3>2. /\ conn' \in [Conns -> {"none", "stored", "closed"}]
          /\ conn'[c] = "closed" /\ \A e \in Conns \ {c} : conn'[e] = conn[e]
      BY <2>1, <3>1 DEF SlotInv, AccountInv
    <3> QED
      BY <1>0, <2>1, <3>1, <3>2 DEF slotVars, Conns
  <2> QED
    BY <2>2, <2>3
<1>11. ASSUME NEW c \in Conns, ConnectionEnds(c) PROVE Goal
  <2>1. conn[c] = "stored" /\ conn' = [conn EXCEPT ![c] = "closed"] /\ UNCHANGED <<phase, monitor, slotVars>>
    BY <1>11 DEF ConnectionEnds
  <2>2. /\ conn' \in [Conns -> {"none", "stored", "closed"}]
        /\ conn'[c] = "closed" /\ \A e \in Conns \ {c} : conn'[e] = conn[e]
    BY <2>1 DEF SlotInv, AccountInv
  <2>3. \A e \in Dials : phase'[e] \in Early => phase[e] \in Early /\ conn'[e] = conn[e]
    BY <2>1, <2>2 DEF SlotInv, AccountInv, Conns
  <2> QED
    BY <1>0, <2>1, <2>2, <2>3
<1>12. ASSUME NEW c \in Conns, MonitorReleases(c) \/ MonitorCancelled(c) PROVE Goal
  BY <1>12, MonitorKeepsSlots DEF MonitorReleases, MonitorCancelled
<1>13. ASSUME NEW p \in Peers, BackoffEnds(p) PROVE Goal
  BY <1>0, <1>13 DEF BackoffEnds, SlotInv, AccountInv
<1>14. CASE UNCHANGED vars
  BY <1>0, <1>14 DEF vars, SlotInv, AccountInv, slotVars
<1> QED
  BY <1>1, <1>2, <1>3, <1>4, <1>5, <1>7, <1>8, <1>9, <1>10, <1>11, <1>12, <1>13, <1>14
     DEF Next, Step

-----------------------------------------------------------------------------
(* The steps and the locks.                                                *)

\* Every step keeps the locks in order,
LEMMA LockNext ==
    ASSUME LockInv, [Next]_vars
    PROVE  LockInv'
<1>0. ASSUME UNCHANGED <<phase, lockVars>> PROVE LockInv'
  <2>1. \A p \in Peers : Waiting(p)' = Waiting(p) /\ Users(p)' = Users(p)
    BY <1>0 DEF Waiting, Users, Busy
  <2>2. \A e \in Dials : Busy(e)' <=> Busy(e)
    BY <1>0 DEF Busy
  <2>3. LockTableIsExact'
    BY <1>0, <2>2, SameUsers DEF lockVars
  <2>4. \A p \in Peers : Lists(lockQueue[p], Waiting(p))'
    <3> SUFFICES ASSUME NEW p \in Peers PROVE Lists(lockQueue'[p], Waiting(p)')
      OBVIOUS
    <3> QED
      BY <1>0, <2>1 DEF LockInv, lockVars
  <2> QED
    BY <1>0, <2>2, <2>3, <2>4 DEF LockInv, lockVars
<1>1. ASSUME NEW d \in Dials, ConnectReturns(d) PROVE LockInv'
  <2>1. phase[d] = "idle" /\ phase' = [phase EXCEPT ![d] = "done"] /\ UNCHANGED lockVars
    BY <1>1 DEF ConnectReturns
  <2>2. /\ phase' \in [Dials -> Phases] /\ phase'[d] = "done"
        /\ \A e \in Dials \ {d} : phase'[e] = phase[e]
    BY <2>1 DEF LockInv, Phases
  <2>3. \A e \in Dials : (Busy(e)' <=> Busy(e)) /\ (phase'[e] = "locking" <=> phase[e] = "locking")
    BY <2>1, <2>2 DEF Busy
  <2>4. LockTableIsExact'
    BY <2>1, <2>3, SameUsers DEF lockVars
  <2>5. \A p \in Peers : Waiting(p)' = Waiting(p)
    BY <2>3 DEF Waiting
  <2>6. \A p \in Peers : Lists(lockQueue[p], Waiting(p))'
    <3> SUFFICES ASSUME NEW p \in Peers PROVE Lists(lockQueue'[p], Waiting(p)')
      OBVIOUS
    <3> QED
      BY <2>1, <2>5 DEF LockInv, lockVars
  <2> QED
    BY <2>1, <2>2, <2>3, <2>4, <2>6 DEF LockInv, lockVars
<1>2. ASSUME NEW d \in Dials, Establish(d) PROVE LockInv'
  <2>1. Busy(d)
    BY <1>2 DEF Establish, Busy
  <2> QED
    BY <1>2, <2>1, EndDialKeepsLocks, StaysBusy DEF Establish
<1>3. ASSUME NEW d \in Dials, NEW how, phase[d] \in {"dialing", "finishing", "closing"}, EndDial(d, how)
      PROVE  LockInv'
  BY <1>3, EndDialKeepsLocks DEF Busy
<1>4. ASSUME NEW d \in Dials, DialFails(d) \/ DialCancelled(d) \/ FinishOk(d) \/ CloseDone(d)
      PROVE  LockInv'
  BY <1>3, <1>4 DEF DialFails, DialCancelled, FinishOk, CloseDone
<1>5. ASSUME NEW d \in Dials, NEW how, DialConnects(d) \/ StoreRefuses(d) \/ FinishFails(d, how)
      PROVE  LockInv'
  <2>1. Busy(d)
    BY <1>5 DEF DialConnects, StoreRefuses, FinishFails, Busy
  <2> QED
    BY <1>5, <2>1, StaysBusy DEF DialConnects, StoreRefuses, FinishFails
<1>6. ASSUME NEW c \in Conns,
             Accept(c) \/ ConnectionEnds(c) \/ MonitorReleases(c) \/ MonitorCancelled(c)
      PROVE  LockInv'
  BY <1>0, <1>6 DEF Accept, ConnectionEnds, MonitorReleases, MonitorCancelled
<1>7. ASSUME NEW p \in Peers, BackoffEnds(p) PROVE LockInv'
  BY <1>0, <1>7 DEF BackoffEnds
<1>8. CASE UNCHANGED vars
  BY <1>0, <1>8 DEF vars, lockVars
<1> QED
  BY <1>1, <1>2, <1>4, <1>5, <1>6, <1>7, <1>8, ConnectKeepsLocks, CancelKeepsLocks
     DEF Next, Step, Conns

-----------------------------------------------------------------------------
(* Reuse of connections.                                                   *)

\* A dial that may reuse connections and is out to a peer has found none of our
\* own to it, and none can come up meanwhile, as it has the peer's lock.
ReuseInv ==
    /\ OneConnectionEach
    /\ \A d \in Reuse, e \in Dials :
        phase[d] = "dialing" /\ Target[d] # None /\ Target[e] = Target[d] => conn[e] # "stored"

\* ... and one connection per peer among the dials that reuse.
LEMMA ReuseNext ==
    ASSUME LockInv, SlotInv, ReuseInv, [Next]_vars
    PROVE  ReuseInv'
<1> USE DialerAssumption DEF DialerAssumption
<1>0. ASSUME \A e \in Dials : conn'[e] = "stored" => conn[e] = "stored",
             \A e \in Dials : phase'[e] = "dialing" => phase[e] = "dialing"
      PROVE  ReuseInv'
  BY <1>0 DEF ReuseInv, OneConnectionEach
<1>1. ASSUME NEW d \in Dials, Connect(d) \/ ConnectReturns(d) \/ CancelWaiting(d)
      PROVE  ReuseInv'
  <2>1. UNCHANGED conn /\ phase'[d] # "dialing" /\ \A e \in Dials \ {d} : phase'[e] = phase[e]
    BY <1>1 DEF Connect, ConnectReturns, CancelWaiting, LockInv
  <2> QED
    BY <1>0, <2>1
<1>2. ASSUME NEW d \in Dials, NEW how, Busy(d), EndDial(d, how), UNCHANGED conn
      PROVE  ReuseInv'
  BY <1>0, <1>2, EndDialPhase
<1>3. ASSUME NEW d \in Dials, Establish(d) PROVE ReuseInv'
  <2>1. Busy(d) /\ UNCHANGED conn
    BY <1>3 DEF Establish, Busy
  <2>2. ASSUME ~CanReuse(d), phase' = [phase EXCEPT ![d] = "dialing"] PROVE ReuseInv'
    <3>1. phase'[d] = "dialing" /\ \A e \in Dials \ {d} : phase'[e] = phase[e]
      BY <2>2 DEF LockInv
    <3>2. d \in Reuse /\ Target[d] # None
            => \A e \in Dials : Target[e] = Target[d] => conn[e] # "stored"
      BY <2>2 DEF CanReuse, Connected, Conns, PeerOf
    <3> QED
      BY <2>1, <3>1, <3>2 DEF ReuseInv, OneConnectionEach
  <2> QED
    BY <1>2, <1>3, <2>1, <2>2 DEF Establish
<1>4. ASSUME NEW d \in Dials, DialFails(d) \/ DialCancelled(d) \/ FinishOk(d) \/ CloseDone(d)
      PROVE  ReuseInv'
  <2>1. Busy(d)
    BY <1>4 DEF DialFails, DialCancelled, FinishOk, CloseDone, Busy
  <2> QED
    BY <1>2, <1>4, <2>1 DEF DialFails, DialCancelled, FinishOk, CloseDone
<1>5. ASSUME NEW d \in Dials, DialConnects(d) PROVE ReuseInv'
  <2>1. phase[d] = "dialing" /\ phase' = [phase EXCEPT ![d] = "finishing"]
        /\ conn' = [conn EXCEPT ![d] = "stored"]
    BY <1>5 DEF DialConnects
  <2>2. phase'[d] # "dialing" /\ \A e \in Dials \ {d} : phase'[e] = phase[e]
    BY <2>1 DEF LockInv
  <2>3. \A e \in Dials \ {d} : conn'[e] = conn[e]
    BY <2>1 DEF SlotInv, AccountInv, Conns
  <2>4. Target[d] # None => \A e \in Dials : Busy(e) /\ Target[e] = Target[d] => e = d
    BY <2>1, HolderIsAlone DEF Busy
  <2>5. \A e \in Dials : phase'[e] = "dialing" /\ Target[e] # None => Target[e] # Target[d]
    BY <2>2, <2>4 DEF Busy
  <2>6. OneConnectionEach'
    BY <2>1, <2>3 DEF ReuseInv, OneConnectionEach
  <2> QED
    BY <2>2, <2>3, <2>5, <2>6 DEF ReuseInv
<1>6. ASSUME NEW d \in Dials, NEW how, StoreRefuses(d) \/ FinishFails(d, how) PROVE ReuseInv'
  <2>1. /\ conn' = [conn EXCEPT ![d] = "closed"] /\ phase' = [phase EXCEPT ![d] = "closing"]
    BY <1>6 DEF StoreRefuses, FinishFails
  <2>2. \A e \in Dials : (conn'[e] = "stored" => conn[e] = "stored")
                /\ (phase'[e] = "dialing" => phase[e] = "dialing")
    BY <2>1 DEF LockInv, SlotInv, AccountInv, Conns
  <2> QED
    BY <1>0, <2>2
<1>7. ASSUME NEW c \in Incoming, Accept(c) PROVE ReuseInv'
  <2>1. UNCHANGED phase /\ \A e \in Dials : conn'[e] = conn[e]
    BY <1>7 DEF Accept, SlotInv, AccountInv, Conns
  <2> QED
    BY <1>0, <2>1
<1>8. ASSUME NEW c \in Conns, ConnectionEnds(c) PROVE ReuseInv'
  <2>1. UNCHANGED phase /\ \A e \in Dials : conn'[e] = "stored" => conn[e] = "stored"
    BY <1>8 DEF ConnectionEnds, SlotInv, AccountInv, Conns
  <2> QED
    BY <1>0, <2>1
<1>9. ASSUME UNCHANGED <<phase, conn>> PROVE ReuseInv'
  BY <1>0, <1>9
<1>10. ASSUME NEW c, MonitorReleases(c) \/ MonitorCancelled(c) \/ BackoffEnds(c) \/ UNCHANGED vars
       PROVE  ReuseInv'
  BY <1>9, <1>10 DEF MonitorReleases, MonitorCancelled, BackoffEnds, vars
<1> QED
  BY <1>1, <1>3, <1>4, <1>5, <1>6, <1>7, <1>8, <1>10 DEF Next, Step

-----------------------------------------------------------------------------
(* The theorems.                                                           *)

\* There are finitely many connections.
LEMMA ConnsFinite == IsFiniteSet(Conns)
<1>1. IsFiniteSet(Dials) /\ IsFiniteSet(Incoming)
  BY DialerAssumption DEF DialerAssumption
<1> QED
  BY ZenonT(30), <1>1, FS_Union DEF Conns

\* What SlotCountProofs proves of the semaphore, with the state of Dialer.
SCP == INSTANCE SlotCountProofs WITH Slots <- Conns, owed <- Len(queue), waiting <- {}

\* A step of the semaphore, or none, keeps its counts balanced.
LEMMA SlotStep ==
    ASSUME SlotInv, SC!Next \/ UNCHANGED SC!vars
    PROVE  (SC!TypeOK /\ SC!Balanced /\ SC!NoIdleSlot)'
<1>1. SCP!SlotAssumption
  <2>1. IsFiniteSet(Conns) /\ Cap \in Nat \ {0}
    BY DialerAssumption, ConnsFinite DEF DialerAssumption
  <2> QED
    BY <2>1 DEF SCP!SlotAssumption, IsFiniteSet, SCP!IsFiniteSet
<1>2. SCP!IInv
  BY DEF SlotInv, SCP!IInv, SCP!TypeOK, SCP!Balanced, SCP!NoIdleSlot,
         SC!Cardinality, SCP!Cardinality, SC!TypeOK, SC!Balanced, SC!NoIdleSlot
<1>3. CASE SC!Next
  <2>1. SCP!Next
    BY <1>3 DEF SC!Next, SC!TryAcquire, SC!ForceAcquire, SC!Wait, SC!Cancel, SC!Release, SC!Free,
         SCP!Next, SCP!TryAcquire, SCP!ForceAcquire, SCP!Wait, SCP!Cancel, SCP!Release, SCP!Free
  <2>2. SCP!IInv'
    BY <1>1, <1>2, <2>1, SCP!NextKeeps
  <2> QED
    BY <2>2 DEF SCP!IInv, SCP!TypeOK, SCP!Balanced, SCP!NoIdleSlot,
         SC!Cardinality, SCP!Cardinality, SC!TypeOK, SC!Balanced, SC!NoIdleSlot
<1>4. CASE UNCHANGED SC!vars
  BY <1>4 DEF SlotInv, SC!vars, SC!TypeOK, SC!Balanced, SC!NoIdleSlot
<1> QED
  BY <1>3, <1>4

\* What holds in every reachable state.
Inv == LockInv /\ SlotInv /\ ReuseInv

\* By induction on the steps of a behaviour.
LEMMA InvHolds == Spec => []Inv
<1>1. Init => Inv
  <2> SUFFICES ASSUME Init PROVE Inv
    OBVIOUS
  <2>1. LockInv
    <3>1. \A p \in Peers : Users(p) = {} /\ Waiting(p) = {}
      BY DEF Init, Users, Waiting, Busy
    <3>2. \A p \in Peers : users[p] = Cardinality(Users(p))
      BY ZenonT(30), <3>1, FS_EmptySet DEF Init
    <3>3. LockTableIsExact
      BY <3>2 DEF LockTableIsExact, Users
    <3>4. \A p \in Peers : Lists(lockQueue[p], Waiting(p)) /\ lockQueue[p] = <<>>
      BY <3>1 DEF Init, Lists
    <3>5. \A d \in Dials : phase[d] = "idle" /\ ~Busy(d)
      BY DEF Init, Busy
    <3>6. \A p \in Peers : lockQueue[p] \in Seq(Dials)
      BY Zenon, <3>4, EmptySeq
    <3>7. /\ phase \in [Dials -> Phases] /\ holder \in [Peers -> Dials \cup {None}]
          /\ lockQueue \in [Peers -> Seq(Dials)] /\ users \in [Peers -> Nat]
      BY <3>6 DEF Init, Phases
    <3>8. \A p \in Peers, d \in Dials : holder[p] # d
      BY DialerAssumption DEF Init, DialerAssumption
    <3> QED
      BY <3>3, <3>4, <3>5, <3>7, <3>8 DEF LockInv
  <2>2. SlotInv
    <3>1. SC!Balanced
      BY FS_EmptySet, DialerAssumption
         DEF Init, SC!Balanced, SC!Cardinality, Cardinality, DialerAssumption
    <3>2. SC!TypeOK /\ SC!NoIdleSlot
      BY DialerAssumption DEF Init, SC!TypeOK, SC!NoIdleSlot, DialerAssumption
    <3>3. SlotsAreAccountedFor
      BY DEF Init, SlotsAreAccountedFor
    <3>4. queue \in Seq(Dials)
      BY EmptySeq DEF Init
    <3> QED
      BY <3>1, <3>2, <3>3, <3>4 DEF Init, SlotInv, AccountInv, Conns
  <2>3. ReuseInv
    BY DEF Init, ReuseInv, OneConnectionEach, Conns
  <2> QED
    BY <2>1, <2>2, <2>3 DEF Inv
<1>2. ASSUME Inv, [Next]_vars PROVE Inv'
  <2>1. LockInv' /\ ReuseInv'
    BY <1>2, LockNext, ReuseNext DEF Inv
  <2>2. AccountInv' /\ (SC!Next \/ UNCHANGED SC!vars)
    BY <1>2, SlotNext DEF Inv
  <2>3. (SC!TypeOK /\ SC!Balanced /\ SC!NoIdleSlot)'
    BY <1>2, <2>2, SlotStep DEF Inv
  <2> QED
    BY <2>1, <2>2, <2>3 DEF Inv, SlotInv
<1> QED
  BY <1>1, <1>2, PTL DEF Spec

\* However dials, cancellations, failures, incoming connections and stops
\* interleave: one attempt per peer, an exact lock table, every slot accounted
\* for, at most Cap slots free, and one connection of ours per peer among the
\* dials that reuse.
THEOREM WellFormedAlways == Spec => []WellFormed
<1>1. ASSUME Inv PROVE WellFormed
  <2>1. OneAttemptPerPeer
    BY <1>1, DialerAssumption DEF Inv, LockInv, OneAttemptPerPeer, DialerAssumption
  <2>2. LockTableIsExact /\ SlotsAreAccountedFor /\ OneConnectionEach
    BY <1>1 DEF Inv, LockInv, SlotInv, AccountInv, ReuseInv
  <2>3. users \in [Peers -> 0 .. Cardinality(Dials)]
    <3>1. ASSUME NEW p \in Peers PROVE users[p] \in 0 .. Cardinality(Dials)
      <4>1. users[p] = Cardinality(Users(p)) /\ Users(p) \subseteq Dials
        BY <2>2 DEF LockTableIsExact, Users
      <4>2. Cardinality(Users(p)) <= Cardinality(Dials) /\ Cardinality(Dials) \in Nat
        BY <4>1, DialerAssumption, FS_Subset, FS_CardinalityType DEF DialerAssumption
      <4> QED
        BY <4>1, <4>2, UsersFinite
    <3> QED
      BY <1>1, <3>1 DEF Inv, LockInv
  <2>4. avail \in 0 .. Cap
    <3>1. IsFiniteSet(held) /\ Cardinality(held) \in Nat
      <4>1. IsFiniteSet(Conns) /\ held \subseteq Conns
        BY <1>1, ConnsFinite DEF Inv, SlotInv, SC!TypeOK
      <4> QED
        BY <4>1, FS_Subset, FS_CardinalityType
    <3>2. Cardinality(held) + avail = Cap + Len(queue) /\ Len(queue) \in Nat /\ avail \in Nat
      BY <1>1 DEF Inv, SlotInv, AccountInv, SC!Balanced, SC!TypeOK, SC!Cardinality, Cardinality
    <3>3. Len(queue) > 0 => avail = 0
      BY <1>1 DEF Inv, SlotInv, AccountInv, SC!NoIdleSlot
    <3> QED
      BY <3>1, <3>2, <3>3, DialerAssumption DEF DialerAssumption
  <2>5. held \subseteq Conns /\ monitor \subseteq held
    BY <1>1 DEF Inv, SlotInv, AccountInv, SC!TypeOK, SlotsAreAccountedFor
  <2>6. TypeOK
    BY <1>1, <2>3, <2>4, <2>5 DEF Inv, LockInv, TypeOK, Phases
  <2> QED
    BY <2>1, <2>2, <2>6 DEF WellFormed
<1> QED
  BY <1>1, InvHolds, PTL

\* The slots of dials and connections are those SlotCount promises: every step of
\* the dialer is a step of the semaphore or leaves it alone.
THEOREM SlotsRefine == Spec => SlotsImplemented
<1>1. Init => SC!Init
  BY DEF Init, SC!Init
<1>2. Inv /\ [Next]_vars => [SC!Next]_(SC!vars)
  BY SlotNext DEF Inv
<1> QED
  BY <1>1, <1>2, InvHolds, PTL DEF Spec, SlotsImplemented, SC!Spec
=============================================================================
