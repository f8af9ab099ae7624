------------------------- MODULE ConnManagerProofs -------------------------
(***************************************************************************)
(* Proofs about ConnManager for every set of peers, muxers and tasks.      *)
(***************************************************************************)
EXTENDS ConnManager, FiniteSetTheorems, TLAPS

\* onPeerDisconnected keeps the readiness tables and the peer events well typed.
LEMMA DisconnectType ==
    ASSUME TypeOK, NEW p \in Peers, NEW left, OnPeerDisconnected(p, left)
    PROVE  /\ readyPeers' \subseteq Peers
           /\ readyEvents' \in [Peers -> Events \cup {None}]
           /\ eventState' \in [Events -> {"pending", "completed", "cancelled"}]
           /\ lastEvent' \in [Peers -> {"none", "Joined", "Left"}]
           /\ UNCHANGED <<readyWaiters, waitPeer, waitEvent>>
<1>1. CASE \E m \in left : PeerOf[m] = p
  BY <1>1 DEF OnPeerDisconnected, readyVars, TypeOK
<1>2. CASE ~\E m \in left : PeerOf[m] = p
  BY <1>2 DEF OnPeerDisconnected, ClearPeerReadyState, SettleReadyEvent, TypeOK
<1> QED
  BY <1>1, <1>2

\* Every step of the connection manager keeps its state well typed.
LEMMA TypeStep == TypeOK /\ [Next]_vars => TypeOK'
<1> SUFFICES ASSUME TypeOK, [Next]_vars PROVE TypeOK'
  OBVIOUS
<1> USE ConnAssumption DEF TypeOK, Dirs, Keys
<1>1. ASSUME NEW m \in Muxers, RefuseMuxer(m) PROVE TypeOK'
  BY <1>1 DEF RefuseMuxer, readyVars, expectVars, stopVars
<1>2. ASSUME NEW m \in Muxers, StoreMuxer(m) PROVE TypeOK'
  BY <1>2 DEF StoreMuxer, IsNew, Connected, NotifyPeerReady, SettleReadyEvent, Awaited, stopVars
<1>3. ASSUME NEW m \in Muxers, FinishStore(m) PROVE TypeOK'
  BY <1>3 DEF FinishStore, Joins, readyVars, expectVars, stopVars
<1>4. ASSUME NEW m \in Muxers, CancelStore(m) PROVE TypeOK'
  BY <1>4 DEF CancelStore, readyVars, expectVars, stopVars
<1>5. ASSUME NEW m \in Muxers, ConnectionCloses(m) PROVE TypeOK'
  BY <1>5 DEF ConnectionCloses, readyVars, expectVars, stopVars
<1>6. ASSUME NEW m \in Muxers, OnClose(m) PROVE TypeOK'
  <2>1. PeerOf[m] \in Peers
    OBVIOUS
  <2>2. CASE IsLast(m)
    BY <1>6, <2>1, <2>2, DisconnectType DEF OnClose, expectVars, stopVars
  <2>3. CASE ~IsLast(m)
    BY <1>6, <2>3 DEF OnClose, readyVars, expectVars, stopVars
  <2> QED
    BY <2>2, <2>3
<1>7. ASSUME NEW m \in Muxers, FinishOnClose(m) PROVE TypeOK'
  BY <1>7 DEF FinishOnClose, readyVars, expectVars, stopVars
<1>8. ASSUME NEW d \in Droppers, FinishDrop(d) PROVE TypeOK'
  <2>1. drops[d] \in Peers
    BY <1>8 DEF FinishDrop
  <2> QED
    BY <1>8, <2>1, DisconnectType DEF FinishDrop, expectVars, stopVars
<1>9. ASSUME NEW d \in Droppers, NEW p \in Peers, DropPeer(d, p) PROVE TypeOK'
  BY <1>9 DEF DropPeer, readyVars, expectVars, stopVars
<1>10. ASSUME NEW w \in Waiters, ReturnFromWait(w) PROVE TypeOK'
  BY <1>10 DEF ReturnFromWait, ClearReadyEvent, storeVars, expectVars, stopVars
<1>11. ASSUME NEW w \in Waiters, NEW p \in Peers, WaitForPeerReady(w, p) PROVE TypeOK'
  BY <1>11 DEF WaitForPeerReady, storeVars, expectVars, stopVars
<1>12. ASSUME NEW x \in Expecters, ReturnFromExpect(x) PROVE TypeOK'
  BY <1>12 DEF ReturnFromExpect, storeVars, readyVars, stopVars
<1>13. ASSUME NEW x \in Expecters, NEW k \in Keys, ExpectConnection(x, k) PROVE TypeOK'
  BY <1>13 DEF ExpectConnection, storeVars, readyVars, stopVars
<1>14. CASE Stop
  <2>1. stops' \in 0..MaxStops
    BY <1>14 DEF Stop
  <2>2. running' \in BOOLEAN /\ stopPc' = "tasks" /\ UNCHANGED <<stopPeer, stopLeft>>
    BY ZenonT(30), <1>14 DEF Stop
  <2>3. UNCHANGED <<muxed, conn, storePc, isNewPeer, overLimit, monitor, drops, lastEvent>>
    BY <1>14 DEF Stop, storeVars
  <2>4. UNCHANGED <<readyPeers, readyEvents, readyWaiters, eventState, waitPeer, waitEvent>>
    BY <1>14 DEF Stop, readyVars
  <2>5. UNCHANGED <<expected, expectKey, future>>
    BY <1>14 DEF Stop, expectVars
  <2> QED
    BY <2>1, <2>2, <2>3, <2>4, <2>5
<1>15. CASE StopExpectations
  BY <1>15 DEF StopExpectations, storeVars, readyVars, stopVars
<1>16. CASE StopClear
  BY <1>16 DEF StopClear, CancelReadyEvents, StartClosing, Drain, expectVars
<1>17. CASE StopPeerClosed
  <2>1. stopPeer \in Peers
    BY <1>17 DEF StopPeerClosed
  <2>2. OnPeerDisconnected(stopPeer, muxed)
    BY <1>17 DEF StopPeerClosed
  <2> QED
    BY <1>17, <2>1, <2>2, DisconnectType DEF StopPeerClosed, expectVars
<1>18. CASE StopNextPeer
  BY <1>18 DEF StopNextPeer, StartClosing, Drain, readyVars, expectVars, stopVars
<1>19. CASE Stopped
  BY <1>19 DEF Stopped, storeVars, readyVars, expectVars, stopVars
<1>20. CASE Start
  BY <1>20 DEF Start, storeVars, readyVars, expectVars, stopVars
<1>21. CASE UNCHANGED vars
  BY <1>21 DEF vars, storeVars, readyVars, expectVars, stopVars
<1> QED
  BY Zenon, <1>1, <1>2, <1>3, <1>4, <1>5, <1>6, <1>7, <1>8, <1>9, <1>10, <1>11, <1>12,
     <1>13, <1>14, <1>15, <1>16, <1>17, <1>18, <1>19, <1>20, <1>21 DEF Next

\* The state is well typed in every behaviour of the connection manager.
THEOREM TypeCorrect == Spec => []TypeOK
<1>1. Init => TypeOK
  BY ConnAssumption DEF Init, TypeOK, Keys, Dirs
<1> QED
  BY <1>1, TypeStep, PTL DEF Spec

-----------------------------------------------------------------------------
(* The ready set, the store and the peer events.  NoGhostPeer is not       *)
(* inductive: it needs that a peer whose last event is Joined is still in  *)
(* the ready set, and ReadyMatchesStore.                                   *)

JoinedIsReady == \A p \in Peers : lastEvent[p] = "Joined" => p \in readyPeers

ReadyInv == TypeOK /\ ReadyMatchesStore /\ JoinedIsReady

\* The state ReadyInv looks at.
watched == <<muxed, readyPeers, lastEvent, drops, stopPc, stopLeft>>

\* onPeerDisconnected(p), run with the store `muxed'` and nobody else having
\* changed the peer's state, leaves a peer that is either connected and ready,
\* or neither ready nor joined; other peers are untouched.
LEMMA DisconnectEffect ==
    ASSUME TypeOK, NEW p \in Peers, NEW left, OnPeerDisconnected(p, left)
    PROVE  /\ \A q \in Peers \ {p} : /\ (q \in readyPeers') <=> (q \in readyPeers)
                                     /\ lastEvent'[q] = lastEvent[q]
           /\ (\E m \in left : PeerOf[m] = p)
                => readyPeers' = readyPeers /\ lastEvent' = lastEvent
           /\ ~(\E m \in left : PeerOf[m] = p)
                => p \notin readyPeers' /\ lastEvent'[p] = "Left"
<1>1. CASE \E m \in left : PeerOf[m] = p
  BY <1>1 DEF OnPeerDisconnected, readyVars
<1>2. CASE ~\E m \in left : PeerOf[m] = p
  BY <1>2 DEF OnPeerDisconnected, ClearPeerReadyState, TypeOK
<1> QED
  BY <1>1, <1>2

\* Every step of a store, a close or a stop keeps it.
LEMMA ReadyStep == ReadyInv /\ [Next]_vars => ReadyInv'
<1> SUFFICES ASSUME ReadyInv, [Next]_vars PROVE ReadyInv'
  OBVIOUS
<1>0. TypeOK'
  BY TypeStep DEF ReadyInv
<1> USE ConnAssumption DEF ReadyMatchesStore, JoinedIsReady, Connected, BeingDropped
<1>a. ASSUME UNCHANGED watched PROVE ReadyInv'
  BY <1>0, <1>a DEF ReadyInv, watched
<1>1. ASSUME NEW m \in Muxers, RefuseMuxer(m) PROVE ReadyInv'
  BY <1>a, <1>1 DEF RefuseMuxer, readyVars, stopVars, watched
<1>2. ASSUME NEW m \in Muxers, StoreMuxer(m) PROVE ReadyInv'
  <2>1. /\ muxed' = muxed \cup {m}
        /\ readyPeers' = readyPeers \cup {PeerOf[m]}
        /\ UNCHANGED <<drops, lastEvent, stopPc, stopLeft>>
    BY <1>2 DEF StoreMuxer, NotifyPeerReady, stopVars
  <2> QED
    BY <1>0, <2>1 DEF ReadyInv
<1>3. ASSUME NEW m \in Muxers, FinishStore(m) PROVE ReadyInv'
  <2>1. lastEvent \in [Peers -> {"none", "Joined", "Left"}]
    BY DEF ReadyInv, TypeOK
  <2> QED
    BY <1>0, <1>3, <2>1 DEF ReadyInv, FinishStore, Joins, readyVars, stopVars
<1>4. ASSUME NEW m \in Muxers, CancelStore(m) PROVE ReadyInv'
  BY <1>a, <1>4 DEF CancelStore, readyVars, stopVars, watched
<1>5. ASSUME NEW m \in Muxers, ConnectionCloses(m) PROVE ReadyInv'
  BY <1>a, <1>5 DEF ConnectionCloses, readyVars, stopVars, watched
<1>6. ASSUME NEW m \in Muxers, OnClose(m) PROVE ReadyInv'
  <2> DEFINE p == PeerOf[m]
             left == muxed \ {m}
             last == m \in muxed /\ ~\E n \in left : PeerOf[n] = p
  <2>1. p \in Peers /\ muxed' = left /\ UNCHANGED <<drops, stopPc, stopLeft>>
    BY <1>6 DEF OnClose, IsLast, stopVars
  <2>2. CASE last
    <3>1. OnPeerDisconnected(p, left)
      BY <1>6, <2>2 DEF OnClose, IsLast
    <3> QED
      BY <1>0, <2>1, <2>2, <3>1, DisconnectEffect DEF ReadyInv
  <2>3. CASE ~last
    <3>1. UNCHANGED <<readyPeers, lastEvent>>
      BY <1>6, <2>3 DEF OnClose, IsLast, readyVars
    <3> QED
      BY <1>0, <2>1, <2>3, <3>1 DEF ReadyInv
  <2> QED
    BY <2>2, <2>3
<1>7. ASSUME NEW m \in Muxers, FinishOnClose(m) PROVE ReadyInv'
  BY <1>a, <1>7 DEF FinishOnClose, readyVars, stopVars, watched
<1>8. ASSUME NEW d \in Droppers, FinishDrop(d) PROVE ReadyInv'
  <2>1. /\ drops[d] \in Peers
        /\ OnPeerDisconnected(drops[d], muxed)
        /\ UNCHANGED <<muxed, stopPc, stopLeft>>
        /\ \A e \in Droppers \ {d} : drops'[e] = drops[e]
    BY <1>8 DEF FinishDrop, stopVars, ReadyInv, TypeOK
  <2> QED
    BY <1>0, <2>1, DisconnectEffect DEF ReadyInv
<1>9. ASSUME NEW d \in Droppers, NEW p \in Peers, DropPeer(d, p) PROVE ReadyInv'
  <2>1. /\ muxed' = muxed \ MuxersOf(p)
        /\ drops' = [drops EXCEPT ![d] = p]
        /\ drops[d] = None
        /\ UNCHANGED <<readyPeers, lastEvent, stopPc, stopLeft>>
    BY <1>9 DEF DropPeer, readyVars, stopVars
  <2>2. muxed \subseteq Muxers /\ drops \in [Droppers -> Peers \cup {None}]
    BY DEF ReadyInv, TypeOK
  <2> QED
    BY <1>0, <2>1, <2>2 DEF ReadyInv, MuxersOf
<1>10. ASSUME NEW w \in Waiters, ReturnFromWait(w) PROVE ReadyInv'
  BY <1>a, <1>10 DEF ReturnFromWait, ClearReadyEvent, storeVars, stopVars, watched
<1>11. ASSUME NEW w \in Waiters, NEW p \in Peers, WaitForPeerReady(w, p) PROVE ReadyInv'
  BY <1>a, <1>11 DEF WaitForPeerReady, storeVars, stopVars, watched
<1>12. ASSUME NEW x \in Expecters, ReturnFromExpect(x) PROVE ReadyInv'
  BY <1>a, <1>12 DEF ReturnFromExpect, storeVars, readyVars, stopVars, watched
<1>13. ASSUME NEW x \in Expecters, NEW k \in Keys, ExpectConnection(x, k) PROVE ReadyInv'
  BY <1>a, <1>13 DEF ExpectConnection, storeVars, readyVars, stopVars, watched
<1>14. CASE Stop
  BY <1>0, <1>14 DEF Stop, storeVars, readyVars, ReadyInv
<1>15. CASE StopExpectations
  BY <1>0, <1>15 DEF StopExpectations, storeVars, readyVars, ReadyInv
<1>16. CASE StopClear
  <2>1. stopPc = "clear" /\ muxed' = {} /\ UNCHANGED <<readyPeers, lastEvent, drops>>
    BY <1>16 DEF StopClear, CancelReadyEvents
  <2>2. muxed # {} => stopPc' = "closing" /\ stopLeft' = muxed
    BY <1>16 DEF StopClear, CancelReadyEvents
  <2> QED
    BY <1>0, <2>1, <2>2 DEF ReadyInv
<1>17. CASE StopPeerClosed
  <2>1. /\ stopPeer \in Peers
        /\ OnPeerDisconnected(stopPeer, muxed)
        /\ stopLeft' = stopLeft \ MuxersOf(stopPeer)
        /\ UNCHANGED <<muxed, drops, stopPc>>
    BY <1>17 DEF StopPeerClosed, ReadyInv, TypeOK
  <2> QED
    BY <1>0, <2>1, DisconnectEffect DEF ReadyInv, MuxersOf
<1>18. CASE StopNextPeer
  <2>1. stopPc = "closing" /\ UNCHANGED <<muxed, readyPeers, lastEvent, drops>>
    BY <1>18 DEF StopNextPeer, readyVars
  <2>2. stopLeft = {} \/ UNCHANGED <<stopPc, stopLeft>>
    BY <1>18 DEF StopNextPeer
  <2> QED
    BY <1>0, <2>1, <2>2 DEF ReadyInv
<1>19. CASE Stopped
  BY <1>0, <1>19 DEF Stopped, storeVars, readyVars, ReadyInv
<1>20. CASE Start
  BY <1>0, <1>20 DEF Start, storeVars, readyVars, ReadyInv
<1>21. CASE UNCHANGED vars
  BY <1>a, <1>21 DEF vars, storeVars, readyVars, stopVars, watched
<1> QED
  BY <1>1, <1>2, <1>3, <1>4, <1>5, <1>6, <1>7, <1>8, <1>9, <1>10, <1>11, <1>12,
     <1>13, <1>14, <1>15, <1>16, <1>17, <1>18, <1>19, <1>20, <1>21 DEF Next

\* A manager starts with nobody ready.
LEMMA ReadyInit == Init => ReadyInv
<1> SUFFICES ASSUME Init PROVE ReadyInv
  OBVIOUS
<1>1. TypeOK
  BY ConnAssumption DEF Init, TypeOK, Keys, Dirs
<1>2. ReadyMatchesStore /\ JoinedIsReady
  BY DEF Init, ReadyMatchesStore, JoinedIsReady, Connected
<1> QED
  BY <1>1, <1>2 DEF ReadyInv

\* No interleaving of storeMuxer, onClose, dropPeer and stop leaves a peer
\* joined for its subscribers with no connection and no Left to come.
THEOREM NoGhostPeerAlways == Spec => []NoGhostPeer
<1>1. ReadyInv => NoGhostPeer
  BY DEF ReadyInv, NoGhostPeer, ReadyMatchesStore, JoinedIsReady
<1> QED
  BY <1>1, ReadyInit, ReadyStep, PTL DEF Spec

-----------------------------------------------------------------------------
(* The limit per peer.  The store is finite, as muxers enter one by one.   *)

\* The bound, with what makes cardinalities meaningful.
LimitInv == IsFiniteSet(muxed) /\ WithinPeerLimit

\* A store that only loses muxers, with no muxer taken out of overLimit, keeps
\* within the limit.
LEMMA LimitShrinks ==
    ASSUME LimitInv, muxed' \subseteq muxed, UNCHANGED overLimit
    PROVE  LimitInv'
<1>1. IsFiniteSet(muxed')
  BY FS_Subset DEF LimitInv
<1>2. ASSUME NEW p \in Peers
      PROVE  Cardinality((muxed' \ overLimit') \cap MuxersOf(p)) <= MaxConnsPerPeer
  <2> DEFINE S == (muxed \ overLimit) \cap MuxersOf(p)
             T == (muxed' \ overLimit') \cap MuxersOf(p)
  <2>1. IsFiniteSet(S) /\ T \subseteq S
    BY FS_Subset DEF LimitInv
  <2>2. Cardinality(S) \in Nat /\ Cardinality(T) \in Nat /\ Cardinality(T) <= Cardinality(S)
    BY <2>1, FS_Subset, FS_CardinalityType
  <2>3. Cardinality(S) <= MaxConnsPerPeer
    BY DEF LimitInv, WithinPeerLimit
  <2> QED
    BY <2>2, <2>3, ConnAssumption
<1> QED
  BY <1>1, <1>2 DEF LimitInv, WithinPeerLimit, MuxersOf

\* storeMuxer takes a muxer into the store only below the limit, or marks it as
\* one an expectation let in.
LEMMA LimitStore ==
    ASSUME LimitInv, NEW m \in Muxers, StoreMuxer(m)
    PROVE  LimitInv'
<1>1. muxed' = muxed \cup {m} /\ IsFiniteSet(muxed')
  BY FS_AddElement DEF LimitInv, StoreMuxer
<1>2. ASSUME NEW p \in Peers
      PROVE  Cardinality((muxed' \ overLimit') \cap MuxersOf(p)) <= MaxConnsPerPeer
  <2> DEFINE S == (muxed \ overLimit) \cap MuxersOf(p)
             T == (muxed' \ overLimit') \cap MuxersOf(p)
             A == muxed \cap MuxersOf(p)
  <2>1. IsFiniteSet(A) /\ IsFiniteSet(S) /\ S \subseteq A
    BY FS_Subset DEF LimitInv
  <2>2. Cardinality(S) \in Nat /\ Cardinality(A) \in Nat /\ Cardinality(S) <= Cardinality(A)
    BY <2>1, FS_Subset, FS_CardinalityType
  <2>3. Cardinality(S) <= MaxConnsPerPeer
    BY DEF LimitInv, WithinPeerLimit
  <2>4. CASE AtLimit(PeerOf[m]) \/ PeerOf[m] # p
    <3>1. T \subseteq S
      BY <1>1, <2>4 DEF StoreMuxer, MuxersOf
    <3>2. Cardinality(T) \in Nat /\ Cardinality(T) <= Cardinality(S)
      BY <2>1, <3>1, FS_Subset, FS_CardinalityType
    <3> QED
      BY <2>2, <2>3, <3>2, ConnAssumption
  <2>5. CASE ~AtLimit(p) /\ PeerOf[m] = p
    <3>1. T \subseteq S \cup {m}
      BY <1>1, <2>5 DEF StoreMuxer, MuxersOf
    <3>2. IsFiniteSet(S \cup {m}) /\ Cardinality(S \cup {m}) \in {Cardinality(S), Cardinality(S) + 1}
      BY Zenon, <2>1, FS_AddElement
    <3>3. Cardinality(T) \in Nat /\ Cardinality(T) <= Cardinality(S \cup {m})
      BY <3>1, <3>2, FS_Subset, FS_CardinalityType
    <3>4. Cardinality(A) < MaxConnsPerPeer
      BY <2>2, <2>5, ConnAssumption DEF AtLimit, Count
    <3> QED
      BY <2>2, <3>2, <3>3, <3>4, ConnAssumption
  <2> QED
    BY <2>4, <2>5
<1> QED
  BY <1>1, <1>2 DEF LimitInv, WithinPeerLimit, MuxersOf

\* Every other step leaves the store alone or takes muxers out of it.
LEMMA LimitStep == LimitInv /\ [Next]_vars => LimitInv'
<1> SUFFICES ASSUME LimitInv, [Next]_vars PROVE LimitInv'
  OBVIOUS
<1>1. ASSUME NEW m \in Muxers, StoreMuxer(m) PROVE LimitInv'
  BY <1>1, LimitStore
<1>2. ASSUME ~\E m \in Muxers : StoreMuxer(m)
      PROVE  muxed' \subseteq muxed /\ UNCHANGED overLimit
  BY Zenon, <1>2 DEF Next, vars, storeVars, RefuseMuxer, FinishStore, CancelStore, ConnectionCloses,
              OnClose, FinishOnClose, DropPeer, FinishDrop, WaitForPeerReady, ReturnFromWait,
              ExpectConnection, ReturnFromExpect, Stop, StopExpectations, StopClear,
              StopPeerClosed, StopNextPeer, Stopped, Start
<1> QED
  BY <1>1, <1>2, LimitShrinks

\* storeMuxer, onClose, dropPeer and stop keep readyPeers and the muxer store in
\* agreement, and each peer within its limit, for any number of peers, connections
\* and tasks.
THEOREM WellFormedAlways == Spec => []WellFormed
<1>1. Init => LimitInv
  <2> SUFFICES ASSUME Init PROVE LimitInv
    OBVIOUS
  <2>1. muxed = {} /\ IsFiniteSet(muxed)
    BY FS_EmptySet DEF Init
  <2>2. \A p \in Peers : (muxed \ overLimit) \cap MuxersOf(p) = {}
    BY <2>1
  <2> QED
    BY <2>1, <2>2, FS_EmptySet, ConnAssumption DEF LimitInv, WithinPeerLimit
<1>2. ReadyInv /\ LimitInv => WellFormed
  BY DEF ReadyInv, LimitInv, WellFormed
<1> QED
  BY <1>1, <1>2, ReadyInit, ReadyStep, LimitStep, PTL DEF Spec

-----------------------------------------------------------------------------
(* Expected connections.  A call is found under its key from its first     *)
(* step to its last, not only while its future is pending: only then does  *)
(* the `finally` of one call delete no key of another.                     *)

\* Every unfinished call is filed under its key while the manager runs.
ExpectInv ==
    /\ TypeOK
    /\ stops = 0 => /\ stopPc = "no"
                    /\ \A x \in Expecters : expectKey[x] # None => expected[expectKey[x]] = x
    /\ \A x \in Expecters : expectKey[x] = None => future[x] = "idle"

\* The state ExpectInv looks at.
expectWatched == <<expected, expectKey, stopPc, stops>>

\* Every step keeps it.
LEMMA ExpectStep == ExpectInv /\ [Next]_vars => ExpectInv'
<1> SUFFICES ASSUME ExpectInv, [Next]_vars PROVE ExpectInv'
  OBVIOUS
<1>0. TypeOK'
  BY TypeStep DEF ExpectInv
<1> USE ConnAssumption
<1>a. ASSUME UNCHANGED expectWatched, UNCHANGED future PROVE ExpectInv'
  BY <1>0, <1>a DEF ExpectInv, expectWatched
<1>1. ASSUME NEW m \in Muxers,
             \/ RefuseMuxer(m) \/ FinishStore(m) \/ CancelStore(m) \/ ConnectionCloses(m)
             \/ OnClose(m) \/ FinishOnClose(m)
      PROVE  ExpectInv'
  BY <1>a, <1>1 DEF RefuseMuxer, FinishStore, CancelStore, ConnectionCloses, OnClose,
                    FinishOnClose, expectVars, stopVars, expectWatched
<1>2. ASSUME NEW m \in Muxers, StoreMuxer(m) PROVE ExpectInv'
  <2>1. UNCHANGED expectWatched
    BY <1>2 DEF StoreMuxer, stopVars, expectWatched
  <2>2. ASSUME NEW x \in Expecters, expectKey[x] = None PROVE future'[x] = "idle"
    <3>1. future[x] = "idle"
      BY <2>2 DEF ExpectInv
    <3>2. future \in [Expecters -> {"idle", "pending", "cancelled"} \cup Muxers]
      BY DEF ExpectInv, TypeOK
    <3> QED
      BY <1>2, <3>1, <3>2 DEF StoreMuxer, Awaited
  <2> QED
    BY <1>0, <2>1, <2>2 DEF ExpectInv, expectWatched
<1>3. ASSUME NEW d \in Droppers, FinishDrop(d) \/ \E p \in Peers : DropPeer(d, p) PROVE ExpectInv'
  BY <1>a, <1>3 DEF FinishDrop, DropPeer, expectVars, stopVars, expectWatched
<1>4. ASSUME NEW w \in Waiters, ReturnFromWait(w) \/ \E p \in Peers : WaitForPeerReady(w, p)
      PROVE  ExpectInv'
  BY <1>a, <1>4 DEF ReturnFromWait, WaitForPeerReady, expectVars, stopVars, expectWatched
<1>5. ASSUME NEW x \in Expecters, ReturnFromExpect(x) PROVE ExpectInv'
  BY <1>0, <1>5 DEF ReturnFromExpect, stopVars, ExpectInv, TypeOK
<1>6. ASSUME NEW x \in Expecters, NEW k \in Keys, ExpectConnection(x, k) PROVE ExpectInv'
  <2>1. k # None
    OBVIOUS
  <2> QED
    BY <1>0, <1>6, <2>1 DEF ExpectConnection, stopVars, ExpectInv, TypeOK
<1>7. CASE Stop
  BY <1>0, <1>7 DEF Stop, expectVars, ExpectInv, TypeOK
<1>8. CASE StopExpectations
  BY <1>0, <1>8 DEF StopExpectations, ExpectInv, TypeOK
<1>9. CASE StopClear \/ StopPeerClosed \/ StopNextPeer \/ Stopped \/ Start
  BY <1>0, <1>9 DEF StopClear, StopPeerClosed, StopNextPeer, Stopped, Start, Drain,
                    expectVars, ExpectInv
<1>10. CASE UNCHANGED vars
  BY <1>a, <1>10 DEF vars, expectVars, stopVars, expectWatched
<1> QED
  BY <1>1, <1>2, <1>3, <1>4, <1>5, <1>6, <1>7, <1>8, <1>9, <1>10 DEF Next

\* Until the manager is stopped, storeMuxer finds every unfinished
\* expectConnection call under its key, for any number of calls and keys.
THEOREM ExpectationReachableAlways == Spec => []ExpectationReachable
<1>1. Init => ExpectInv
  BY ConnAssumption DEF Init, ExpectInv, TypeOK, Keys, Dirs
<1>2. ExpectInv => ExpectationReachable
  BY DEF ExpectInv, ExpectationReachable
<1> QED
  BY <1>1, <1>2, ExpectStep, PTL DEF Spec

-----------------------------------------------------------------------------
(* Joined.  A peer with a muxer in the store was told of as joined, or the *)
(* muxer that found it new is still about to, or failed.                   *)

\* A task that saw the first muxer of p and has not announced it yet.
FirstPending(p) ==
    \E m \in MuxersOf(p) : isNewPeer[m] /\ storePc[m] \in {"connecting", "lost", "refused"}

\* A ready peer is announced, or is about to be, or lost its first muxer.
JoinInv ==
    \A p \in Peers : Connected(p) => lastEvent[p] = "Joined" \/ FirstPending(p)

\* A step that starts no event but for peers it leaves without muxers, brings no
\* muxer into the store and lets no storeMuxer return keeps JoinInv.
LEMMA JoinQuiet ==
    ASSUME JoinInv, muxed' \subseteq muxed, UNCHANGED isNewPeer,
           \A p \in Peers : Connected(p)' => lastEvent'[p] = lastEvent[p],
           \A m \in Muxers : storePc'[m] = storePc[m] \/ storePc'[m] = "refused"
    PROVE  JoinInv'
BY DEF JoinInv, FirstPending, MuxersOf, Connected

\* Every step keeps it.
LEMMA JoinStep == TypeOK /\ JoinInv /\ [Next]_vars => JoinInv'
<1> SUFFICES ASSUME TypeOK, JoinInv, [Next]_vars PROVE JoinInv'
  OBVIOUS
<1> USE ConnAssumption
<1>a. ASSUME UNCHANGED <<muxed, isNewPeer, lastEvent, storePc>> PROVE JoinInv'
  BY <1>a, JoinQuiet
<1>1. ASSUME NEW m \in Muxers, RefuseMuxer(m) \/ CancelStore(m) PROVE JoinInv'
  <2>1. storePc' = [storePc EXCEPT ![m] = "refused"] /\ UNCHANGED <<muxed, isNewPeer, lastEvent>>
    BY <1>1 DEF RefuseMuxer, CancelStore
  <2>2. \A n \in Muxers : storePc'[n] = storePc[n] \/ storePc'[n] = "refused"
    BY <2>1 DEF TypeOK
  <2> QED
    BY <2>1, <2>2, JoinQuiet
<1>2. ASSUME NEW m \in Muxers, StoreMuxer(m) PROVE JoinInv'
  <2>1. /\ muxed' = muxed \cup {m} /\ storePc[m] = "upgraded" /\ UNCHANGED lastEvent
        /\ isNewPeer'[m] = ~Connected(PeerOf[m]) /\ storePc'[m] = "connecting"
        /\ \A n \in Muxers \ {m} : isNewPeer'[n] = isNewPeer[n] /\ storePc'[n] = storePc[n]
    BY <1>2 DEF StoreMuxer, IsNew, TypeOK
  <2>2. ASSUME NEW p \in Peers, Connected(p)' PROVE lastEvent'[p] = "Joined" \/ FirstPending(p)'
    <3>1. CASE Connected(p)
      <4>1. FirstPending(p) => FirstPending(p)'
        BY <2>1 DEF FirstPending, MuxersOf
      <4> QED
        BY <2>1, <3>1, <4>1 DEF JoinInv
    <3>2. CASE ~Connected(p)
      <4>1. PeerOf[m] = p
        BY <2>1, <2>2, <3>2 DEF Connected
      <4> QED
        BY Zenon, <2>1, <3>2, <4>1 DEF FirstPending, MuxersOf
    <3> QED
      BY <3>1, <3>2
  <2> QED
    BY <2>2 DEF JoinInv
<1>3. ASSUME NEW m \in Muxers, FinishStore(m) PROVE JoinInv'
  <2>1. /\ UNCHANGED <<muxed, isNewPeer>>
        /\ storePc'[m] = IF m \in muxed THEN "stored" ELSE "lost"
        /\ \A n \in Muxers \ {m} : storePc'[n] = storePc[n]
        /\ \A p \in Peers : lastEvent'[p] = IF p = PeerOf[m] /\ m \in muxed /\ isNewPeer[m]
                                            THEN "Joined" ELSE lastEvent[p]
    BY <1>3 DEF FinishStore, Joins, TypeOK
  <2>2. ASSUME NEW p \in Peers, Connected(p)' PROVE lastEvent'[p] = "Joined" \/ FirstPending(p)'
    <3>1. Connected(p)
      BY <2>1, <2>2 DEF Connected
    <3>2. lastEvent[p] = "Joined" => lastEvent'[p] = "Joined"
      BY <2>1
    <3>3. FirstPending(p) => lastEvent'[p] = "Joined" \/ FirstPending(p)'
      BY <2>1 DEF FirstPending, MuxersOf
    <3> QED
      BY <3>1, <3>2, <3>3 DEF JoinInv
  <2> QED
    BY <2>2 DEF JoinInv
<1>4. ASSUME NEW m \in Muxers, ConnectionCloses(m) \/ FinishOnClose(m) PROVE JoinInv'
  BY <1>a, <1>4 DEF ConnectionCloses, FinishOnClose
<1>5. ASSUME NEW m \in Muxers, OnClose(m) PROVE JoinInv'
  <2>1. muxed' = muxed \ {m} /\ UNCHANGED <<isNewPeer, storePc>> /\ PeerOf[m] \in Peers
    BY <1>5 DEF OnClose
  <2>2. ASSUME NEW p \in Peers, Connected(p)' PROVE lastEvent'[p] = lastEvent[p]
    <3>1. CASE IsLast(m)
      BY <1>5, <2>1, <2>2, <3>1, DisconnectEffect DEF OnClose, Connected
    <3>2. CASE ~IsLast(m)
      BY <1>5, <3>2 DEF OnClose
    <3> QED
      BY <3>1, <3>2
  <2> QED
    BY <2>1, <2>2, JoinQuiet
<1>6. ASSUME NEW d \in Droppers, FinishDrop(d) PROVE JoinInv'
  <2>1. /\ drops[d] \in Peers /\ OnPeerDisconnected(drops[d], muxed)
        /\ UNCHANGED <<muxed, isNewPeer, storePc>>
    BY <1>6 DEF FinishDrop, TypeOK
  <2>2. \A p \in Peers : Connected(p)' => lastEvent'[p] = lastEvent[p]
    BY <2>1, DisconnectEffect DEF Connected
  <2> QED
    BY <2>1, <2>2, JoinQuiet
<1>7. ASSUME NEW d \in Droppers, NEW p \in Peers, DropPeer(d, p) PROVE JoinInv'
  <2>1. muxed' \subseteq muxed /\ UNCHANGED <<isNewPeer, storePc, lastEvent>>
    BY <1>7 DEF DropPeer
  <2> QED
    BY <2>1, JoinQuiet
<1>8. ASSUME NEW w \in Waiters, ReturnFromWait(w) \/ \E p \in Peers : WaitForPeerReady(w, p)
      PROVE  JoinInv'
  BY <1>a, <1>8 DEF ReturnFromWait, WaitForPeerReady, storeVars
<1>9. ASSUME NEW x \in Expecters, ReturnFromExpect(x) \/ \E k \in Keys : ExpectConnection(x, k)
      PROVE  JoinInv'
  BY Zenon, <1>a, <1>9 DEF ReturnFromExpect, ExpectConnection, storeVars
<1>10. CASE StopClear
  <2>1. muxed' = {} /\ UNCHANGED <<isNewPeer, storePc, lastEvent>>
    BY <1>10 DEF StopClear
  <2> QED
    BY <2>1, JoinQuiet
<1>11. CASE StopPeerClosed
  <2>1. /\ stopPeer \in Peers /\ OnPeerDisconnected(stopPeer, muxed)
        /\ UNCHANGED <<muxed, isNewPeer, storePc>>
    BY <1>11 DEF StopPeerClosed, TypeOK
  <2>2. \A p \in Peers : Connected(p)' => lastEvent'[p] = lastEvent[p]
    BY <2>1, DisconnectEffect DEF Connected
  <2> QED
    BY <2>1, <2>2, JoinQuiet
<1>12. CASE Stop \/ StopExpectations \/ StopNextPeer \/ Stopped \/ Start \/ UNCHANGED vars
  BY <1>a, <1>12 DEF Stop, StopExpectations, StopNextPeer, Stopped, Start, vars, storeVars
<1> QED
  BY <1>1, <1>2, <1>3, <1>4, <1>5, <1>6, <1>7, <1>8, <1>9, <1>10, <1>11, <1>12 DEF Next

\* Joined is started for every peer that stays, unless the muxer that found the
\* peer new was lost while its Connected handlers ran, for any peers and muxers.
THEOREM JoinedUnlessFirstLostAlways == Spec => []JoinedUnlessFirstLost
<1>1. Init => JoinInv
  BY DEF Init, JoinInv, Connected
<1>2. JoinInv => JoinedUnlessFirstLost
  BY DEF JoinInv, JoinedUnlessFirstLost, FirstPending, Connected, MuxersOf
<1> QED
  BY <1>1, <1>2, JoinStep, TypeCorrect, PTL DEF Spec

-----------------------------------------------------------------------------
(* Readiness waits.  NoStrandedWaiter needs that a tabled future is        *)
(* unfinished and tabled for one peer only, and that a call that does not  *)
(* wait holds no future.                                                   *)

\* The calls that wait for p.
WaitersOf(p) == {w \in Waiters : waitPeer[w] = p}

StrandInv ==
    /\ NoStrandedWaiter
    /\ \A p \in Peers : readyEvents[p] # None => eventState[readyEvents[p]] = "pending"
    /\ \A p, q \in Peers : readyEvents[p] = readyEvents[q] /\ readyEvents[p] # None => p = q
    /\ \A w \in Waiters : waitPeer[w] = None <=> waitEvent[w] = None
    /\ \A p \in Peers : IsFiniteSet(WaitersOf(p))

\* A future that is finished and leaves the table, with no call that starts or
\* ends, strands nobody.
LEMMA SettleKeeps ==
    ASSUME TypeOK, StrandInv, NEW p \in Peers, NEW s \in {"completed", "cancelled"},
           SettleReadyEvent(p, s), UNCHANGED <<readyWaiters, waitPeer, waitEvent>>
    PROVE  StrandInv'
<1>1. \A q \in Peers : readyEvents'[q] = IF q = p THEN None ELSE readyEvents[q]
  BY DEF SettleReadyEvent, TypeOK
<1>2. \A e \in Events : eventState'[e] = IF e = readyEvents[p] THEN s ELSE eventState[e]
  BY ConnAssumption DEF SettleReadyEvent, TypeOK
<1>3. \A q \in Peers : WaitersOf(q)' = WaitersOf(q)
  BY DEF WaitersOf
<1>4. \A w \in Waiters :
        waitPeer[w] # None => waitPeer[w] \in Peers /\ waitEvent[w] \in Events
  BY DEF StrandInv, TypeOK
<1>5. \A w \in Waiters : waitPeer'[w] # None /\ eventState'[waitEvent'[w]] = "pending"
        => readyEvents'[waitPeer'[w]] = waitEvent'[w]
  BY <1>1, <1>2, <1>4 DEF StrandInv, NoStrandedWaiter
<1>6. \A q \in Peers : readyWaiters'[q] = Cardinality(WaitersOf(q)')
                        /\ (readyEvents'[q] # None => readyWaiters'[q] > 0)
  BY <1>1, <1>3 DEF StrandInv, NoStrandedWaiter, WaitersOf
<1>7. NoStrandedWaiter'
  BY <1>5, <1>6 DEF NoStrandedWaiter, WaitersOf
<1>8. \A q \in Peers : readyEvents'[q] # None => eventState'[readyEvents'[q]] = "pending"
  BY <1>1, <1>2 DEF StrandInv, TypeOK
<1> QED
  BY Zenon, <1>1, <1>3, <1>7, <1>8 DEF StrandInv

\* onPeerDisconnected cancels at most the future of its peer.
LEMMA DisconnectKeeps ==
    ASSUME TypeOK, StrandInv, NEW p \in Peers, NEW left, OnPeerDisconnected(p, left)
    PROVE  StrandInv'
<1>1. CASE \E m \in left : PeerOf[m] = p
  BY <1>1 DEF OnPeerDisconnected, readyVars, StrandInv, NoStrandedWaiter, WaitersOf
<1>2. CASE ~\E m \in left : PeerOf[m] = p
  BY <1>2, SettleKeeps DEF OnPeerDisconnected, ClearPeerReadyState
<1> QED
  BY <1>1, <1>2

\* A call that starts to wait shares the tabled future or tables one of its own.
LEMMA WaitKeeps ==
    ASSUME TypeOK, StrandInv, NEW w \in Waiters, NEW p \in Peers, WaitForPeerReady(w, p)
    PROVE  StrandInv'
<1>1. PICK e \in Events :
        /\ ReadyEvent(p, e)
        /\ readyEvents' = [readyEvents EXCEPT ![p] = e]
        /\ eventState' = [eventState EXCEPT ![e] = "pending"]
        /\ waitEvent' = [waitEvent EXCEPT ![w] = e]
  BY Zenon DEF WaitForPeerReady
<1>2. e # None /\ p # None /\ waitPeer[w] = None
  BY ConnAssumption DEF WaitForPeerReady
<1>3. \A q \in Peers : /\ readyEvents'[q] = IF q = p THEN e ELSE readyEvents[q]
                       /\ readyWaiters'[q] = IF q = p THEN readyWaiters[q] + 1 ELSE readyWaiters[q]
  BY <1>1 DEF TypeOK, WaitForPeerReady
<1>4. \A f \in Events : eventState'[f] = IF f = e THEN "pending" ELSE eventState[f]
  BY <1>1 DEF TypeOK
<1>5. \A v \in Waiters : /\ waitPeer'[v] = IF v = w THEN p ELSE waitPeer[v]
                         /\ waitEvent'[v] = IF v = w THEN e ELSE waitEvent[v]
  BY <1>1 DEF TypeOK, WaitForPeerReady
<1>6. \/ readyEvents[p] = e /\ eventState[e] = "pending"
      \/ /\ \A q \in Peers : readyEvents[q] # e
         /\ \A v \in Waiters : waitEvent[v] # e
         /\ readyEvents[p] = None
  BY Zenon, <1>1, <1>2 DEF ReadyEvent, StrandInv
<1>7. \A v \in Waiters :
        waitPeer[v] # None => waitPeer[v] \in Peers /\ waitEvent[v] \in Events
  BY DEF StrandInv, TypeOK
<1>8. ASSUME NEW v \in Waiters, waitPeer'[v] # None, eventState'[waitEvent'[v]] = "pending"
      PROVE  readyEvents'[waitPeer'[v]] = waitEvent'[v]
  <2>1. CASE v = w
    BY Zenon, <1>3, <1>5, <2>1
  <2>2. CASE v # w
    <3>1. waitPeer'[v] = waitPeer[v] /\ waitEvent'[v] = waitEvent[v]
          /\ waitPeer[v] \in Peers /\ waitEvent[v] \in Events
      BY Zenon, <1>5, <1>7, <1>8, <2>2
    <3>2. eventState[waitEvent[v]] = "pending"
      BY <1>4, <1>6, <1>8, <3>1
    <3>3. readyEvents[waitPeer[v]] = waitEvent[v]
      BY <1>8, <3>1, <3>2 DEF StrandInv, NoStrandedWaiter
    <3> QED
      BY Zenon, <1>2, <1>3, <1>6, <3>1, <3>3, ConnAssumption
  <2> QED
    BY <2>1, <2>2
<1>9. \A q \in Peers : WaitersOf(q)' = IF q = p THEN WaitersOf(q) \cup {w} ELSE WaitersOf(q)
  BY <1>2, <1>5, ConnAssumption DEF WaitersOf
<1>10. w \notin WaitersOf(p) /\ \A q \in Peers : IsFiniteSet(WaitersOf(q))
  BY <1>2 DEF WaitersOf, StrandInv
<1>11. \A q \in Peers : IsFiniteSet(WaitersOf(q)')
  BY <1>9, <1>10, FS_AddElement
<1>12. Cardinality(WaitersOf(p) \cup {w}) = Cardinality(WaitersOf(p)) + 1
       /\ Cardinality(WaitersOf(p)) \in Nat
  BY <1>10, FS_AddElement, FS_CardinalityType
<1>13. \A q \in Peers : readyWaiters[q] = Cardinality(WaitersOf(q))
                        /\ (readyEvents[q] # None => readyWaiters[q] > 0)
  BY DEF StrandInv, NoStrandedWaiter, WaitersOf
<1>14. \A q \in Peers : readyWaiters'[q] = Cardinality(WaitersOf(q)')
                        /\ (readyEvents'[q] # None => readyWaiters'[q] > 0)
  <2> TAKE q \in Peers
  <2>1. CASE q = p
    <3>a. WaitersOf(p)' = WaitersOf(p) \cup {w}
      BY <1>9
    <3>b. readyWaiters'[p] = readyWaiters[p] + 1
      BY <1>3
    <3>1. /\ Cardinality(WaitersOf(p)') = Cardinality(WaitersOf(p)) + 1
          /\ readyWaiters'[p] = Cardinality(WaitersOf(p)) + 1
      BY <3>a, <3>b, <1>12, <1>13
    <3>2. readyWaiters'[p] = Cardinality(WaitersOf(p)') /\ readyWaiters'[p] > 0
      BY <1>12, <3>1
    <3> QED
      BY <2>1, <3>2
  <2>2. CASE q # p
    BY <1>3, <1>9, <1>13, <2>2
  <2> QED
    BY <2>1, <2>2
<1>15. NoStrandedWaiter'
  BY <1>8, <1>14 DEF NoStrandedWaiter, WaitersOf
<1>a. ASSUME NEW q \in Peers, readyEvents[q] # None
      PROVE  readyEvents[q] \in Events /\ eventState[readyEvents[q]] = "pending"
  BY <1>a DEF StrandInv, TypeOK
<1>b. ASSUME NEW q \in Peers, NEW r \in Peers, readyEvents[q] = readyEvents[r], readyEvents[q] # None
      PROVE  q = r
  BY <1>b DEF StrandInv
<1>16. ASSUME NEW q \in Peers, readyEvents'[q] # None
       PROVE  eventState'[readyEvents'[q]] = "pending"
  <2>1. CASE q = p
    <3>1. readyEvents'[q] = e
      BY <1>3, <2>1
    <3>2. eventState'[e] = "pending"
      BY <1>4
    <3> QED
      BY <3>1, <3>2
  <2>2. CASE q # p
    <3>1. readyEvents'[q] = readyEvents[q]
      BY <1>3, <2>2
    <3>2. readyEvents[q] \in Events /\ eventState[readyEvents[q]] = "pending"
      BY <1>16, <1>a, <3>1
    <3>3. eventState'[readyEvents[q]] = "pending"
      BY <1>4, <3>2
    <3> QED
      BY <3>1, <3>3
  <2> QED
    BY <2>1, <2>2
<1>c. ASSUME NEW q \in Peers, q # p PROVE readyEvents[q] # e
  <2>1. CASE readyEvents[p] = e
    BY <1>2, <1>b, <1>c, <2>1
  <2>2. CASE readyEvents[p] # e
    BY <1>6, <2>2
  <2> QED
    BY <2>1, <2>2
<1>17. ASSUME NEW q \in Peers, NEW r \in Peers,
              readyEvents'[q] = readyEvents'[r], readyEvents'[q] # None
       PROVE  q = r
  <2>1. CASE q # p /\ r # p
    <3>1. readyEvents'[q] = readyEvents[q] /\ readyEvents'[r] = readyEvents[r]
      BY <1>3, <2>1
    <3> QED
      BY Zenon, <1>17, <1>b, <3>1
  <2>2. CASE q = p /\ r # p
    <3>1. readyEvents'[q] = e /\ readyEvents'[r] = readyEvents[r] /\ readyEvents[r] # e
      BY <1>3, <1>c, <2>2
    <3> QED
      BY ZenonT(30), <1>17, <3>1
  <2>3. CASE q # p /\ r = p
    <3>1. readyEvents'[r] = e /\ readyEvents'[q] = readyEvents[q] /\ readyEvents[q] # e
      BY <1>3, <1>c, <2>3
    <3> QED
      BY <1>17, <3>1
  <2> QED
    BY <2>1, <2>2, <2>3
<1>18. \A v \in Waiters : waitPeer'[v] = None <=> waitEvent'[v] = None
  BY <1>2, <1>5 DEF StrandInv
<1> QED
  BY Zenon, <1>11, <1>15, <1>16, <1>17, <1>18 DEF StrandInv

\* A call that returns takes the future with it only if it is the last one.
LEMMA ReturnKeeps ==
    ASSUME TypeOK, StrandInv, NEW w \in Waiters, ReturnFromWait(w)
    PROVE  StrandInv'
<1>1. PICK p \in Peers : waitPeer[w] = p /\ p # None
  BY DEF ReturnFromWait, TypeOK
<1>2. \A q \in Peers :
        /\ readyEvents'[q] = IF q = p /\ readyWaiters[p] = 1 THEN None ELSE readyEvents[q]
        /\ readyWaiters'[q] = IF q = p THEN readyWaiters[q] - 1 ELSE readyWaiters[q]
  BY <1>1 DEF TypeOK, ReturnFromWait, ClearReadyEvent
<1>3. \A v \in Waiters : /\ waitPeer'[v] = IF v = w THEN None ELSE waitPeer[v]
                         /\ waitEvent'[v] = IF v = w THEN None ELSE waitEvent[v]
  BY DEF TypeOK, ReturnFromWait
<1>4. UNCHANGED eventState
  BY DEF ReturnFromWait
<1>5. w \in WaitersOf(p) /\ \A q \in Peers : IsFiniteSet(WaitersOf(q))
  BY <1>1 DEF WaitersOf, StrandInv
<1>6. \A q \in Peers : WaitersOf(q)' = IF q = p THEN WaitersOf(q) \ {w} ELSE WaitersOf(q)
  BY Zenon, <1>1, <1>3, ConnAssumption DEF WaitersOf
<1>7. /\ Cardinality(WaitersOf(p) \ {w}) = Cardinality(WaitersOf(p)) - 1
      /\ IsFiniteSet(WaitersOf(p) \ {w}) /\ Cardinality(WaitersOf(p) \ {w}) \in Nat
      /\ Cardinality(WaitersOf(p)) \in Nat
  BY <1>5, FS_RemoveElement, FS_CardinalityType
<1>8. \A q \in Peers : readyWaiters[q] = Cardinality(WaitersOf(q))
                        /\ (readyEvents[q] # None => readyWaiters[q] > 0)
  BY DEF StrandInv, NoStrandedWaiter, WaitersOf
<1>9. \A q \in Peers : readyWaiters'[q] = Cardinality(WaitersOf(q)')
                        /\ (readyEvents'[q] # None => readyWaiters'[q] > 0)
  <2> TAKE q \in Peers
  <2>1. CASE q = p
    <3>a. WaitersOf(p)' = WaitersOf(p) \ {w}
      BY <1>6
    <3>b. /\ readyWaiters'[p] = readyWaiters[p] - 1
          /\ readyEvents'[p] # None => readyWaiters[p] # 1 /\ readyEvents[p] # None
      BY <1>2
    <3>1. /\ Cardinality(WaitersOf(p)') = Cardinality(WaitersOf(p)) - 1
          /\ readyWaiters'[p] = Cardinality(WaitersOf(p)) - 1
          /\ readyEvents'[p] # None => Cardinality(WaitersOf(p)) # 1
                                        /\ Cardinality(WaitersOf(p)) > 0
      BY <3>a, <3>b, <1>7, <1>8
    <3>2. readyWaiters'[p] = Cardinality(WaitersOf(p)')
          /\ (readyEvents'[p] # None => readyWaiters'[p] > 0)
      BY <1>7, <3>1
    <3> QED
      BY <2>1, <3>2
  <2>2. CASE q # p
    BY <1>2, <1>6, <1>8, <2>2
  <2> QED
    BY <2>1, <2>2
<1>10. ASSUME NEW v \in Waiters, waitPeer'[v] # None, eventState'[waitEvent'[v]] = "pending"
       PROVE  readyEvents'[waitPeer'[v]] = waitEvent'[v]
  <2>a. v # w /\ waitPeer'[v] = waitPeer[v] /\ waitEvent'[v] = waitEvent[v]
    BY <1>3, <1>10
  <2>b. waitPeer[v] \in Peers
    BY <1>10, <2>a DEF TypeOK
  <2>c. readyEvents[waitPeer[v]] = waitEvent[v]
    BY <1>4, <1>10, <2>a DEF StrandInv, NoStrandedWaiter
  <2>1. /\ v # w /\ waitPeer'[v] = waitPeer[v] /\ waitEvent'[v] = waitEvent[v]
        /\ waitPeer[v] \in Peers /\ readyEvents[waitPeer[v]] = waitEvent[v]
    BY <2>a, <2>b, <2>c
  <2>2. waitPeer[v] = p => readyWaiters[p] # 1
    <3> SUFFICES ASSUME waitPeer[v] = p, readyWaiters[p] = 1 PROVE FALSE
      OBVIOUS
    <3>1. v \in WaitersOf(p) \ {w}
      BY <2>1 DEF WaitersOf
    <3>a. readyWaiters[p] = Cardinality(WaitersOf(p))
      BY <1>8
    <3>2. Cardinality(WaitersOf(p) \ {w}) = 0
      BY <1>7, <3>a
    <3> QED
      BY <1>7, <3>1, <3>2, FS_EmptySet
  <2> QED
    BY <1>2, <2>1, <2>2
<1>11. NoStrandedWaiter'
  BY <1>9, <1>10 DEF NoStrandedWaiter, WaitersOf
<1>12. \A q \in Peers : readyEvents'[q] # None => eventState'[readyEvents'[q]] = "pending"
  BY <1>2, <1>4 DEF StrandInv
<1>13. \A q, r \in Peers : readyEvents'[q] = readyEvents'[r] /\ readyEvents'[q] # None => q = r
  BY <1>2 DEF StrandInv
<1>14. \A v \in Waiters : waitPeer'[v] = None <=> waitEvent'[v] = None
  BY <1>3 DEF StrandInv
<1>15. \A q \in Peers : IsFiniteSet(WaitersOf(q)')
  BY <1>5, <1>6, <1>7
<1> QED
  BY <1>11, <1>12, <1>13, <1>14, <1>15 DEF StrandInv

\* Every step keeps it.
LEMMA StrandStep == TypeOK /\ StrandInv /\ [Next]_vars => StrandInv'
<1> SUFFICES ASSUME TypeOK, StrandInv, [Next]_vars PROVE StrandInv'
  OBVIOUS
<1> USE ConnAssumption
<1>a. ASSUME UNCHANGED <<readyEvents, readyWaiters, eventState, waitPeer, waitEvent>>
      PROVE  StrandInv'
  BY <1>a DEF StrandInv, NoStrandedWaiter, WaitersOf
<1>1. ASSUME NEW m \in Muxers, RefuseMuxer(m) \/ FinishStore(m) \/ CancelStore(m)
                \/ ConnectionCloses(m) \/ FinishOnClose(m)
      PROVE  StrandInv'
  BY <1>a, <1>1 DEF RefuseMuxer, FinishStore, CancelStore, ConnectionCloses, FinishOnClose, readyVars
<1>2. ASSUME NEW m \in Muxers, StoreMuxer(m) PROVE StrandInv'
  <2>1. PeerOf[m] \in Peers /\ NotifyPeerReady(PeerOf[m])
    BY Zenon, <1>2 DEF StoreMuxer
  <2> QED
    BY <2>1, SettleKeeps DEF NotifyPeerReady
<1>3. ASSUME NEW m \in Muxers, OnClose(m) PROVE StrandInv'
  <2>1. PeerOf[m] \in Peers
    OBVIOUS
  <2>2. CASE IsLast(m)
    BY <1>3, <2>1, <2>2, DisconnectKeeps DEF OnClose
  <2>3. CASE ~IsLast(m)
    BY <1>a, <1>3, <2>3 DEF OnClose, readyVars
  <2> QED
    BY <2>2, <2>3
<1>4. ASSUME NEW d \in Droppers, FinishDrop(d) PROVE StrandInv'
  <2>1. drops[d] \in Peers /\ OnPeerDisconnected(drops[d], muxed)
    BY <1>4 DEF FinishDrop, TypeOK
  <2> QED
    BY <2>1, DisconnectKeeps
<1>5. ASSUME NEW d \in Droppers, NEW p \in Peers, DropPeer(d, p) PROVE StrandInv'
  BY <1>a, <1>5 DEF DropPeer, readyVars
<1>6. ASSUME NEW w \in Waiters, ReturnFromWait(w) \/ \E p \in Peers : WaitForPeerReady(w, p)
      PROVE  StrandInv'
  BY <1>6, ReturnKeeps, WaitKeeps
<1>7. ASSUME NEW x \in Expecters, ReturnFromExpect(x) \/ \E k \in Keys : ExpectConnection(x, k)
      PROVE  StrandInv'
  BY Zenon, <1>a, <1>7 DEF ReturnFromExpect, ExpectConnection, readyVars
<1>8. CASE StopClear
  <2>1. /\ \A q \in Peers : readyEvents'[q] = None
        /\ \A e \in Events : eventState'[e] = IF \E p \in Peers : readyEvents[p] = e
                                              THEN "cancelled" ELSE eventState[e]
        /\ UNCHANGED <<readyWaiters, waitPeer, waitEvent>>
    BY <1>8 DEF StopClear, CancelReadyEvents
  <2>2. ASSUME NEW w \in Waiters, waitPeer[w] # None PROVE eventState'[waitEvent[w]] # "pending"
    <3>1. waitPeer[w] \in Peers /\ waitEvent[w] \in Events
      BY <2>2 DEF StrandInv, TypeOK
    <3> QED
      BY Zenon, <2>1, <2>2, <3>1 DEF StrandInv, NoStrandedWaiter
  <2>a. \A p \in Peers : readyWaiters'[p] = Cardinality({w \in Waiters : waitPeer'[w] = p})
    <3>1. \A p \in Peers : readyWaiters[p] = Cardinality({w \in Waiters : waitPeer[w] = p})
      BY Zenon DEF StrandInv, NoStrandedWaiter
    <3>2. readyWaiters' = readyWaiters /\ waitPeer' = waitPeer
      BY Zenon, <2>1
    <3> QED
      BY <3>1, <3>2, Zenon
  <2>3. NoStrandedWaiter'
    BY <2>1, <2>2, <2>a DEF NoStrandedWaiter
  <2>b. \A p \in Peers : IsFiniteSet(WaitersOf(p)')
    BY <2>1 DEF StrandInv, WaitersOf
  <2>c. \A w \in Waiters : waitPeer'[w] = None <=> waitEvent'[w] = None
    BY <2>1 DEF StrandInv
  <2>d. \A p, q \in Peers : readyEvents'[p] = None /\ readyEvents'[q] = None
    BY <2>1
  <2> QED
    BY Zenon, <2>3, <2>b, <2>c, <2>d DEF StrandInv
<1>9. CASE StopPeerClosed
  <2>1. stopPeer \in Peers /\ OnPeerDisconnected(stopPeer, muxed)
    BY <1>9 DEF StopPeerClosed, TypeOK
  <2> QED
    BY <2>1, DisconnectKeeps
<1>10. CASE Stop \/ StopExpectations \/ StopNextPeer \/ Stopped \/ Start \/ UNCHANGED vars
  BY <1>a, <1>10 DEF Stop, StopExpectations, StopNextPeer, Stopped, Start, vars, readyVars
<1> QED
  BY <1>1, <1>2, <1>3, <1>4, <1>5, <1>6, <1>7, <1>8, <1>9, <1>10 DEF Next

\* No unfinished waitForPeerReady is left behind: the future it waits for is the
\* one the next storeMuxer of its peer completes, and the tables hold exactly the
\* futures and the counts of the waiting calls, for any peers, calls and futures.
THEOREM NoStrandedWaiterAlways == Spec => []NoStrandedWaiter
<1>1. Init => StrandInv
  <2> SUFFICES ASSUME Init PROVE StrandInv
    OBVIOUS
  <2>1. \A p \in Peers : WaitersOf(p) = {}
    BY ConnAssumption DEF Init, WaitersOf
  <2>2. \A p \in Peers : IsFiniteSet(WaitersOf(p)) /\ readyWaiters[p] = Cardinality(WaitersOf(p))
    BY Zenon, <2>1, FS_EmptySet DEF Init
  <2>3. /\ \A p \in Peers : readyEvents[p] = None
        /\ \A w \in Waiters : waitPeer[w] = None /\ waitEvent[w] = None
    BY DEF Init
  <2>4. NoStrandedWaiter
    BY <2>2, <2>3 DEF NoStrandedWaiter, WaitersOf
  <2> QED
    BY <2>2, <2>3, <2>4 DEF StrandInv
<1>2. StrandInv => NoStrandedWaiter
  BY DEF StrandInv
<1> QED
  BY <1>1, <1>2, StrandStep, TypeCorrect, PTL DEF Spec
=============================================================================
