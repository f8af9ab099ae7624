--------------------------- MODULE ConnTrimProofs ---------------------------
(***************************************************************************)
(* Proofs about ConnTrim, for any muxers, peers, watermarks and periods:   *)
(* WellFormed is an invariant, and the two promises of a trim hold.        *)
(*                                                                         *)
(* Early muxers are those that can still add a trigger: their number and   *)
(* the triggers pending never exceed the number of muxers.                 *)
(***************************************************************************)
EXTENDS ConnTrim, FiniteSetTheorems, TLAPS

\* The muxers that the trim cannot have met yet.
Early == {m \in Muxers : stage[m] \in {"none", "storing"}}

\* A manager that is being stopped starts no decay loop.
StopInv == stopping # "no" => ~running

\* What an induction needs besides WellFormed: the count of the triggers, that
\* the stay of a connected peer began at some time up to now, and StopInv.
Inv ==
    /\ WellFormed
    /\ joined + Cardinality(Early) <= Cardinality(Muxers)
    /\ since \in [Peers -> (0 .. MaxTime) \cup {None}]
    /\ \A p \in Connected : since[p] \in 0 .. now
    /\ env \in Envs
    /\ StopInv

-----------------------------------------------------------------------------
(* Counting.                                                               *)

\* Stages only advance, so that the early muxers become fewer.
LEMMA EarlyShrinks ==
    ASSUME NEW S \in SUBSET Early
    PROVE  /\ IsFiniteSet(S) /\ IsFiniteSet(Early)
           /\ Cardinality(S) \in Nat /\ Cardinality(Early) \in Nat
           /\ Cardinality(S) <= Cardinality(Early)
           /\ Cardinality(Muxers) \in Nat /\ Cardinality(Early) <= Cardinality(Muxers)
<1>1. Early \in SUBSET Muxers /\ IsFiniteSet(Muxers)
  BY TrimAssumption DEF Early
<1>2. IsFiniteSet(Early) /\ Cardinality(Early) <= Cardinality(Muxers)
  BY <1>1, FS_Subset
<1>3. IsFiniteSet(S) /\ Cardinality(S) <= Cardinality(Early)
  BY <1>2, FS_Subset
<1> QED
  BY <1>1, <1>2, <1>3, FS_CardinalityType

\* Finitely many muxers make finitely many connected peers.
LEMMA ConnectedFinite ==
    IsFiniteSet(Connected) /\ Cardinality(Connected) \in Nat
<1> DEFINE f == [m \in InStore |-> PeerOf[m]]
<1>1. InStore \in SUBSET Muxers /\ IsFiniteSet(Muxers)
  BY TrimAssumption DEF InStore
<1>2. IsFiniteSet(InStore)
  BY <1>1, FS_Subset
<1>3. f \in [InStore -> Connected]
  BY <1>1, TrimAssumption DEF Connected, Stored
<1>4. \A p \in Connected : \E m \in InStore : f[m] = p
  BY DEF Connected, Stored
<1>5. f \in Surjection(InStore, Connected)
  BY <1>3, <1>4 DEF Surjection
<1> QED
  BY <1>2, <1>5, FS_Surjection, FS_CardinalityType

-----------------------------------------------------------------------------
(* The steps, by what they touch.                                          *)

\* A step that only takes muxers out of the store adds no early muxer and no
\* connected peer, and the stays of the peers left are what they were.
LEMMA StoreShrinks ==
    ASSUME Inv,
           stage' \in [Muxers -> {"none", "storing", "stored", "dropped"}],
           \A m \in Muxers : stage'[m] = stage[m] \/ stage'[m] = "dropped",
           UNCHANGED <<now, since>>
    PROVE  /\ Early' \in SUBSET Early
           /\ Connected' \subseteq Connected
           /\ \A p \in Connected' : since'[p] \in 0 .. now'
<1>1. Early' \in SUBSET Early
  BY DEF Early
<1>2. Connected' \subseteq Connected
  BY DEF Connected, Stored, InStore
<1> QED
  BY <1>1, <1>2 DEF Inv

\* onPeerDisconnected keeps an age only of peers that are connected, or that it
\* was not about.
LEMMA DisconnectedKeeps ==
    ASSUME Inv, NEW gone, NEW store, Disconnected(gone, store)
    PROVE  /\ connectedAt' \in [Peers -> (0 .. MaxTime) \cup {None}]
           /\ \A p \in Peers : connectedAt'[p] # None =>
                connectedAt[p] # None /\ (p \in gone => \E m \in store : PeerOf[m] = p)
<1> QED
  BY DEF Inv, WellFormed, TypeOK, Disconnected

\* A step that leaves connections, ages and time alone keeps what Inv says of
\* them.
LEMMA TagsOnly ==
    ASSUME Inv, UNCHANGED <<now, since, stage, connectedAt, joined, trimming, dropping,
                               leaving, stopVars, env>>,
           running' \in BOOLEAN, decayLoop' \in BOOLEAN,
           protected' \in [Peers -> SUBSET Tags],
           decayingTag' \in [Peers -> Values \cup {0, None}],
           staticTag' \in [Peers -> Values \cup {None}],
           DecayLoopAlive', StopInv'
    PROVE  Inv'
<1>1. Early' = Early /\ Connected' = Connected
  BY DEF Early, Connected, Stored, InStore
<1>2. AgeIsOfThisStay'
  BY <1>1 DEF Inv, WellFormed, AgeIsOfThisStay, StopCloses, stopVars
<1>3. TypeOK'
  BY DEF Inv, WellFormed, TypeOK, stopVars
<1> QED
  BY <1>1, <1>2, <1>3 DEF Inv, WellFormed

\* A step that leaves the tags alone keeps what Inv says of them.
LEMMA ConnsOnly ==
    ASSUME Inv, UNCHANGED <<now, running, tagVars, env>>,
           trimming' \in BOOLEAN, dropping' # {} => trimming',
           stopping' \in {"no", "loop", "trim", "events", "closing", "drain"},
           closing' \in SUBSET Muxers,
           stage' \in [Muxers -> {"none", "storing", "stored", "dropped"}],
           connectedAt' \in [Peers -> (0 .. MaxTime) \cup {None}],
           since' \in [Peers -> (0 .. MaxTime) \cup {None}],
           \A p \in Connected' : since'[p] \in 0 .. now',
           joined' \in Nat, joined' + Cardinality(Early') <= Cardinality(Muxers),
           AgeIsOfThisStay', StopInv'
    PROVE  Inv'
<1>1. Cardinality(Early)' \in Nat /\ Cardinality(Muxers) \in Nat
  <2>1. Early' \in SUBSET Muxers /\ IsFiniteSet(Muxers)
    BY TrimAssumption DEF Early
  <2> QED
    BY <2>1, FS_Subset, FS_CardinalityType
<1>2. TypeOK'
  BY <1>1 DEF Inv, WellFormed, TypeOK, tagVars
<1>3. DecayLoopAlive'
  BY DEF Inv, WellFormed, DecayLoopAlive, Tagged, tagVars
<1> QED
  BY <1>2, <1>3 DEF Inv, WellFormed

\* A trim, or its refusal, drops candidates only, and records them as it does.
LEMMA TriggerKeeps ==
    ASSUME Inv, TriggerTrim, UNCHANGED <<now, since, running, connectedAt, leaving, tagVars, env>>,
           UNCHANGED stopVars,
           joined' \in Nat, joined' <= joined
    PROVE  Inv'
<1>1. joined \in Nat
  BY DEF Inv, WellFormed, TypeOK
<1>2. /\ stage' \in [Muxers -> {"none", "storing", "stored", "dropped"}]
      /\ \A m \in Muxers : \/ stage'[m] = stage[m]
                           \/ stage'[m] = "dropped" /\ m \in InStore /\ PeerOf[m] \in dropping'
      /\ trimming' \in BOOLEAN /\ (dropping' # {} => trimming')
      /\ dropping \subseteq dropping'
  <2>1. CASE trimming \/ Cardinality(Connected) <= HighWater \/ Silent
    BY <2>1 DEF TriggerTrim, trimVars, Inv, WellFormed, TypeOK
  <2>2. CASE ~(trimming \/ Cardinality(Connected) <= HighWater \/ Silent)
    <3>1. PICK V \in Victims :
            /\ trimming' = TRUE
            /\ dropping' = V
            /\ stage' = [m \in Muxers |->
                 IF m \in InStore /\ PeerOf[m] \in V THEN "dropped" ELSE stage[m]]
      BY <2>2 DEF TriggerTrim
    <3>2. dropping = {}
      BY <2>2 DEF Inv, WellFormed, TypeOK
    <3> QED
      BY <3>1, <3>2 DEF Inv, WellFormed, TypeOK
  <2> QED
    BY <2>1, <2>2
<1>3. Early' \in SUBSET Early /\ \A p \in Connected' : since'[p] \in 0 .. now'
  BY <1>2, StoreShrinks
<1>4. joined' + Cardinality(Early') <= Cardinality(Muxers)
  BY <1>1, <1>3, EarlyShrinks DEF Inv
<1>5. \A p \in Connected : p \in Connected' \cup dropping'
  BY <1>2 DEF Connected, Stored, InStore
<1>6. AgeIsOfThisStay'
  BY <1>2, <1>5 DEF Inv, WellFormed, AgeIsOfThisStay, StopCloses, stopVars
<1>7. StopInv'
  BY DEF Inv, StopInv, stopVars
<1> QED
  BY <1>2, <1>3, <1>4, <1>6, <1>7, ConnsOnly DEF Inv, WellFormed, TypeOK, stopVars

\* Only Start makes the manager run again, once stop has ended.
LEMMA StopKeeps == Inv /\ [Next]_vars => StopInv'
<1> SUFFICES ASSUME Inv, [Next]_vars PROVE StopInv'
  OBVIOUS
<1>1. CASE Next
  <2>1. \/ UNCHANGED <<running, stopping>>
        \/ running' = FALSE
        \/ stopping' = "no"
        \/ stopping # "no" /\ UNCHANGED running
    BY Zenon, <1>1
    DEF Next, Step, Clock, DecayRound, JoinedHandled, AcceptTriggers, TrimDone, Start, StoreMuxer,
        StoreGoesOn, MuxerCloses, Stop, StopTrim, StopEvents, StopClear, StopPeerClosed, StopDrain,
        Stopped, Protect, Unprotect, DropPeer, DropDone, TagPeerDecaying, TagPeer, BumpOrRemoveTag,
        listVars, stopVars
  <2> QED
    BY Zenon, <2>1 DEF Inv, StopInv
<1>2. CASE UNCHANGED vars
  BY Zenon, <1>2 DEF vars, Inv, StopInv
<1> QED
  BY <1>1, <1>2

\* Every step of the manager keeps the invariant.
LEMMA InvNext == Inv /\ [Next]_vars => Inv'
<1> SUFFICES ASSUME Inv, [Next]_vars PROVE Inv'
  OBVIOUS
<1>s. StopInv'
  BY StopKeeps
<1>0. /\ \A m \in env.muxers : m \in Muxers /\ PeerOf[m] \in Peers
      /\ \A p \in Players : p \in Peers
      /\ Next => UNCHANGED env
      /\ joined \in Nat /\ now \in Nat
      /\ stage \in [Muxers -> {"none", "storing", "stored", "dropped"}]
      /\ connectedAt \in [Peers -> (0 .. MaxTime) \cup {None}]
      /\ since \in [Peers -> (0 .. MaxTime) \cup {None}]
      /\ Cardinality(Early) \in Nat /\ Cardinality(Muxers) \in Nat
  BY TrimAssumption, EarlyShrinks DEF Inv, WellFormed, TypeOK, Players, Next
<1>1. ASSUME Next, Clock PROVE Inv'
  <2>1. Early' = Early /\ Connected' = Connected
    BY <1>1 DEF Clock, Early, Connected, Stored, InStore
  <2>2. AgeIsOfThisStay' /\ DecayLoopAlive'
    BY <1>1, <2>1
    DEF Clock, listVars, trimVars, stopVars, tagVars, Inv, WellFormed, AgeIsOfThisStay, StopCloses,
                      DecayLoopAlive, Tagged
  <2>3. TypeOK'
    BY <1>0, <1>1, TrimAssumption
    DEF Clock, listVars, trimVars, stopVars, tagVars, Inv, WellFormed, TypeOK
  <2>4. \A p \in Connected : since[p] \in 0 .. now'
    BY <1>0, <1>1 DEF Clock, Inv
  <2> QED
    BY <1>s, <1>0, <1>1, <2>1, <2>2, <2>3, <2>4 DEF Clock, Inv, WellFormed
<1>2. ASSUME Next, DecayRound PROVE Inv'
  <2>1. decayingTag' \in [Peers -> Values \cup {0, None}]
    <3>1. PICK due \in SUBSET Tagged : decayingTag' = [p \in Peers |->
            IF p \notin due THEN decayingTag[p]
            ELSE IF decayingTag[p] <= 1 THEN None ELSE decayingTag[p] - 1]
      BY <1>2 DEF DecayRound
    <3>2. \A p \in due : decayingTag[p] \in Values \cup {0}
      BY DEF Tagged, Inv, WellFormed, TypeOK
    <3>3. \A p \in due : ~(decayingTag[p] <= 1) => decayingTag[p] - 1 \in Values
      BY <3>2, TrimAssumption DEF Values
    <3> QED
      BY <3>1, <3>3 DEF Inv, WellFormed, TypeOK
  <2>2. DecayLoopAlive' /\ decayLoop' \in BOOLEAN
    BY <1>2 DEF DecayRound, DecayLoopAlive, Tagged
  <2> QED
    BY <1>0, <1>2, <2>1, <2>2, <1>s, TagsOnly
    DEF DecayRound, listVars, trimVars, stopVars, Inv, WellFormed, TypeOK
<1>3. ASSUME Next, JoinedHandled PROVE Inv'
  BY <1>0, <1>3, TriggerKeeps DEF JoinedHandled
<1>4. ASSUME Next, AcceptTriggers PROVE Inv'
  BY <1>0, <1>4, TriggerKeeps DEF AcceptTriggers
<1>5. ASSUME Next, TrimDone PROVE Inv'
  <2>1. Early' = Early /\ Connected' = Connected
    BY <1>5 DEF TrimDone, Early, Connected, Stored, InStore
  <2>2. /\ connectedAt' \in [Peers -> (0 .. MaxTime) \cup {None}]
        /\ \A p \in Peers : connectedAt'[p] # None =>
             connectedAt[p] # None /\ (p \in dropping => \E m \in InStore : PeerOf[m] = p)
    BY <1>5, DisconnectedKeeps DEF TrimDone
  <2>3. AgeIsOfThisStay'
    BY <1>5, <2>1, <2>2
    DEF TrimDone, stopVars, Inv, WellFormed, AgeIsOfThisStay, StopCloses, Connected, Stored
  <2> QED
    BY ZenonT(30), <1>0, <1>5, <2>1, <2>2, <2>3, <1>s, ConnsOnly
    DEF TrimDone, stopVars, Inv, WellFormed, TypeOK
<1>6. ASSUME Next, Stop PROVE Inv'
  <2>1. UNCHANGED <<now, since, stage, connectedAt, joined, trimming, dropping, leaving, closing,
                    protected, staticTag, decayingTag, decayLoop, env>>
        /\ running' = FALSE /\ stopping = "no" /\ stopping' = "loop"
    BY Zenon, <1>0, <1>6 DEF Stop, trimVars, tagVars
  <2>2. Early' = Early /\ Connected' = Connected
    BY <2>1 DEF Early, Connected, Stored, InStore
  <2>3. AgeIsOfThisStay' /\ DecayLoopAlive'
    BY <2>1, <2>2 DEF Inv, WellFormed, AgeIsOfThisStay, DecayLoopAlive, StopCloses
  <2>4. TypeOK'
    BY Zenon, <2>1 DEF Inv, WellFormed, TypeOK
  <2> QED
    BY <1>s, <2>1, <2>2, <2>3, <2>4 DEF Inv, WellFormed
<1>6a. ASSUME Next, StopTrim PROVE Inv'
  <2>1. UNCHANGED <<now, since, running, stage, connectedAt, joined, closing, protected,
                    staticTag, decayingTag, env>>
        /\ trimming' = FALSE /\ decayLoop' = FALSE /\ dropping' = {}
        /\ leaving' = leaving \cup dropping
        /\ stopping = "loop" /\ stopping' = "trim"
    BY Zenon, <1>0, <1>6a DEF StopTrim
  <2>2. Early' = Early /\ Connected' = Connected
    BY <2>1 DEF Early, Connected, Stored, InStore
  <2>3. AgeIsOfThisStay'
    BY <2>1, <2>2 DEF Inv, WellFormed, AgeIsOfThisStay, StopCloses
  <2>4. DecayLoopAlive'
    BY <2>1 DEF Inv, StopInv, DecayLoopAlive
  <2>5. TypeOK'
    BY Zenon, <2>1 DEF Inv, WellFormed, TypeOK
  <2> QED
    BY <2>1, <2>2, <2>3, <2>4, <2>5 DEF Inv, WellFormed, StopInv
<1>6b. ASSUME Next, StopEvents \/ StopDrain \/ Stopped PROVE Inv'
  <2>1. /\ UNCHANGED <<now, since, running, stage, connectedAt, trimming, dropping, leaving,
                       tagVars, env>>
        /\ joined' \in {joined, 0}
        /\ closing' \in {closing, InStore, {}}
        /\ stopping' \in {"events", "drain", "no"}
        /\ stopping = "closing" => closing = {}
    BY <1>0, <1>6b DEF StopEvents, StopDrain, Stopped, trimVars
  <2>2. Early' = Early /\ Connected' = Connected /\ InStore \in SUBSET Muxers
    BY <2>1 DEF Early, Connected, Stored, InStore
  <2>3. joined' \in Nat /\ joined' + Cardinality(Early') <= Cardinality(Muxers)
    BY <1>0, <2>1, <2>2 DEF Inv
  <2>4. AgeIsOfThisStay'
    BY <2>1, <2>2 DEF Inv, WellFormed, AgeIsOfThisStay, StopCloses
  <2>5. closing' \in SUBSET Muxers /\ \A p \in Connected' : since'[p] \in 0 .. now'
    BY <2>1, <2>2 DEF Inv, WellFormed, TypeOK
  <2> QED
    BY <1>0, <2>1, <2>3, <2>4, <2>5, <1>s, ConnsOnly DEF Inv, WellFormed, TypeOK
<1>6c. ASSUME Next, StopClear PROVE Inv'
  <2>1. stage' \in [Muxers -> {"none", "storing", "stored", "dropped"}]
        /\ (\A m \in Muxers : stage'[m] = stage[m] \/ stage'[m] = "dropped")
        /\ InStore \in SUBSET Muxers
    BY <1>0, <1>6c DEF StopClear, InStore
  <2>2. Early' \in SUBSET Early /\ \A p \in Connected' : since'[p] \in 0 .. now'
    BY <1>6c, <2>1, StoreShrinks DEF StopClear
  <2>3. joined' + Cardinality(Early') <= Cardinality(Muxers)
    BY <1>0, <1>6c, <2>2, EarlyShrinks DEF StopClear, Inv
  <2>4. Connected \subseteq StopCloses'
    BY <1>6c DEF StopClear, StopCloses, Connected, Stored
  <2>5. AgeIsOfThisStay'
    BY <1>6c, <2>4 DEF StopClear, trimVars, Inv, WellFormed, AgeIsOfThisStay, StopCloses
  <2> QED
    BY <1>0, <1>6c, <2>1, <2>2, <2>3, <2>5, <1>s, ConnsOnly
    DEF StopClear, trimVars, Inv, WellFormed, TypeOK
<1>7. ASSUME Next, Start PROVE Inv'
  <2>1. DecayLoopAlive' /\ running' \in BOOLEAN /\ decayLoop' \in BOOLEAN
    BY Zenon, <1>7 DEF Start, DecayLoopAlive, Tagged
  <2> QED
    BY <1>0, <1>7, <2>1, <1>s, TagsOnly
    DEF Start, listVars, trimVars, stopVars, Inv, WellFormed, TypeOK
<1>8. ASSUME Next, NEW m \in env.muxers, StoreMuxer(m) PROVE Inv'
  <2>1. /\ stage' \in [Muxers -> {"none", "storing", "stored", "dropped"}]
        /\ Early' = Early
        /\ InStore' = InStore \cup {m}
    BY <1>0, <1>8 DEF StoreMuxer, Early, InStore
  <2>2. Connected' = Connected \cup {PeerOf[m]}
    BY <1>0, <2>1 DEF Connected, Stored
  <2>3. since' \in [Peers -> (0 .. MaxTime) \cup {None}]
    BY <1>0, <1>8 DEF StoreMuxer, Inv, WellFormed, TypeOK
  <2>4. \A p \in Connected' : since'[p] \in 0 .. now'
    BY <1>0, <1>8, <2>2 DEF StoreMuxer, Inv
  <2>5. AgeIsOfThisStay'
    BY <1>8, <2>2
    DEF StoreMuxer, listVars, trimVars, stopVars, Inv, WellFormed, AgeIsOfThisStay, StopCloses
  <2> QED
    BY <1>0, <1>8, <2>1, <2>3, <2>4, <2>5, <1>s, ConnsOnly
    DEF StoreMuxer, listVars, trimVars, stopVars, Inv, WellFormed, TypeOK
<1>9. ASSUME Next, NEW m \in env.muxers, StoreGoesOn(m) PROVE Inv'
  <2>1. /\ stage' \in [Muxers -> {"none", "storing", "stored", "dropped"}]
        /\ Early' = Early \ {m} /\ m \in Early
        /\ InStore' = InStore /\ m \in InStore
    BY <1>0, <1>9 DEF StoreGoesOn, Early, InStore
  <2>2. Connected' = Connected /\ PeerOf[m] \in Connected
    BY <1>0, <2>1 DEF Connected, Stored
  <2>3. joined' \in Nat /\ joined' <= joined + 1
    BY <1>0, <1>9 DEF StoreGoesOn
  <2>4. Cardinality(Early') = Cardinality(Early) - 1
    <3>1. IsFiniteSet(Early)
      BY EarlyShrinks
    <3> QED
      BY <2>1, <3>1, FS_RemoveElement
  <2>5. joined' + Cardinality(Early') <= Cardinality(Muxers)
    BY <1>0, <2>3, <2>4 DEF Inv
  <2>6. connectedAt' \in [Peers -> (0 .. MaxTime) \cup {None}]
        /\ \A p \in Peers : connectedAt'[p] # None => connectedAt[p] # None \/ p = PeerOf[m]
    BY <1>0, <1>9 DEF StoreGoesOn, NoteAge, Inv, WellFormed, TypeOK
  <2>7. AgeIsOfThisStay'
    BY <1>9, <2>2, <2>6
    DEF StoreGoesOn, listVars, trimVars, stopVars, Inv, WellFormed, AgeIsOfThisStay, StopCloses
  <2>8. \A p \in Connected' : since'[p] \in 0 .. now'
    BY <1>9, <2>2 DEF StoreGoesOn, Inv
  <2> QED
    BY <1>0, <1>9, <2>1, <2>3, <2>5, <2>6, <2>7, <2>8, <1>s, ConnsOnly
    DEF StoreGoesOn, listVars, trimVars, stopVars, Inv, WellFormed, TypeOK
<1>10. ASSUME Next, NEW m \in env.muxers, MuxerCloses(m) PROVE Inv'
  <2>1. /\ stage' \in [Muxers -> {"none", "storing", "stored", "dropped"}]
        /\ \A n \in Muxers : stage'[n] = stage[n] \/ stage'[n] = "dropped"
        /\ InStore' = InStore \ {m}
    BY <1>0, <1>10 DEF MuxerCloses, InStore
  <2>2. Early' \in SUBSET Early /\ \A p \in Connected' : since'[p] \in 0 .. now'
    BY <1>10, <2>1, StoreShrinks DEF MuxerCloses
  <2>3. joined' + Cardinality(Early') <= Cardinality(Muxers)
    BY <1>0, <1>10, <2>2, EarlyShrinks DEF MuxerCloses, Inv
  <2>4. /\ connectedAt' \in [Peers -> (0 .. MaxTime) \cup {None}]
        /\ \A p \in Peers : connectedAt'[p] # None => connectedAt[p] # None
              /\ (p \in {PeerOf[m]} => \E n \in InStore \ {m} : PeerOf[n] = p)
    BY <1>10, DisconnectedKeeps DEF MuxerCloses
  <2>5. AgeIsOfThisStay'
    BY <1>10, <2>1, <2>4
    DEF MuxerCloses, listVars, trimVars, stopVars, Inv, WellFormed, AgeIsOfThisStay,
        StopCloses, Connected, Stored
  <2> QED
    BY <1>0, <1>10, <2>1, <2>2, <2>3, <2>4, <2>5, <1>s, ConnsOnly
    DEF MuxerCloses, listVars, trimVars, stopVars, Inv, WellFormed, TypeOK
<1>11. ASSUME Next, NEW p \in Players, DropPeer(p) PROVE Inv'
  <2>1. /\ stage' \in [Muxers -> {"none", "storing", "stored", "dropped"}]
        /\ \A n \in Muxers : stage'[n] = stage[n] \/ stage'[n] = "dropped"
        /\ InStore' = InStore \ Stored(p)
    BY <1>0, <1>11 DEF DropPeer, InStore, Stored
  <2>2. Early' \in SUBSET Early /\ \A q \in Connected' : since'[q] \in 0 .. now'
    BY <1>11, <2>1, StoreShrinks DEF DropPeer
  <2>3. joined' + Cardinality(Early') <= Cardinality(Muxers)
    BY <1>0, <1>11, <2>2, EarlyShrinks DEF DropPeer, Inv
  <2>4. AgeIsOfThisStay'
    BY <1>11, <2>1
    DEF DropPeer, trimVars, stopVars, Inv, WellFormed, AgeIsOfThisStay, StopCloses, Connected,
        Stored
  <2> QED
    BY <1>0, <1>11, <2>1, <2>2, <2>3, <2>4, <1>s, ConnsOnly
    DEF DropPeer, trimVars, stopVars, Inv, WellFormed, TypeOK
<1>12. ASSUME Next, NEW p \in Players, DropDone(p) PROVE Inv'
  <2>1. Early' = Early /\ Connected' = Connected
    BY <1>12 DEF DropDone, Early, Connected, Stored, InStore
  <2>2. /\ connectedAt' \in [Peers -> (0 .. MaxTime) \cup {None}]
        /\ \A q \in Peers : connectedAt'[q] # None =>
             connectedAt[q] # None /\ (q \in {p} => \E m \in InStore : PeerOf[m] = q)
    BY <1>12, DisconnectedKeeps DEF DropDone
  <2>3. AgeIsOfThisStay'
    BY <1>12, <2>1, <2>2
    DEF DropDone, trimVars, stopVars, Inv, WellFormed, AgeIsOfThisStay, StopCloses, Connected,
        Stored
  <2> QED
    BY <1>0, <1>12, <2>1, <2>2, <2>3, <1>s, ConnsOnly
    DEF DropDone, trimVars, stopVars, Inv, WellFormed, TypeOK
<1>12a. ASSUME Next, NEW p \in Players, StopPeerClosed(p) PROVE Inv'
  <2>1. Early' = Early /\ Connected' = Connected
    BY <1>12a DEF StopPeerClosed, Early, Connected, Stored, InStore
  <2>2. /\ connectedAt' \in [Peers -> (0 .. MaxTime) \cup {None}]
        /\ \A q \in Peers : connectedAt'[q] # None =>
             connectedAt[q] # None /\ (q \in {p} => \E m \in InStore : PeerOf[m] = q)
    BY <1>12a, DisconnectedKeeps DEF StopPeerClosed
  <2>3. StopCloses' = StopCloses \ {p} /\ closing' \in SUBSET Muxers
    BY <1>12a DEF StopPeerClosed, StopCloses, Inv, WellFormed, TypeOK
  <2>4. AgeIsOfThisStay'
    BY <1>12a, <2>1, <2>2, <2>3
    DEF StopPeerClosed, trimVars, Inv, WellFormed, AgeIsOfThisStay, Connected, Stored
  <2> QED
    BY <1>0, <1>12a, <2>1, <2>2, <2>3, <2>4, <1>s, ConnsOnly
    DEF StopPeerClosed, trimVars, Inv, WellFormed, TypeOK
<1>13. ASSUME Next, NEW p \in Players, NEW tag \in Tags, Protect(p, tag) \/ Unprotect(p, tag)
       PROVE  Inv'
  <2>1. protected' \in [Peers -> SUBSET Tags]
    BY <1>0, <1>13 DEF Protect, Unprotect, Inv, WellFormed, TypeOK
  <2>2. UNCHANGED <<now, since, running, stage, connectedAt, joined, trimming, dropping, leaving,
                    stopVars, staticTag, decayingTag, decayLoop, env>>
    BY <1>0, <1>13 DEF Protect, Unprotect, listVars, trimVars, stopVars
  <2>3. DecayLoopAlive'
    BY <2>2 DEF DecayLoopAlive, Tagged, Inv, WellFormed
  <2> QED
    BY <2>1, <2>2, <2>3, <1>s, TagsOnly DEF Inv, WellFormed, TypeOK
<1>14. ASSUME Next, NEW p \in Players, NEW v \in Values \cup {None}, TagPeer(p, v) PROVE Inv'
  <2>1. staticTag' \in [Peers -> Values \cup {None}]
    BY <1>0, <1>14 DEF TagPeer, Inv, WellFormed, TypeOK
  <2>2. UNCHANGED <<now, since, running, stage, connectedAt, joined, trimming, dropping, leaving,
                    stopVars, protected, decayingTag, decayLoop, env>>
    BY Zenon, <1>0, <1>14 DEF TagPeer, listVars, trimVars, stopVars
  <2>3. DecayLoopAlive'
    BY <2>2 DEF DecayLoopAlive, Tagged, Inv, WellFormed
  <2> QED
    BY <2>1, <2>2, <2>3, <1>s, TagsOnly DEF Inv, WellFormed, TypeOK
<1>15. ASSUME Next, NEW p \in Players, NEW v \in Values, TagPeerDecaying(p, v) PROVE Inv'
  <2>1. decayingTag' \in [Peers -> Values \cup {0, None}]
    BY <1>0, <1>15 DEF TagPeerDecaying, Inv, WellFormed, TypeOK
  <2>2. UNCHANGED <<now, since, running, stage, connectedAt, joined, trimming, dropping, leaving,
                    stopVars, protected, staticTag, env>>
    BY Zenon, <1>0, <1>15 DEF TagPeerDecaying, listVars, trimVars, stopVars
  <2>3. DecayLoopAlive' /\ decayLoop' \in BOOLEAN
    <3>1. decayLoop' = (decayLoop \/ running)
      BY Zenon, <1>15 DEF TagPeerDecaying, StartLoop
    <3> QED
      BY <2>2, <3>1, Zenon DEF DecayLoopAlive
  <2> QED
    BY <2>1, <2>2, <2>3, <1>s, TagsOnly DEF Inv, WellFormed, TypeOK
<1>16. ASSUME Next, NEW p \in Players, NEW v \in Values \cup {0, None}, BumpOrRemoveTag(p, v)
       PROVE  Inv'
  <2>1. decayingTag' \in [Peers -> Values \cup {0, None}]
    BY <1>0, <1>16 DEF BumpOrRemoveTag, Inv, WellFormed, TypeOK
  <2>2. UNCHANGED <<now, since, running, stage, connectedAt, joined, trimming, dropping, leaving,
                    stopVars, protected, staticTag, decayLoop, env>>
    BY Zenon, <1>0, <1>16 DEF BumpOrRemoveTag, listVars, trimVars, stopVars
  <2>3. DecayLoopAlive'
    BY <1>0, <1>16, <2>2 DEF BumpOrRemoveTag, DecayLoopAlive, Tagged, Inv, WellFormed
  <2> QED
    BY <2>1, <2>2, <2>3, <1>s, TagsOnly DEF Inv, WellFormed, TypeOK
<1>17. CASE UNCHANGED vars
  BY <1>17, <1>s
  DEF vars, StopCloses, Inv, WellFormed, TypeOK, AgeIsOfThisStay, DecayLoopAlive, Tagged,
               Early, Connected, Stored, InStore
<1> QED
  BY Zenon, <1>1, <1>2, <1>3, <1>4, <1>5, <1>6, <1>6a, <1>6b, <1>6c, <1>7, <1>8, <1>9, <1>10, <1>11,
     <1>12, <1>12a, <1>13, <1>14, <1>15, <1>16, <1>17 DEF Next, Step

\* A new manager satisfies it.
LEMMA InvInit == Init => Inv
<1> SUFFICES ASSUME Init PROVE Inv
  OBVIOUS
<1>1. Early = Muxers /\ Connected = {}
  BY DEF Init, Early, Connected, Stored, InStore
<1>2. Cardinality(Muxers) \in Nat
  BY TrimAssumption, FS_CardinalityType
<1>3. TypeOK
  <2>1. running \in BOOLEAN /\ trimming \in BOOLEAN /\ decayLoop \in BOOLEAN
    BY Zenon DEF Init
  <2>2. /\ stage \in [Muxers -> {"none", "storing", "stored", "dropped"}]
        /\ connectedAt \in [Peers -> (0 .. MaxTime) \cup {None}]
        /\ protected \in [Peers -> SUBSET Tags]
        /\ decayingTag \in [Peers -> Values \cup {0, None}]
        /\ staticTag \in [Peers -> Values \cup {None}]
    BY DEF Init
  <2>3. now \in 0 .. MaxTime /\ joined \in 0 .. Cardinality(Muxers) /\ dropping = {}
        /\ stopping = "no" /\ closing = {}
    BY <1>2, TrimAssumption DEF Init
  <2> QED
    BY <2>1, <2>2, <2>3 DEF TypeOK
<1>4. AgeIsOfThisStay /\ DecayLoopAlive
  BY DEF Init, AgeIsOfThisStay, DecayLoopAlive, Tagged
<1> QED
  BY <1>1, <1>2, <1>3, <1>4 DEF Init, Inv, WellFormed, StopInv

\* No order of stores, closes, drops, trims, tags and stops leaves an age behind
\* for a peer that left, or a decaying tag without the loop that decays it.
THEOREM WellFormedAlways == Spec => []WellFormed
<1>1. Inv => WellFormed
  BY DEF Inv
<1> QED
  BY <1>1, InvInit, InvNext, PTL DEF Spec

-----------------------------------------------------------------------------
(* What a trim drops.                                                      *)

\* Only triggerTrim starts a trim: it is above the high watermark then, and
\* drops one of the sets of Victims.
LEMMA TrimStarts ==
    ASSUME Inv, Next, trimming', ~trimming
    PROVE  /\ Cardinality(Connected) > HighWater
           /\ dropping' \in Victims
           /\ Connected' = Connected \ dropping'
<1>1. JoinedHandled \/ AcceptTriggers
  BY Zenon DEF Next, Step, Clock, DecayRound, TrimDone, Start, StoreMuxer, StoreGoesOn, MuxerCloses,
         Stop, StopTrim, StopEvents, StopClear, StopPeerClosed, StopDrain, Stopped,
         Protect, Unprotect, DropPeer, DropDone, TagPeerDecaying, TagPeer, BumpOrRemoveTag,
         listVars, trimVars, stopVars
<1>2. TriggerTrim
  BY <1>1 DEF JoinedHandled, AcceptTriggers
<1>3. ~(trimming \/ Cardinality(Connected) <= HighWater \/ Silent)
  BY ZenonT(30), <1>2 DEF TriggerTrim, trimVars
<1>4. /\ dropping' \in Victims
      /\ stage' = [m \in Muxers |->
           IF m \in InStore /\ PeerOf[m] \in dropping' THEN "dropped" ELSE stage[m]]
  BY <1>2, <1>3 DEF TriggerTrim
<1>5. InStore' = {m \in InStore : PeerOf[m] \notin dropping'}
  BY <1>4 DEF InStore
<1>6. Connected' = Connected \ dropping'
  BY <1>5 DEF Connected, Stored
<1> QED
  BY <1>3, <1>4, <1>6, ConnectedFinite, TrimAssumption

\* A score is a number.
LEMMA ScoreType == ASSUME Inv, NEW p \in Peers PROVE PeerScore(p) \in Int
<1>1. Value(staticTag[p]) \in Int /\ Value(decayingTag[p]) \in Int
  BY DEF Inv, WellFormed, TypeOK, Value, Values
<1> QED
  BY <1>1, TrimAssumption DEF PeerScore

\* A trim spares the peers a protection tag covers and those in their grace
\* period; only an age left over from a former stay makes it drop a peer early.
THEOREM TrimSparesAlways == Spec => TrimSpares
<1>1. ASSUME Inv, [Next]_vars
      PROVE  [trimming' /\ ~trimming =>
                \A p \in dropping' :
                    protected[p] = {} /\ (now - since[p] >= GracePeriod \/ StaleAge(p))]_vars
  <2> SUFFICES ASSUME Next, trimming', ~trimming, NEW p \in dropping'
               PROVE  protected[p] = {} /\ (now - since[p] >= GracePeriod \/ StaleAge(p))
    BY <1>1
  <2>1. p \in Candidates
    BY <1>1, TrimStarts DEF Victims
  <2>2. /\ p \in Connected /\ p \in Peers /\ protected[p] = {}
        /\ ~(now - (IF connectedAt[p] = None THEN now ELSE connectedAt[p]) < GracePeriod)
    BY <2>1 DEF Candidates, InGrace, Connected
  <2>3. now \in Nat /\ since[p] \in 0 .. now /\ GracePeriod \in Nat
    BY <1>1, <2>2, TrimAssumption DEF Inv, WellFormed, TypeOK
  <2>4. CASE connectedAt[p] = None
    BY <2>2, <2>3, <2>4
  <2>5. CASE connectedAt[p] # None
    <3>1. connectedAt[p] \in 0 .. MaxTime
      BY <1>1, <2>2, <2>5 DEF Inv, WellFormed, TypeOK
    <3> QED
      BY <2>2, <2>3, <2>5, <3>1 DEF StaleAge
  <2> QED
    BY <2>2, <2>4, <2>5
<1> QED
  BY <1>1, InvInit, InvNext, PTL DEF Spec, TrimSpares

\* A trim stops at the low watermark, and no peer it drops has a higher score than
\* one it could have dropped and keeps.
THEOREM TrimKeepsTheBestAlways == Spec => TrimKeepsTheBest
<1>1. ASSUME Inv, [Next]_vars
      PROVE  [trimming' /\ ~trimming =>
                /\ Cardinality(Connected') >= LowWater
                /\ \A p \in dropping', q \in Connected' :
                    protected[q] = {} /\ ~InGrace(q) => PeerScore(p) <= PeerScore(q)]_vars
  <2> SUFFICES ASSUME Next, trimming', ~trimming
               PROVE  /\ Cardinality(Connected') >= LowWater
                      /\ \A p \in dropping', q \in Connected' :
                          protected[q] = {} /\ ~InGrace(q) => PeerScore(p) <= PeerScore(q)
    BY <1>1
  <2>1. /\ Cardinality(Connected) > HighWater
        /\ dropping' \in Victims
        /\ Connected' = Connected \ dropping'
    BY <1>1, TrimStarts
  <2>2. PICK V : V = dropping'
    OBVIOUS
  <2>3. V \subseteq Candidates /\ Candidates \subseteq Connected
        /\ \A p \in V, q \in Candidates \ V : ~Before(q, p)
    BY <2>1, <2>2 DEF Victims, Candidates
  <2>4. /\ IsFiniteSet(Connected) /\ Cardinality(Connected) \in Nat
        /\ IsFiniteSet(Candidates) /\ Cardinality(Candidates) \in Nat
        /\ IsFiniteSet(V) /\ Cardinality(V) \in Nat
    BY <2>3, ConnectedFinite, FS_Subset, FS_CardinalityType
  <2>5. Cardinality(V) <= Cardinality(Connected) - LowWater
    <3>1. Cardinality(Connected) - LowWater > 0
      BY <2>1, <2>4, TrimAssumption
    <3>2. Cardinality(V) = IF Cardinality(Connected) - LowWater < Cardinality(Candidates)
                           THEN Cardinality(Connected) - LowWater ELSE Cardinality(Candidates)
      BY <2>1, <2>2, <2>4, <3>1, TrimAssumption DEF Victims
    <3> QED
      BY <2>4, <3>2, TrimAssumption
  <2>6. Cardinality(Connected \ V) = Cardinality(Connected) - Cardinality(V)
    <3>1. Connected \cap V = V
      BY <2>3
    <3> QED
      BY <2>4, <3>1, FS_Difference
  <2>7. Cardinality(Connected') >= LowWater
    BY <2>1, <2>2, <2>4, <2>5, <2>6, TrimAssumption
  <2>8. ASSUME NEW p \in V, NEW q \in Connected', protected[q] = {}, ~InGrace(q)
        PROVE  PeerScore(p) <= PeerScore(q)
    <3>1. q \in Candidates \ V /\ p \in Peers /\ q \in Peers
      BY <2>1, <2>2, <2>3, <2>8 DEF Candidates, Connected
    <3> QED
      BY <1>1, <2>3, <3>1, ScoreType DEF Before
  <2> QED
    BY <2>2, <2>7, <2>8
<1> QED
  BY <1>1, InvInit, InvNext, PTL DEF Spec, TrimKeepsTheBest
=============================================================================
