-------------------------- MODULE GossipRelayProofs -------------------------
(***************************************************************************)
(* Proofs about GossipRelay, for any messages, peers, tasks and lengths:   *)
(* its tables stay in order (WellFormed), nothing is delivered or answered *)
(* too often (DeliveredOnce), and what leaves the node may leave it        *)
(* (LeavesAsItShould).                                                     *)
(*                                                                         *)
(* The invariant has one part for each group of variables: the validations *)
(* (RunInv), the message cache (CacheInv), the offers made to peers        *)
(* (OfferInv) and what peers do not want (WantInv).                        *)
(***************************************************************************)
EXTENDS GossipRelay, FiniteSetTheorems, SequenceTheorems, TLAPS

TaskRecords ==
    [phase : {"none", "validating", "handling"}, msg : Msgs \cup {None},
     from : Peers \cup {None}, also : SUBSET Peers]

\* Task k handles m and is in the given phase.
Runs(k, m, phase) == task[k].phase = phase /\ task[k].msg = m

\* A message the seen cache has not forgotten is validated by one task at most,
\* and by none once it was delivered; the copies that came meanwhile are all in
\* validationSeen.
OnceInv ==
    \A m \in Msgs \ forgotten :
        /\ delivered[m] <= 1
        /\ delivered[m] # 0 => m \in seen
        /\ \A k \in Tasks : Runs(k, m, "handling") => delivered[m] # 0
        /\ \A k \in Tasks : Runs(k, m, "validating") =>
             /\ m \in seen /\ delivered[m] = 0
             /\ m \in DOMAIN validationSeen /\ task[k].also \subseteq validationSeen[m]
        /\ \A j, k \in Tasks :
             Runs(j, m, "validating") /\ Runs(k, m, "validating") => j = k

RunInv ==
    /\ env \in Envs /\ mesh \subseteq Peers /\ seen \subseteq Msgs
    /\ task \in [Tasks -> TaskRecords]
    /\ \A k \in Tasks : task[k].phase # "none" => task[k].msg \in Msgs
    /\ DOMAIN validationSeen \subseteq Msgs
    /\ delivered \in [Msgs -> Nat]
    /\ ValidationSeenDoesNotLeak
    /\ OnceInv

-----------------------------------------------------------------------------
(* Validations.                                                            *)

\* What it means that no entry of validationSeen leaks after a step.
LEMMA NoLeak ==
    ASSUME \A n \in DOMAIN validationSeen' : \E j \in Tasks : task'[j] # Idle /\ task'[j].msg = n
    PROVE  ValidationSeenDoesNotLeak'
<1> SUFFICES ASSUME NEW n \in DOMAIN validationSeen'
             PROVE  n \in {task'[k].msg : k \in {j \in Tasks : task'[j] # Idle}}
  BY DEF ValidationSeenDoesNotLeak
<1>1. PICK j \in Tasks : task'[j] # Idle /\ task'[j].msg = n
  OBVIOUS
<1> QED
  BY <1>1

\* What a behaviour's environment names is declared.
LEMMA EnvNames ==
    ASSUME env \in Envs
    PROVE  /\ env.msgs \subseteq Msgs /\ env.tasks \subseteq Tasks
           /\ env.peers \subseteq Peers /\ Direct \subseteq Peers /\ Others \subseteq Peers
<1> QED
  BY RelayAssumption DEF Direct, Others

\* A copy of a message that was seen is noted where its validation looks.
LEMMA CopyKeeps ==
    ASSUME RunInv, NEW p \in Peers, NEW m \in Msgs, m \in seen,
           validationSeen' =
                 IF m \in DOMAIN validationSeen
                 THEN [validationSeen EXCEPT ![m] = @ \cup {p}] ELSE validationSeen,
           task' = [k \in Tasks |->
                 IF task[k].phase = "validating" /\ task[k].msg = m
                 THEN [task[k] EXCEPT !.also = @ \cup {p}] ELSE task[k]],
           UNCHANGED <<env, mesh, seen, delivered, forgotten>>
    PROVE  RunInv'
<1>1. task' \in [Tasks -> TaskRecords]
      /\ \A k \in Tasks : /\ task'[k].phase = task[k].phase /\ task'[k].msg = task[k].msg
                          /\ task'[k].also = IF Runs(k, m, "validating")
                                             THEN task[k].also \cup {p} ELSE task[k].also
                          /\ task[k] # Idle => task'[k] # Idle
  BY DEF RunInv, TaskRecords, Runs, Idle
<1>2. DOMAIN validationSeen' = DOMAIN validationSeen
      /\ \A n \in DOMAIN validationSeen :
           validationSeen'[n] = IF n = m THEN validationSeen[n] \cup {p} ELSE validationSeen[n]
  BY Zenon
<1>3. ValidationSeenDoesNotLeak'
  <2> SUFFICES ASSUME NEW n \in DOMAIN validationSeen
               PROVE  \E k \in Tasks : task'[k] # Idle /\ task'[k].msg = n
    BY <1>2, NoLeak
  <2>1. PICK k \in Tasks : task[k] # Idle /\ task[k].msg = n
    BY DEF RunInv, ValidationSeenDoesNotLeak
  <2> QED
    BY ZenonT(30), <1>1, <2>1
<1>4. \A k \in Tasks : \A n, ph : Runs(k, n, ph)' <=> Runs(k, n, ph)
  BY <1>1 DEF Runs
<1>5. OnceInv'
  BY <1>1, <1>2, <1>4 DEF RunInv, OnceInv, Runs
<1> QED
  BY <1>1, <1>2, <1>3, <1>5 DEF RunInv

\* A message that was not seen is validated by a task of its own.
LEMMA FirstKeeps ==
    ASSUME RunInv, NEW p \in Peers, NEW m \in Msgs, m \notin seen, NEW k \in Tasks, task[k] = Idle,
           seen' = AddSeen(m),
           validationSeen' =
                 [x \in DOMAIN validationSeen \cup {m} |->
                    IF x = m THEN {} ELSE validationSeen[x]],
           task' = [j \in Tasks |->
                 IF j = k THEN [phase |-> "validating", msg |-> m, from |-> p, also |-> {}]
                 ELSE IF task[j].phase = "validating" /\ task[j].msg = m
                 THEN [task[j] EXCEPT !.also = @ \cup {p}] ELSE task[j]],
           forgotten' = forgotten \cup (seen \ seen'),
           UNCHANGED <<env, mesh, delivered>>
    PROVE  RunInv'
<1>1. task' \in [Tasks -> TaskRecords]
      /\ \A j \in Tasks : j # k =>
           /\ task'[j].phase = task[j].phase /\ task'[j].msg = task[j].msg
           /\ task'[j].also = IF Runs(j, m, "validating") THEN task[j].also \cup {p} ELSE task[j].also
           /\ task[j] # Idle => task'[j] # Idle
  BY DEF RunInv, TaskRecords, Runs, Idle
<1>2. task'[k] = [phase |-> "validating", msg |-> m, from |-> p, also |-> {}] /\ task'[k] # Idle
  BY DEF Idle
<1>3. seen' = seen \cup {m} /\ forgotten' = forgotten
  BY DEF AddSeen
<1>4. ValidationSeenDoesNotLeak'
  <2> SUFFICES ASSUME NEW n \in DOMAIN validationSeen'
               PROVE  \E j \in Tasks : task'[j] # Idle /\ task'[j].msg = n
    BY NoLeak
  <2>1. CASE n = m
    BY <1>2, <2>1
  <2>2. CASE n # m
    <3>1. PICK j \in Tasks : task[j] # Idle /\ task[j].msg = n
      BY <2>2 DEF RunInv, ValidationSeenDoesNotLeak
    <3> QED
      BY <1>1, <3>1
  <2> QED
    BY <2>1, <2>2
<1>5. ASSUME NEW n \in Msgs \ forgotten
      PROVE  /\ delivered'[n] <= 1
             /\ delivered'[n] # 0 => n \in seen'
             /\ \A j \in Tasks : Runs(j, n, "handling")' => delivered'[n] # 0
             /\ \A j \in Tasks : Runs(j, n, "validating")' =>
                  /\ n \in seen' /\ delivered'[n] = 0
                  /\ n \in DOMAIN validationSeen' /\ task'[j].also \subseteq validationSeen'[n]
             /\ \A i, j \in Tasks :
                  Runs(i, n, "validating")' /\ Runs(j, n, "validating")' => i = j
  <2>1. \A j \in Tasks : \A ph : j # k => (Runs(j, n, ph)' <=> Runs(j, n, ph))
    BY <1>1 DEF Runs
  <2>2. CASE n = m
    <3>1. delivered[n] = 0 /\ \A j \in Tasks : ~Runs(j, n, "validating")
      BY <1>5, <2>2 DEF RunInv, OnceInv
    <3>2. \A j \in Tasks : Runs(j, n, "validating")' => j = k
      BY <2>1, <3>1
    <3>3. \A j \in Tasks : Runs(j, n, "handling")' => FALSE
      BY <1>2, <1>5, <2>1, <3>1 DEF RunInv, OnceInv, Runs
    <3>4. n \in seen' /\ n \in DOMAIN validationSeen' /\ task'[k].also = {}
      BY <1>2, <1>3, <2>2
    <3>5. delivered'[n] = 0
      BY <3>1
    <3> QED
      BY <3>2, <3>3, <3>4, <3>5
  <2>3. CASE n # m
    <3>1. \A ph : ~Runs(k, n, ph)'
      BY <1>2, <2>3 DEF Runs
    <3>2. \A j \in Tasks : j # k /\ Runs(j, n, "validating") => task'[j].also = task[j].also
      BY <1>1, <2>3 DEF Runs
    <3>3. /\ delivered[n] <= 1
          /\ delivered[n] # 0 => n \in seen
          /\ \A j \in Tasks : Runs(j, n, "handling") => delivered[n] # 0
          /\ \A j \in Tasks : Runs(j, n, "validating") =>
               /\ n \in seen /\ delivered[n] = 0
               /\ n \in DOMAIN validationSeen /\ task[j].also \subseteq validationSeen[n]
          /\ \A i, j \in Tasks : Runs(i, n, "validating") /\ Runs(j, n, "validating") => i = j
      BY <1>5 DEF RunInv, OnceInv
    <3>4. \A j \in Tasks : \A ph : Runs(j, n, ph)' => j # k /\ Runs(j, n, ph)
      BY <2>1, <3>1
    <3>5. n \in DOMAIN validationSeen =>
            n \in DOMAIN validationSeen' /\ validationSeen'[n] = validationSeen[n]
      BY <2>3
    <3>6. \A j \in Tasks : Runs(j, n, "validating")' =>
            /\ n \in seen' /\ delivered'[n] = 0
            /\ n \in DOMAIN validationSeen' /\ task'[j].also \subseteq validationSeen'[n]
      BY ZenonT(30), <1>3, <3>2, <3>3, <3>4, <3>5
    <3> QED
      BY Zenon, <1>3, <3>3, <3>4, <3>6
  <2> QED
    BY Zenon, <2>2, <2>3
<1>6. OnceInv'
  BY ZenonT(30), <1>3, <1>5 DEF OnceInv
<1> QED
  BY ZenonT(30), <1>1, <1>2, <1>3, <1>4, <1>6 DEF RunInv

\* The end of a task takes its entry of validationSeen along, which no other
\* validation of a message that is not forgotten needs.
LEMMA EndKeeps ==
    ASSUME RunInv, NEW k \in Tasks, task[k].phase # "none",
           task' = [task EXCEPT ![k] = Idle], Forget(task[k].msg),
           UNCHANGED <<env, mesh, seen, delivered, forgotten>>
    PROVE  RunInv'
<1>1. PICK m \in Msgs : m = task[k].msg
  BY DEF RunInv
<1>2. /\ \A j \in Tasks : j # k => task'[j] = task[j]
      /\ task'[k] = Idle
      /\ task' \in [Tasks -> TaskRecords]
  BY DEF RunInv, Idle, TaskRecords
<1>3. DOMAIN validationSeen' = DOMAIN validationSeen \ {m}
      /\ \A n \in DOMAIN validationSeen \ {m} : validationSeen'[n] = validationSeen[n]
  BY <1>1 DEF Forget
<1>4. ValidationSeenDoesNotLeak'
  <2> SUFFICES ASSUME NEW n \in DOMAIN validationSeen \ {m}
               PROVE  \E j \in Tasks : task'[j] # Idle /\ task'[j].msg = n
    BY <1>3, NoLeak
  <2>1. PICK j \in Tasks : task[j] # Idle /\ task[j].msg = n
    BY DEF RunInv, ValidationSeenDoesNotLeak
  <2> QED
    BY <1>1, <1>2, <2>1
<1>5. \A j \in Tasks : \A n, ph : ph # "none" => (Runs(j, n, ph)' <=> j # k /\ Runs(j, n, ph))
  BY <1>2 DEF Runs, Idle
<1>6. ASSUME NEW n \in Msgs \ forgotten, NEW j \in Tasks, Runs(j, n, "validating"), j # k
      PROVE  n # m
  <2> SUFFICES ASSUME n = m PROVE FALSE
    OBVIOUS
  <2>1. Runs(k, n, "validating") \/ Runs(k, n, "handling")
    BY <1>1 DEF RunInv, TaskRecords, Runs
  <2> QED
    BY <1>6, <2>1 DEF RunInv, OnceInv
<1>7. \A j \in Tasks : j # k => task'[j].also = task[j].also
  BY <1>2
<1>8. OnceInv'
  BY <1>3, <1>5, <1>6, <1>7 DEF RunInv, OnceInv
<1> QED
  BY <1>2, <1>3, <1>4, <1>8 DEF RunInv, Idle

\* The record of a task whose message was accepted.
LEMMA HandlingRecord ==
    ASSUME NEW t \in TaskRecords, NEW u, u = [t EXCEPT !.phase = "handling", !.also = {}]
    PROVE  u \in TaskRecords /\ u.phase = "handling" /\ u.msg = t.msg /\ u # Idle
BY Zenon DEF TaskRecords, Idle

\* An accepted message is counted once and its task is no longer validating.
LEMMA DeliverKeeps ==
    ASSUME RunInv, NEW k \in Tasks, task[k].phase = "validating",
           delivered' = [delivered EXCEPT ![task[k].msg] = @ + 1],
           task' = [task EXCEPT ![k] = [@ EXCEPT !.phase = "handling", !.also = {}]],
           UNCHANGED <<env, mesh, seen, validationSeen, forgotten>>
    PROVE  RunInv'
<1>1. PICK m \in Msgs : m = task[k].msg
  BY DEF RunInv
<1>a. /\ \A j \in Tasks : j # k => task'[j] = task[j]
      /\ task'[k] = [task[k] EXCEPT !.phase = "handling", !.also = {}]
      /\ task[k] \in TaskRecords
  BY DEF RunInv
<1>b. /\ task'[k].phase = "handling" /\ task'[k].msg = m /\ task'[k] # Idle
      /\ task'[k] \in TaskRecords
  BY Zenon, <1>1, <1>a, HandlingRecord
<1>2. /\ \A j \in Tasks : j # k => task'[j] = task[j]
      /\ task'[k].phase = "handling" /\ task'[k].msg = m /\ task'[k] # Idle
      /\ task' \in [Tasks -> TaskRecords]
  <2>1. task \in [Tasks -> TaskRecords]
    BY DEF RunInv
  <2>2. \A j \in Tasks : task'[j] \in TaskRecords
    BY <1>a, <1>b, <2>1
  <2> HIDE DEF TaskRecords
  <2>3. task' \in [Tasks -> TaskRecords]
    BY <2>1, <2>2
  <2> QED
    BY <1>a, <1>b, <2>3
<1>3. /\ delivered' \in [Msgs -> Nat]
      /\ delivered'[m] = delivered[m] + 1 /\ delivered[m] \in Nat
      /\ \A n \in Msgs : n # m => delivered'[n] = delivered[n]
  BY <1>1 DEF RunInv
<1>4. ValidationSeenDoesNotLeak'
  <2> SUFFICES ASSUME NEW n \in DOMAIN validationSeen
               PROVE  \E j \in Tasks : task'[j] # Idle /\ task'[j].msg = n
    BY NoLeak
  <2>1. PICK j \in Tasks : task[j] # Idle /\ task[j].msg = n
    BY DEF RunInv, ValidationSeenDoesNotLeak
  <2> QED
    BY <1>1, <1>2, <2>1
<1>5. /\ \A j \in Tasks : \A n, ph : j # k => (Runs(j, n, ph)' <=> Runs(j, n, ph))
      /\ \A n : ~Runs(k, n, "validating")'
      /\ \A n : Runs(k, n, "handling")' => n = m
      /\ \A j \in Tasks : j # k => task'[j].also = task[j].also
  BY <1>2 DEF Runs
<1>6. ASSUME NEW n \in Msgs \ forgotten
      PROVE  /\ delivered'[n] <= 1
             /\ delivered'[n] # 0 => n \in seen'
             /\ \A j \in Tasks : Runs(j, n, "handling")' => delivered'[n] # 0
             /\ \A j \in Tasks : Runs(j, n, "validating")' =>
                  /\ n \in seen' /\ delivered'[n] = 0
                  /\ n \in DOMAIN validationSeen' /\ task'[j].also \subseteq validationSeen'[n]
             /\ \A i, j \in Tasks :
                  Runs(i, n, "validating")' /\ Runs(j, n, "validating")' => i = j
  <2>1. CASE n = m
    <3>1. Runs(k, n, "validating")
      BY <1>1, <2>1 DEF Runs
    <3>2. delivered[n] = 0 /\ n \in seen /\ \A j \in Tasks : Runs(j, n, "validating") => j = k
      BY <1>6, <3>1 DEF RunInv, OnceInv
    <3>3. delivered'[n] = 1 /\ \A j \in Tasks : ~Runs(j, n, "validating")'
      BY <1>3, <1>5, <2>1, <3>2
    <3> QED
      BY <3>2, <3>3
  <2>2. CASE n # m
    BY <1>3, <1>5, <1>6, <2>2 DEF RunInv, OnceInv
  <2> QED
    BY <2>1, <2>2
<1>7. OnceInv'
  BY <1>6 DEF OnceInv
<1> QED
  BY <1>1, <1>2, <1>3, <1>4, <1>7 DEF RunInv

\* Messages come into the cache of seen ones, and leave it to be forgotten.
LEMMA SeenKeeps ==
    ASSUME RunInv, seen' \subseteq Msgs, mesh' \subseteq Peers, forgotten' = forgotten \cup (seen \ seen'),
           UNCHANGED <<env, task, validationSeen, delivered>>
    PROVE  RunInv'
<1>1. ValidationSeenDoesNotLeak'
  BY DEF RunInv, ValidationSeenDoesNotLeak
<1>2. OnceInv'
  BY DEF RunInv, OnceInv, Runs
<1> QED
  BY <1>1, <1>2 DEF RunInv

\* Every step keeps RunInv.
LEMMA RunNext == ASSUME RunInv, [Next]_vars PROVE RunInv'
<1>0. env \in Envs /\ seen \subseteq Msgs /\ mesh \subseteq Peers
  BY DEF RunInv
<1>1. ASSUME Next, NEW p \in env.peers, NEW m \in env.msgs, Receive(p, m) PROVE RunInv'
  <2>1. p \in Peers /\ m \in Msgs /\ env.tasks \subseteq Tasks
    BY <1>0, EnvNames
  <2>2. CASE m \in seen
    <3>1. UNCHANGED <<env, mesh, seen, delivered, forgotten>>
      BY <1>1, <2>2 DEF Receive, Next, counts
    <3> QED
      BY <1>1, <2>1, <2>2, <3>1, CopyKeeps DEF Receive
  <2>3. CASE m \notin seen
    BY <1>1, <2>1, <2>3, FirstKeeps DEF Receive, Next, counts
  <2> QED
    BY <2>2, <2>3
<1>2. ASSUME Next, NEW k \in Tasks, Rejected(k) \/ HandlersDone(k) PROVE RunInv'
  <2>1. UNCHANGED <<env, mesh, seen, delivered, forgotten>>
    BY <1>2 DEF Rejected, HandlersDone, Next, counts
  <2> QED
    BY <1>2, <2>1, EndKeeps DEF Rejected, HandlersDone
<1>3. ASSUME Next, NEW k \in Tasks, Accepted(k) PROVE RunInv'
  <2>1. UNCHANGED <<env, mesh, seen, forgotten>> /\ task[k].phase = "validating"
    BY <1>3 DEF Accepted, Next
  <2>2. CASE subscribed
    BY Zenon, <1>3, <2>1, <2>2, DeliverKeeps DEF Accepted
  <2>3. CASE ~subscribed
    BY <1>3, <2>1, <2>3, EndKeeps DEF Accepted
  <2> QED
    BY <2>2, <2>3
<1>4. ASSUME Next, NEW m \in env.msgs, Publish(m) \/ ExpireSeen(m) PROVE RunInv'
  <2>1. m \in Msgs
    BY <1>0, EnvNames
  <2>2. seen' \subseteq Msgs /\ UNCHANGED mesh
    BY <1>0, <1>4, <2>1 DEF Publish, ExpireSeen, AddSeen
  <2> QED
    BY <1>0, <1>4, <2>2, SeenKeeps DEF Publish, ExpireSeen, Next, counts
<1>5. ASSUME Next, ToggleTopic \/ \E p \in Others : Remesh(p) PROVE RunInv'
  <2>1. mesh' \subseteq Peers
    BY <1>0, <1>5, EnvNames DEF ToggleTopic, Remesh
  <2> QED
    BY <1>0, <1>5, <2>1, SeenKeeps DEF ToggleTopic, Remesh, Next, counts
<1>6. ASSUME Next, NEW p, NEW m, HandleIHave(p, m) \/ HandleIWant(p, m) \/ HandleIDontWant(p, m)
      PROVE  RunInv'
  BY <1>0, <1>6, SeenKeeps DEF HandleIHave, HandleIWant, HandleIDontWant, Next, counts
<1>7. ASSUME Next, Heartbeat PROVE RunInv'
  BY <1>0, <1>7, SeenKeeps DEF Heartbeat, Next
<1>8. CASE UNCHANGED vars
  BY <1>0, <1>8, SeenKeeps DEF vars
<1> QED
  BY <1>1, <1>2, <1>3, <1>4, <1>5, <1>6, <1>7, <1>8 DEF Next, Step

-----------------------------------------------------------------------------
(* The message cache.                                                      *)

CacheInv ==
    /\ cached \subseteq Msgs \cap accepted
    /\ pos \in Slots /\ history \in [Slots -> SUBSET Msgs]
    /\ CacheMatchesHistory

\* put adds a message to the present slot, unless it is in some slot.
LEMMA PutKeeps ==
    ASSUME CacheInv, NEW m \in Msgs, Put(m), accepted' = accepted \cup {m}
    PROVE  CacheInv'
<1>1. CASE m \in cached
  BY <1>1 DEF Put, CacheInv, CacheMatchesHistory
<1>2. CASE m \notin cached
  <2>1. \A i \in Slots : history'[i] = IF i = pos THEN history[i] \cup {m} ELSE history[i]
    BY <1>2 DEF Put, CacheInv
  <2>2. \A i \in Slots : m \notin history[i]
    BY <1>2 DEF CacheInv, CacheMatchesHistory
  <2>3. cached' = UNION {history'[i] : i \in Slots}
    <3>1. cached' = cached \cup {m} /\ cached = UNION {history[i] : i \in Slots}
      BY DEF Put, CacheInv, CacheMatchesHistory
    <3>2. pos \in Slots
      BY DEF CacheInv
    <3>3. \A x : x \in cached' <=> \E i \in Slots : x \in history'[i]
      BY Zenon, <2>1, <3>1, <3>2
    <3> QED
      BY <3>3
  <2>4. \A i, j \in Slots : i # j => history'[i] \cap history'[j] = {}
    BY ZenonT(30), <2>1, <2>2 DEF CacheInv, CacheMatchesHistory
  <2>5. history' \in [Slots -> SUBSET Msgs] /\ cached' \subseteq Msgs \cap accepted' /\ pos' = pos
    BY <1>2 DEF Put, CacheInv
  <2> QED
    BY <2>3, <2>4, <2>5 DEF CacheInv, CacheMatchesHistory
<1> QED
  BY <1>1, <1>2

\* shift drops from the cache exactly what the slot it empties had.
LEMMA ShiftKeeps == ASSUME CacheInv, Shift, UNCHANGED accepted PROVE CacheInv'
<1>1. PICK next : next = (pos + 1) % HistoryLength
  OBVIOUS
<1>2. next \in Slots
  BY <1>1, RelayAssumption DEF CacheInv, Slots
<1>3. /\ pos' = next /\ cached' = cached \ history[next]
      /\ history' = [history EXCEPT ![next] = {}]
  BY <1>1 DEF Shift
<1>4. \A i \in Slots : history'[i] = IF i = next THEN {} ELSE history[i]
  BY <1>2, <1>3 DEF CacheInv
<1>5. cached' = UNION {history'[i] : i \in Slots}
  <2>1. cached = UNION {history[i] : i \in Slots}
        /\ \A i \in Slots : i # next => history[i] \cap history[next] = {}
    BY <1>2 DEF CacheInv, CacheMatchesHistory
  <2> QED
    BY <1>2, <1>3, <1>4, <2>1
<1>6. \A i, j \in Slots : i # j => history'[i] \cap history'[j] = {}
  BY <1>4 DEF CacheInv, CacheMatchesHistory
<1>7. history' \in [Slots -> SUBSET Msgs] /\ cached' \subseteq Msgs \cap accepted'
  BY <1>2, <1>3 DEF CacheInv
<1> QED
  BY <1>2, <1>3, <1>5, <1>6, <1>7 DEF CacheInv, CacheMatchesHistory

\* An IHAVE names messages of the window only.
LEMMA OffersInWindow == \A ids \in IHaves : ids \subseteq Window
BY DEF IHaves

\* What is gossiped about is in the cache.
LEMMA WindowCached == ASSUME CacheInv PROVE Window \subseteq cached
<1>1. ASSUME NEW i \in 0 .. Min({HistoryGossip, HistoryLength}) - 1
      PROVE  history[(pos + HistoryLength - i) % HistoryLength] \subseteq cached
  <2>1. (pos + HistoryLength - i) % HistoryLength \in Slots
    BY RelayAssumption DEF CacheInv, Slots
  <2> QED
    BY <2>1 DEF CacheInv, CacheMatchesHistory
<1> QED
  BY <1>1 DEF Window

\* Every step keeps CacheInv.
LEMMA CacheNext == ASSUME RunInv, CacheInv, [Next]_vars PROVE CacheInv'
<1>0. env.msgs \subseteq Msgs
  BY EnvNames DEF RunInv
<1>1. ASSUME NEW k \in Tasks, Accepted(k) PROVE CacheInv'
  <2>1. task[k].msg \in Msgs /\ accepted' = accepted \cup {task[k].msg}
    BY <1>1 DEF Accepted, RunInv
  <2>2. CASE subscribed
    BY <1>1, <2>1, <2>2, PutKeeps DEF Accepted
  <2>3. CASE ~subscribed
    BY <1>1, <2>1, <2>3 DEF Accepted, cacheVars, CacheInv, CacheMatchesHistory
  <2> QED
    BY <2>2, <2>3
<1>2. ASSUME NEW m \in env.msgs, Publish(m) PROVE CacheInv'
  <2>1. /\ accepted' = accepted \cup {m}
        /\ UNCHANGED cacheVars \/ Put(m)
    BY <1>2 DEF Publish
  <2>2. CASE UNCHANGED cacheVars
    BY <2>1, <2>2 DEF cacheVars, CacheInv, CacheMatchesHistory
  <2> QED
    BY <1>0, <2>1, <2>2, PutKeeps
<1>3. CASE Heartbeat
  BY <1>3, ShiftKeeps DEF Heartbeat
<1>4. ASSUME UNCHANGED <<cacheVars, accepted>> PROVE CacheInv'
  BY <1>4 DEF cacheVars, CacheInv, CacheMatchesHistory
<1>5. ASSUME NEW p, NEW m, Receive(p, m) \/ HandleIHave(p, m) \/ HandleIWant(p, m)
                \/ HandleIDontWant(p, m) \/ ExpireSeen(m) \/ Remesh(p)
      PROVE  CacheInv'
  BY <1>4, <1>5 DEF Receive, HandleIHave, HandleIWant, HandleIDontWant, ExpireSeen, Remesh
<1>6. ASSUME NEW k, Rejected(k) \/ HandlersDone(k) PROVE CacheInv'
  BY <1>4, <1>6 DEF Rejected, HandlersDone
<1>7. CASE ToggleTopic \/ UNCHANGED vars
  BY <1>4, <1>7 DEF ToggleTopic, vars, cacheVars
<1> QED
  BY <1>1, <1>2, <1>3, <1>5, <1>6, <1>7 DEF Next, Step

-----------------------------------------------------------------------------
(* Sets kept per heartbeat.                                                *)

\* A rotation has the new set first and the others one further back.
LEMMA RotateIs ==
    ASSUME NEW s \in Seq(SUBSET Msgs), Len(s) \in 1 .. HistoryLength, NEW first \in SUBSET Msgs
    PROVE  /\ Rotate(s, first) \in Seq(SUBSET Msgs)
           /\ Len(Rotate(s, first)) \in 1 .. HistoryLength
           /\ Rotate(s, first)[1] = first
           /\ \A i \in 2 .. Len(Rotate(s, first)) :
                i - 1 \in 1 .. Len(s) /\ Rotate(s, first)[i] = s[i - 1]
<1> DEFINE n == Min({Len(s) + 1, HistoryLength})
           t == <<first>> \o s
<1>0. PICK T : T = SUBSET Msgs
  OBVIOUS
<1>1. Len(s) \in Nat /\ HistoryLength \in Nat \ {0}
  BY RelayAssumption
<1>2. n = IF Len(s) + 1 <= HistoryLength THEN Len(s) + 1 ELSE HistoryLength
  BY <1>1 DEF Min
<1>3. n \in 1 .. HistoryLength /\ n <= Len(s) + 1
  BY <1>1, <1>2
<1> HIDE DEF n
<1>4. /\ t \in Seq(T) /\ Len(t) = Len(s) + 1 /\ t[1] = first
      /\ \A i \in 2 .. Len(s) + 1 : t[i] = s[i - 1]
  <2>1. s \in Seq(T) /\ first \in T
    BY <1>0
  <2> QED
    BY <1>1, <2>1
<1> HIDE DEF t
<1>5. /\ SubSeq(t, 1, n) \in Seq(T) /\ Len(SubSeq(t, 1, n)) = n
      /\ \A i \in 1 .. n : SubSeq(t, 1, n)[i] = t[i]
  BY <1>1, <1>3, <1>4
<1>6. Rotate(s, first) = SubSeq(t, 1, n)
  BY DEF Rotate, n, t
<1> QED
  BY <1>0, <1>1, <1>3, <1>4, <1>5, <1>6

Open(s, m) == {i \in DOMAIN s : m \in s[i]}

\* A list has finitely many sets with m.
LEMMA OpenFinite ==
    ASSUME NEW s \in Seq(SUBSET Msgs), NEW m
    PROVE  IsFiniteSet(Open(s, m)) /\ Cardinality(Open(s, m)) \in Nat
<1>1. Len(s) \in Nat /\ Open(s, m) \in SUBSET (1 .. Len(s))
  BY DEF Open
<1>2. IsFiniteSet(1 .. Len(s))
  BY <1>1, FS_Interval
<1>3. IsFiniteSet(Open(s, m))
  BY <1>1, <1>2, FS_Subset
<1> QED
  BY <1>3, FS_CardinalityType

\* A rotation adds m at most once.
LEMMA OpenRotate ==
    ASSUME NEW s \in Seq(SUBSET Msgs), Len(s) \in 1 .. HistoryLength,
           NEW first \in SUBSET Msgs, NEW m
    PROVE  Cardinality(Open(Rotate(s, first), m))
                <= Cardinality(Open(s, m)) + (IF m \in first THEN 1 ELSE 0)
<1>1. PICK r \in Seq(SUBSET Msgs) :
        /\ r = Rotate(s, first)
        /\ Len(r) \in 1 .. HistoryLength /\ r[1] = first
        /\ \A i \in 2 .. Len(r) : i - 1 \in 1 .. Len(s) /\ r[i] = s[i - 1]
  <2>1. /\ Rotate(s, first) \in Seq(SUBSET Msgs)
        /\ Len(Rotate(s, first)) \in 1 .. HistoryLength
        /\ Rotate(s, first)[1] = first
        /\ \A i \in 2 .. Len(Rotate(s, first)) :
             i - 1 \in 1 .. Len(s) /\ Rotate(s, first)[i] = s[i - 1]
    BY RotateIs
  <2> QED
    BY <2>1
<1> DEFINE A == Open(r, m) \ {1}
           f == [i \in A |-> i - 1]
<1>2. /\ IsFiniteSet(Open(s, m)) /\ Cardinality(Open(s, m)) \in Nat
      /\ IsFiniteSet(Open(r, m)) /\ Cardinality(Open(r, m)) \in Nat
  BY Zenon, OpenFinite
<1>3. A \subseteq 2 .. Len(r)
  BY DEF Open
<1>4. \A i \in A : i - 1 \in Open(s, m)
  BY <1>1, <1>3 DEF Open
<1>5. f \in Injection(A, Open(s, m))
  <2>1. f \in [A -> Open(s, m)]
    BY <1>4
  <2>2. \A i, j \in A : f[i] = f[j] => i = j
    BY <1>3
  <2> QED
    BY <2>1, <2>2 DEF Injection, IsInjective
<1>6. Cardinality(A) <= Cardinality(Open(s, m))
  BY <1>2, <1>5, FS_Injection
<1>7. Cardinality(A) = IF 1 \in Open(r, m) THEN Cardinality(Open(r, m)) - 1
                       ELSE Cardinality(Open(r, m))
  BY Zenon, <1>2, FS_RemoveElement
<1>8. 1 \in Open(r, m) <=> m \in first
  BY <1>1 DEF Open
<1> QED
  BY <1>1, <1>2, <1>6, <1>7, <1>8

-----------------------------------------------------------------------------
(* Offers and answers.                                                     *)

\* Every answer used up an offer, and the offers not used up are in the lists.
OfferInv ==
    /\ sentIHaves \in [Peers -> Seq(SUBSET Msgs)]
    /\ \A p \in Peers : Len(sentIHaves[p]) \in 1 .. HistoryLength
    /\ offers \in [Peers -> [Msgs -> Nat]] /\ answers \in [Peers -> [Msgs -> Nat]]
    /\ \A p \in Peers, m \in Msgs :
         answers[p][m] + Cardinality(Open(sentIHaves[p], m)) <= offers[p][m]

\* canAskIWant takes one offer of one message off one list.
LEMMA TakeIs ==
    ASSUME OfferInv, NEW p \in Peers, NEW m \in Msgs, TakeOffer(p, m)
    PROVE  /\ sentIHaves' \in [Peers -> Seq(SUBSET Msgs)]
           /\ \A q \in Peers : Len(sentIHaves'[q]) \in 1 .. HistoryLength
           /\ \A q \in Peers, n \in Msgs :
                Cardinality(Open(sentIHaves'[q], n)) =
                    Cardinality(Open(sentIHaves[q], n)) - (IF q = p /\ n = m THEN 1 ELSE 0)
<1>1. PICK s \in Seq(SUBSET Msgs) : s = sentIHaves[p] /\ Len(s) \in 1 .. HistoryLength
  BY DEF OfferInv
<1>2. PICK i \in DOMAIN s : m \in s[i] /\ sentIHaves' = [sentIHaves EXCEPT ![p][i] = @ \ {m}]
  BY Zenon, <1>1 DEF TakeOffer
<1>3. PICK r : r = [s EXCEPT ![i] = @ \ {m}]
  BY Zenon
<1>4. r \in Seq(SUBSET Msgs) /\ Len(r) = Len(s) /\ DOMAIN r = DOMAIN s
      /\ \A j \in DOMAIN s : r[j] = IF j = i THEN s[j] \ {m} ELSE s[j]
  <2>1. PICK T : T = SUBSET Msgs
    BY Zenon
  <2>2. s \in Seq(T) /\ s[i] \ {m} \in T
    BY <2>1
  <2>3. r = [s EXCEPT ![i] = s[i] \ {m}]
    BY <1>3
  <2>4. r \in Seq(T) /\ Len(r) = Len(s) /\ DOMAIN r = DOMAIN s
        /\ \A j \in DOMAIN s : r[j] = IF j = i THEN s[i] \ {m} ELSE s[j]
    BY <2>2, <2>3, ExceptSeq
  <2> QED
    BY <2>1, <2>4
<1>5. \A q \in Peers : sentIHaves'[q] = IF q = p THEN r ELSE sentIHaves[q]
  BY <1>1, <1>2, <1>3 DEF OfferInv
<1>6. sentIHaves' \in [Peers -> Seq(SUBSET Msgs)]
  BY <1>1, <1>2, <1>3, <1>4 DEF OfferInv
<1>7. Cardinality(Open(r, m)) = Cardinality(Open(s, m)) - 1
  <2>1. Open(r, m) = Open(s, m) \ {i} /\ i \in Open(s, m)
    BY <1>2, <1>4 DEF Open
  <2>2. IsFiniteSet(Open(s, m))
    BY Zenon, OpenFinite
  <2> QED
    BY ZenonT(30), <2>1, <2>2, FS_RemoveElement
<1>8. \A n \in Msgs : n # m => Open(r, n) = Open(s, n)
  BY <1>4 DEF Open
<1>9. \A q \in Peers, n \in Msgs : Cardinality(Open(sentIHaves[q], n)) \in Nat
  BY Zenon, OpenFinite DEF OfferInv
<1>10. ASSUME NEW q \in Peers, NEW n \in Msgs
       PROVE  Cardinality(Open(sentIHaves'[q], n)) =
                    Cardinality(Open(sentIHaves[q], n)) - (IF q = p /\ n = m THEN 1 ELSE 0)
  <2>1. CASE q = p /\ n = m
    BY <1>1, <1>5, <1>7, <2>1
  <2>2. CASE ~(q = p /\ n = m)
    BY <1>1, <1>5, <1>8, <1>9, <2>2
  <2> QED
    BY <2>1, <2>2
<1>11. \A q \in Peers : Len(sentIHaves'[q]) \in 1 .. HistoryLength
  BY Zenon, <1>1, <1>4, <1>5 DEF OfferInv
<1> QED
  BY <1>6, <1>10, <1>11

\* Every step keeps OfferInv.
LEMMA OfferNext == ASSUME RunInv, CacheInv, OfferInv, [Next]_vars PROVE OfferInv'
<1>0. env.msgs \subseteq Msgs /\ env.peers \subseteq Peers
  BY EnvNames DEF RunInv
<1>1. \A p \in Peers, m \in Msgs :
        /\ Cardinality(Open(sentIHaves[p], m)) \in Nat
        /\ answers[p][m] \in Nat /\ offers[p][m] \in Nat
        /\ answers[p][m] + Cardinality(Open(sentIHaves[p], m)) <= offers[p][m]
  BY ZenonT(30), OpenFinite DEF OfferInv
<1>2. ASSUME NEW p \in env.peers, NEW m \in env.msgs, HandleIWant(p, m) PROVE OfferInv'
  <2>1. p \in Peers /\ m \in Msgs
    BY <1>0
  <2>2. /\ sentIHaves' \in [Peers -> Seq(SUBSET Msgs)]
        /\ \A q \in Peers : Len(sentIHaves'[q]) \in 1 .. HistoryLength
        /\ \A q \in Peers, n \in Msgs :
             Cardinality(Open(sentIHaves'[q], n)) =
                 Cardinality(Open(sentIHaves[q], n)) - (IF q = p /\ n = m THEN 1 ELSE 0)
    BY <1>2, <2>1, TakeIs DEF HandleIWant
  <2>3. /\ answers' \in [Peers -> [Msgs -> Nat]] /\ UNCHANGED offers
        /\ \A q \in Peers, n \in Msgs :
             answers'[q][n] <= answers[q][n] + (IF q = p /\ n = m THEN 1 ELSE 0)
    <3>1. CASE m \in cached
      <4>1. answers' = [answers EXCEPT ![p][m] = @ + 1] /\ UNCHANGED offers
        BY <1>2, <3>1 DEF HandleIWant
      <4>2. \A q \in Peers, n \in Msgs :
              answers'[q][n] = IF q = p /\ n = m THEN answers[q][n] + 1 ELSE answers[q][n]
        BY <2>1, <4>1 DEF OfferInv
      <4>3. answers' \in [Peers -> [Msgs -> Nat]]
        BY <2>1, <4>1 DEF OfferInv
      <4> QED
        BY <1>1, <4>1, <4>2, <4>3
    <3>2. CASE m \notin cached
      BY <1>1, <1>2, <3>2 DEF HandleIWant, OfferInv
    <3> QED
      BY <3>1, <3>2
  <2>4. ASSUME NEW q \in Peers, NEW n \in Msgs
        PROVE  answers'[q][n] + Cardinality(Open(sentIHaves'[q], n)) <= offers'[q][n]
    <3>1. answers'[q][n] \in Nat /\ offers'[q][n] = offers[q][n]
      BY <2>3
    <3> QED
      BY <1>1, <2>2, <2>3, <3>1
  <2> QED
    BY <2>2, <2>3, <2>4 DEF OfferInv
<1>3. ASSUME Heartbeat PROVE OfferInv'
  <2>1. PICK G \in GossipPeers, W \in IHaves :
          /\ sentIHaves' = [p \in Peers |->
               Rotate(sentIHaves[p], IF p \in G THEN W ELSE {})]
          /\ offers' = [p \in Peers |-> [m \in Msgs |->
               IF p \in G /\ m \in W THEN offers[p][m] + 1 ELSE offers[p][m]]]
    BY Zenon, <1>3 DEF Heartbeat
  <2>2. Window \subseteq Msgs
    BY WindowCached DEF CacheInv
  <2>3. W \subseteq Msgs
    BY <2>2, OffersInWindow
  <2>4. ASSUME NEW p \in Peers
        PROVE  /\ sentIHaves'[p] \in Seq(SUBSET Msgs)
               /\ Len(sentIHaves'[p]) \in 1 .. HistoryLength
               /\ \A m \in Msgs : Cardinality(Open(sentIHaves'[p], m))
                    <= Cardinality(Open(sentIHaves[p], m)) + (IF p \in G /\ m \in W THEN 1 ELSE 0)
    <3>1. PICK first \in SUBSET Msgs : first = IF p \in G THEN W ELSE {}
      BY ZenonT(30), <2>3
    <3>2. sentIHaves'[p] = Rotate(sentIHaves[p], first)
      BY <2>1, <3>1
    <3>3. sentIHaves[p] \in Seq(SUBSET Msgs) /\ Len(sentIHaves[p]) \in 1 .. HistoryLength
      BY DEF OfferInv
    <3>4. \A m \in Msgs : Cardinality(Open(Rotate(sentIHaves[p], first), m))
            <= Cardinality(Open(sentIHaves[p], m)) + (IF m \in first THEN 1 ELSE 0)
      BY <3>3, OpenRotate
    <3>5. \A m : m \in first <=> p \in G /\ m \in W
      BY <3>1
    <3> QED
      BY <3>2, <3>3, <3>4, <3>5, RotateIs
  <2>5. /\ offers' \in [Peers -> [Msgs -> Nat]]
        /\ \A p \in Peers, m \in Msgs :
             offers'[p][m] = offers[p][m] + (IF p \in G /\ m \in W THEN 1 ELSE 0)
    BY <1>1, <2>1 DEF OfferInv
  <2>6. UNCHANGED answers /\ sentIHaves' \in [Peers -> Seq(SUBSET Msgs)]
    BY <1>3, <2>1, <2>4 DEF Heartbeat
  <2>7. ASSUME NEW p \in Peers, NEW m \in Msgs
        PROVE  answers'[p][m] + Cardinality(Open(sentIHaves'[p], m)) <= offers'[p][m]
    <3>1. Cardinality(Open(sentIHaves'[p], m)) \in Nat
      BY ZenonT(30), <2>4, OpenFinite
    <3>2. PICK x \in {0, 1} : x = IF p \in G /\ m \in W THEN 1 ELSE 0
      OBVIOUS
    <3>3. /\ Cardinality(Open(sentIHaves'[p], m)) <= Cardinality(Open(sentIHaves[p], m)) + x
          /\ offers'[p][m] = offers[p][m] + x /\ answers'[p][m] = answers[p][m]
      BY <2>4, <2>5, <2>6, <3>2
    <3> QED
      BY <1>1, <3>1, <3>3
  <2> QED
    BY <2>4, <2>5, <2>6, <2>7 DEF OfferInv
<1>4. ASSUME UNCHANGED <<sentIHaves, offers, answers>> PROVE OfferInv'
  BY <1>4 DEF OfferInv
<1>5. ASSUME NEW p, NEW m, Receive(p, m) \/ HandleIHave(p, m) \/ HandleIDontWant(p, m)
                \/ Publish(m) \/ ExpireSeen(m) \/ Remesh(p)
      PROVE  OfferInv'
  BY <1>4, <1>5
  DEF Receive, HandleIHave, HandleIDontWant, Publish, ExpireSeen, Remesh, peerVars, counts
<1>6. ASSUME NEW k, Rejected(k) \/ Accepted(k) \/ HandlersDone(k) PROVE OfferInv'
  BY <1>4, <1>6 DEF Rejected, Accepted, HandlersDone, peerVars, counts
<1>7. CASE ToggleTopic \/ UNCHANGED vars
  BY <1>4, <1>7 DEF ToggleTopic, vars, peerVars, counts
<1> QED
  BY <1>2, <1>3, <1>5, <1>6, <1>7 DEF Next, Step

-----------------------------------------------------------------------------
(* What peers do not want.                                                 *)

WantInv ==
    /\ iDontWants \in [Peers -> Seq(SUBSET Msgs)]
    /\ iHaveBudget \in [Peers -> 0 .. IHaveBudget]
    /\ \A p \in Peers :
        /\ Len(iDontWants[p]) \in 1 .. HistoryLength
        /\ IsFiniteSet(iDontWants[p][1])
        /\ Cardinality(iDontWants[p][1]) <= IDontWantMaxCount

\* An IDONTWANT adds to the newest set, which is not full.
LEMMA IDontWantKeeps ==
    ASSUME WantInv, NEW p \in Peers, NEW m \in Msgs, HandleIDontWant(p, m)
    PROVE  WantInv'
<1>1. PICK s \in Seq(SUBSET Msgs) : s = iDontWants[p]
  BY DEF WantInv
<1>2. /\ Len(s) \in 1 .. HistoryLength /\ 1 \in 1 .. Len(s) /\ IsFiniteSet(s[1])
      /\ Cardinality(s[1]) < IDontWantMaxCount
  BY <1>1, RelayAssumption DEF WantInv, HandleIDontWant
<1>3. PICK r : r = [s EXCEPT ![1] = s[1] \cup {m}]
  BY Zenon
<1>4. r \in Seq(SUBSET Msgs) /\ Len(r) = Len(s) /\ r[1] = s[1] \cup {m}
  <2>1. PICK T : T = SUBSET Msgs
    BY Zenon
  <2>2. s \in Seq(T) /\ s[1] \cup {m} \in T
    BY <1>2, <2>1
  <2> QED
    BY <1>2, <1>3, <2>1, <2>2, ExceptSeq
<1>5. IsFiniteSet(r[1]) /\ Cardinality(r[1]) <= IDontWantMaxCount
  <2>1. Cardinality(s[1]) \in Nat /\ IDontWantMaxCount \in Nat
    BY <1>2, FS_CardinalityType, RelayAssumption
  <2>2. IsFiniteSet(s[1] \cup {m})
        /\ Cardinality(s[1] \cup {m}) = IF m \in s[1] THEN Cardinality(s[1]) ELSE Cardinality(s[1]) + 1
    BY Zenon, <1>2, FS_AddElement
  <2>3. Cardinality(s[1] \cup {m}) <= IDontWantMaxCount
    BY <1>2, <2>1, <2>2
  <2> QED
    BY <1>4, <2>2, <2>3
<1>6. iDontWants' = [iDontWants EXCEPT ![p] = r] /\ UNCHANGED iHaveBudget
  BY <1>1, <1>3 DEF HandleIDontWant
<1> QED
  BY Zenon, <1>2, <1>4, <1>5, <1>6 DEF WantInv

\* Every step keeps WantInv.
LEMMA WantNext == ASSUME RunInv, WantInv, [Next]_vars PROVE WantInv'
<1>0. env.msgs \subseteq Msgs /\ env.peers \subseteq Peers
  BY EnvNames DEF RunInv
<1>1. ASSUME NEW p \in env.peers, NEW m \in env.msgs, HandleIDontWant(p, m) PROVE WantInv'
  BY <1>0, <1>1, IDontWantKeeps
<1>2. ASSUME NEW p \in env.peers, NEW m \in env.msgs, HandleIHave(p, m) PROVE WantInv'
  <2>1. iHaveBudget' \in [Peers -> 0 .. IHaveBudget] /\ UNCHANGED iDontWants
    <3>1. p \in Peers /\ iHaveBudget[p] \in 0 .. IHaveBudget /\ IHaveBudget \in Nat
      BY <1>0, RelayAssumption DEF WantInv
    <3>2. /\ iHaveBudget[p] > 0 /\ UNCHANGED iDontWants
          /\ iHaveBudget' = [iHaveBudget EXCEPT ![p] = iHaveBudget[p] - 1]
      BY <1>2 DEF HandleIHave
    <3>3. iHaveBudget[p] - 1 \in 0 .. IHaveBudget
      BY <3>1, <3>2
    <3> QED
      BY ZenonT(30), <3>2, <3>3 DEF WantInv
  <2> QED
    BY <2>1 DEF WantInv
<1>3. ASSUME Heartbeat PROVE WantInv'
  <2>1. /\ iDontWants' = [p \in Peers |-> Rotate(iDontWants[p], {})]
        /\ iHaveBudget' = [p \in Peers |-> IHaveBudget]
    BY <1>3 DEF Heartbeat
  <2>2. \A p \in Peers : /\ iDontWants[p] \in Seq(SUBSET Msgs)
                         /\ Len(iDontWants[p]) \in 1 .. HistoryLength
    BY DEF WantInv
  <2>3. {} \in SUBSET Msgs
    OBVIOUS
  <2>4. \A p \in Peers : /\ Rotate(iDontWants[p], {}) \in Seq(SUBSET Msgs)
                         /\ Len(Rotate(iDontWants[p], {})) \in 1 .. HistoryLength
                         /\ Rotate(iDontWants[p], {})[1] = {}
    BY <2>2, <2>3, RotateIs
  <2>5. IsFiniteSet({}) /\ Cardinality({}) <= IDontWantMaxCount /\ IHaveBudget \in 0 .. IHaveBudget
    BY RelayAssumption, FS_EmptySet
  <2> QED
    BY ZenonT(30), <2>1, <2>4, <2>5 DEF WantInv
<1>4. ASSUME UNCHANGED <<iDontWants, iHaveBudget>> PROVE WantInv'
  BY <1>4 DEF WantInv
<1>5. ASSUME NEW p, NEW m, Receive(p, m) \/ HandleIWant(p, m)
                \/ Publish(m) \/ ExpireSeen(m) \/ Remesh(p)
      PROVE  WantInv'
  BY <1>4, <1>5 DEF Receive, HandleIWant, Publish, ExpireSeen, Remesh, peerVars
<1>6. ASSUME NEW k, Rejected(k) \/ Accepted(k) \/ HandlersDone(k) PROVE WantInv'
  BY <1>4, <1>6 DEF Rejected, Accepted, HandlersDone, peerVars
<1>7. CASE ToggleTopic \/ UNCHANGED vars
  BY <1>4, <1>7 DEF ToggleTopic, vars, peerVars
<1> QED
  BY <1>1, <1>2, <1>3, <1>5, <1>6, <1>7 DEF Next, Step

-----------------------------------------------------------------------------
(* The results.                                                            *)

\* What holds in every reachable state.
Inv == RunInv /\ CacheInv /\ OfferInv /\ WantInv

\* The invariant holds at the start.
LEMMA InvInit == Init => Inv
<1> SUFFICES ASSUME Init PROVE Inv
  OBVIOUS
<1>1. RunInv
  <2>1. env \in Envs /\ mesh \subseteq Peers /\ task \in [Tasks -> TaskRecords]
        /\ delivered \in [Msgs -> Nat] /\ DOMAIN validationSeen = {} /\ seen = {}
    BY EnvNames DEF Init, Idle, TaskRecords
  <2>2. \A k \in Tasks : task[k].phase = "none"
    BY DEF Init, Idle
  <2>3. \A m \in Msgs : delivered[m] = 0
    BY DEF Init
  <2>4. OnceInv
    BY <2>2, <2>3 DEF OnceInv, Runs
  <2> QED
    BY <2>1, <2>2, <2>4 DEF RunInv, ValidationSeenDoesNotLeak
<1>2. CacheInv
  BY RelayAssumption DEF Init, CacheInv, CacheMatchesHistory, Slots
<1>3. <<{}>> \in Seq(SUBSET Msgs) /\ Len(<<{}>>) \in 1 .. HistoryLength /\ <<{}>>[1] = {}
  BY RelayAssumption
<1>4. OfferInv
  <2>1. ASSUME NEW m PROVE Cardinality(Open(<<{}>>, m)) = 0
    <3>1. Open(<<{}>>, m) = {}
      BY DEF Open
    <3> QED
      BY <3>1, FS_EmptySet
  <2> QED
    BY <1>3, <2>1 DEF Init, OfferInv
<1>5. WantInv
  BY <1>3, RelayAssumption, FS_EmptySet DEF Init, WantInv
<1> QED
  BY <1>1, <1>2, <1>4, <1>5 DEF Inv

\* The invariant always holds.
LEMMA InvHolds == Spec => []Inv
<1>1. Inv /\ [Next]_vars => Inv'
  BY RunNext, CacheNext, OfferNext, WantNext DEF Inv
<1> QED
  BY <1>1, InvInit, PTL DEF Spec

\* The tables of the relay stay in order, for any messages and peers: every cached
\* message is in one slot of the history, no entry of validationSeen outlives its
\* validation, and the per-peer lists keep to their limits.
THEOREM WellFormedAlways == Spec => []WellFormed
<1>1. Inv => WellFormed
  BY DEF Inv, WellFormed, TypeOK, RunInv, CacheInv, OfferInv, WantInv
<1> QED
  BY <1>1, InvHolds, PTL

\* A message is delivered once unless the seen cache forgot it, and no peer gets
\* more answers to IWANT than it got offers.
THEOREM DeliveredOnceAlways == Spec => []DeliveredOnce
<1>1. ASSUME Inv PROVE DeliveredOnce
  <2>1. \A m \in Msgs \ forgotten : delivered[m] <= 1
    BY <1>1 DEF Inv, RunInv, OnceInv
  <2>2. ASSUME NEW p \in Peers, NEW m \in Msgs PROVE answers[p][m] <= offers[p][m]
    <3>1. /\ Cardinality(Open(sentIHaves[p], m)) \in Nat
          /\ answers[p][m] \in Nat /\ offers[p][m] \in Nat
          /\ answers[p][m] + Cardinality(Open(sentIHaves[p], m)) <= offers[p][m]
      BY ZenonT(30), <1>1, OpenFinite DEF Inv, OfferInv
    <3> QED
      BY <3>1
  <2> QED
    BY <2>1, <2>2 DEF DeliveredOnce
<1> QED
  BY <1>1, InvHolds, PTL

\* What is in a step's output.
LEMMA ToIs ==
    ASSUME NEW kind, NEW m, NEW ps, NEW o \in To(kind, m, ps)
    PROVE  o[1] = kind /\ o[2] = m /\ o[3] \in ps
<1> QED
  BY DEF To

\* A relay, an IHAVE or an answer is about a message that was accepted.
LEMMA OnlyAccepted ==
    ASSUME Inv, Next, NEW o \in out', o[1] \in {"relay", "ihave", "answer"}
    PROVE  o[2] \in accepted'
<1>1. ASSUME NEW p, NEW m, Receive(p, m) PROVE FALSE
  BY <1>1, ToIs DEF Receive
<1>2. ASSUME NEW p, NEW m, HandleIHave(p, m) PROVE FALSE
  BY <1>2, ToIs DEF HandleIHave
<1>3. ASSUME NEW p, NEW m, HandleIWant(p, m) PROVE o[2] \in accepted'
  <2>1. m \in cached /\ o \in To("answer", m, {p}) /\ UNCHANGED accepted
    BY <1>3 DEF HandleIWant
  <2> QED
    BY <2>1, ToIs DEF Inv, CacheInv
<1>4. ASSUME NEW k \in Tasks, Accepted(k) PROVE o[2] \in accepted'
  <2>1. o \in To("relay", task[k].msg, RelayTo(task[k].msg, task[k].from))
        /\ accepted' = accepted \cup {task[k].msg}
    BY <1>4 DEF Accepted
  <2> QED
    BY <2>1, ToIs
<1>5. ASSUME NEW m, Publish(m) PROVE FALSE
  BY <1>5, ToIs DEF Publish
<1>6. ASSUME Heartbeat PROVE o[2] \in accepted'
  <2>1. PICK G \in GossipPeers, W \in IHaves : out' = UNION {To("ihave", m, G) : m \in W}
    BY Zenon, <1>6 DEF Heartbeat
  <2>2. PICK m \in W : o \in To("ihave", m, G)
    BY <2>1
  <2>3. o[2] = m /\ m \in cached
    BY <2>1, <2>2, ToIs, WindowCached, OffersInWindow DEF Inv
  <2> QED
    BY <1>6, <2>3 DEF Heartbeat, Inv, CacheInv
<1>7. ASSUME NEW k, NEW m, NEW p, Rejected(k) \/ HandlersDone(k) \/ HandleIDontWant(p, m)
                \/ ExpireSeen(m) \/ Remesh(p) \/ ToggleTopic
      PROVE  FALSE
  BY <1>7 DEF Rejected, HandlersDone, HandleIDontWant, ExpireSeen, Remesh, ToggleTopic
<1> QED
  BY <1>1, <1>2, <1>3, <1>4, <1>5, <1>6, <1>7 DEF Next, Step

\* Only its acceptance, while the topic is subscribed, takes a validation to the
\* handlers.
LEMMA Handing ==
    ASSUME Inv, Next, NEW k \in Tasks, task[k].phase = "validating", task'[k].phase = "handling"
    PROVE  Accepted(k) /\ subscribed
<1>0. task \in [Tasks -> TaskRecords]
  BY DEF Inv, RunInv
<1>1. ASSUME NEW p, NEW m, Receive(p, m) PROVE FALSE
  <2>1. CASE m \in seen
    <3>1. task'[k].phase = task[k].phase
      BY <1>0, <1>1, <2>1 DEF Receive, TaskRecords
    <3> QED
      BY <3>1
  <2>2. CASE m \notin seen
    <3>1. PICK i \in env.tasks : task' = [j \in Tasks |->
                 IF j = i THEN [phase |-> "validating", msg |-> m, from |-> p, also |-> {}]
                 ELSE IF task[j].phase = "validating" /\ task[j].msg = m
                 THEN [task[j] EXCEPT !.also = @ \cup {p}] ELSE task[j]]
      BY <1>1, <2>2 DEF Receive
    <3>2. task'[k].phase = "validating"
      BY <1>0, <3>1 DEF TaskRecords
    <3> QED
      BY <3>2
  <2> QED
    BY <2>1, <2>2
<1>2. ASSUME NEW j \in Tasks, Rejected(j) \/ HandlersDone(j) PROVE FALSE
  BY <1>0, <1>2 DEF Rejected, HandlersDone, Idle
<1>3. ASSUME NEW j \in Tasks, Accepted(j) PROVE Accepted(k) /\ subscribed
  <2>1. CASE subscribed
    <3>1. task' = [task EXCEPT ![j] = [@ EXCEPT !.phase = "handling", !.also = {}]]
      BY <1>3, <2>1 DEF Accepted
    <3>2. j = k
      BY <1>0, <3>1
    <3> QED
      BY <1>3, <2>1, <3>2
  <2>2. CASE ~subscribed
    BY <1>0, <1>3, <2>2 DEF Accepted, Idle
  <2> QED
    BY <2>1, <2>2
<1>4. UNCHANGED task => FALSE
  OBVIOUS
<1>5. ASSUME NEW p, NEW m, HandleIHave(p, m) \/ HandleIWant(p, m) \/ HandleIDontWant(p, m)
                \/ Publish(m) \/ ExpireSeen(m) \/ Remesh(p) \/ Heartbeat \/ ToggleTopic
      PROVE  FALSE
  BY <1>4, <1>5 DEF HandleIHave, HandleIWant, HandleIDontWant, Publish, ExpireSeen, Remesh,
                    Heartbeat, ToggleTopic
<1> QED
  BY Zenon, <1>1, <1>2, <1>3, <1>5 DEF Next, Step

\* What leaves the node may leave it: only accepted messages are relayed, offered
\* or answered, and a relay spares the sender, the publisher, the peers that sent
\* a copy during the validation and those that sent an IDONTWANT.
THEOREM LeavesAsItShouldAlways == Spec => LeavesAsItShould
<1> DEFINE Leaves ==
      /\ \A o \in out' : o[1] \in {"relay", "ihave", "answer"} => o[2] \in accepted'
      /\ \A k \in Tasks, o \in out' :
            o[1] = "relay" /\ task[k].phase = "validating" /\ task'[k].phase = "handling" =>
                /\ o[3] \notin {task[k].from, Author[o[2]]}
                /\ o[2] \in forgotten \/ o[3] \notin task[k].also
                /\ o[2] \notin UnionOf(iDontWants[o[3]])
<1>1. ASSUME Inv, Next PROVE Leaves
  <2>1. \A o \in out' : o[1] \in {"relay", "ihave", "answer"} => o[2] \in accepted'
    BY <1>1, OnlyAccepted
  <2>2. ASSUME NEW k \in Tasks, NEW o \in out', o[1] = "relay",
               task[k].phase = "validating", task'[k].phase = "handling"
        PROVE  /\ o[3] \notin {task[k].from, Author[o[2]]}
               /\ o[2] \in forgotten \/ o[3] \notin task[k].also
               /\ o[2] \notin UnionOf(iDontWants[o[3]])
    <3>1. Accepted(k) /\ subscribed
      BY <1>1, <2>2, Handing
    <3>2. PICK m \in Msgs : m = task[k].msg
      BY <1>1, <2>2 DEF Inv, RunInv
    <3>3. o \in To("relay", m, RelayTo(m, task[k].from))
      BY <2>2, <3>1, <3>2 DEF Accepted
    <3>4. o[2] = m /\ o[3] \in RelayTo(m, task[k].from)
      BY <3>3, ToIs
    <3>5. /\ o[3] \in SendPeers(m, task[k].from)
          /\ m \in DOMAIN validationSeen => o[3] \notin validationSeen[m]
          /\ o[3] \in Peers => m \notin UnionOf(iDontWants[o[3]])
      BY <3>4 DEF RelayTo
    <3>6. o[3] \in Peers /\ o[3] \notin {task[k].from, Author[m]}
      BY <1>1, <3>5, EnvNames DEF SendPeers, Inv, RunInv
    <3>7. m \in forgotten \/ (m \in DOMAIN validationSeen /\ task[k].also \subseteq validationSeen[m])
      BY <1>1, <2>2, <3>2 DEF Inv, RunInv, OnceInv, Runs
    <3> QED
      BY <3>4, <3>5, <3>6, <3>7
  <2> QED
    BY <2>1, <2>2
<1>2. Inv /\ [Next]_vars => [Leaves]_vars
  BY <1>1
<1> QED
  BY <1>2, InvHolds, PTL DEF Spec, LeavesAsItShould
=============================================================================
