------------------------- MODULE DialBackoffProofs -------------------------
(***************************************************************************)
(* Proofs about DialBackoff, for every set of keys, every bound and every  *)
(* configuration: the table stays bounded and forgets the least, and the   *)
(* loop of delay computes what the configuration promises.  The loop is a  *)
(* recursive function; UpTo, induction from the fact that every set of     *)
(* numbers has a least one, is what reasons about it.                      *)
(***************************************************************************)
EXTENDS DialBackoff, FiniteSetTheorems, WellFoundedInduction, TLAPS

\* The bound, with what makes cardinalities meaningful.
TableInv == IsFiniteSet(Tabled) /\ TableBounded

\* The keys that stay leave room for the one that failed.
LEMMA KeptFits ==
    ASSUME TableInv, NEW k, NEW kept \in Kept(k)
    PROVE  /\ kept \subseteq Tabled /\ IsFiniteSet(kept)
           /\ (k \in kept /\ kept = Tabled) \/ Cardinality(kept) + 1 <= MaxBackoffEntries
<1>1. IsFiniteSet(Tabled) /\ Pruned \subseteq Tabled
  BY DEF TableInv, Pruned
<1>2. IsFiniteSet(Pruned) /\ Cardinality(Tabled) \in Nat /\ Cardinality(Pruned) \in Nat
      /\ Cardinality(Pruned) <= Cardinality(Tabled)
  BY <1>1, FS_Subset, FS_CardinalityType
<1>3. CASE Cardinality(Tabled) < MaxBackoffEntries \/ k \in Tabled
  <2>1. kept = Tabled
    BY <1>3 DEF Kept
  <2> QED
    BY <1>1, <1>2, <1>3, <2>1, BackoffAssumption
<1>4. CASE /\ ~(Cardinality(Tabled) < MaxBackoffEntries \/ k \in Tabled)
           /\ Cardinality(Pruned) < MaxBackoffEntries
  <2>1. kept = Pruned
    BY <1>4 DEF Kept
  <2> QED
    BY <1>1, <1>2, <1>4, <2>1, BackoffAssumption
<1>5. CASE /\ ~(Cardinality(Tabled) < MaxBackoffEntries \/ k \in Tabled)
           /\ ~(Cardinality(Pruned) < MaxBackoffEntries)
  <2>1. PICK j \in Soonest(Pruned) : kept = Pruned \ {j}
    BY <1>5 DEF Kept
  <2>2. j \in Pruned
    BY <2>1 DEF Soonest
  <2>3. IsFiniteSet(kept) /\ Cardinality(kept) = Cardinality(Pruned) - 1
    BY <1>2, <2>1, <2>2, FS_RemoveElement
  <2>4. Cardinality(Tabled) <= MaxBackoffEntries
    BY DEF TableInv, TableBounded
  <2> QED
    BY <1>1, <1>2, <2>1, <2>3, <2>4, BackoffAssumption
<1> QED
  BY <1>3, <1>4, <1>5

\* What is tabled after a failure of k.
LEMMA FailureDomain ==
    ASSUME NEW k, CountFailure(k)
    PROVE  \E kept \in Kept(k) : DOMAIN entries' = kept \cup {k}
BY DEF CountFailure

\* countFailure keeps the table within its bound.
LEMMA FailureFits ==
    ASSUME TableInv, NEW k, CountFailure(k)
    PROVE  TableInv'
<1>1. PICK kept \in Kept(k) : DOMAIN entries' = kept \cup {k}
  BY FailureDomain
<1>2. /\ kept \subseteq Tabled /\ IsFiniteSet(kept)
      /\ (k \in kept /\ kept = Tabled) \/ Cardinality(kept) + 1 <= MaxBackoffEntries
  BY KeptFits
<1>3. IsFiniteSet(kept \cup {k}) /\ Cardinality(kept) \in Nat
      /\ Cardinality(kept \cup {k}) = IF k \in kept THEN Cardinality(kept) ELSE Cardinality(kept) + 1
  BY <1>2, FS_AddElement, FS_CardinalityType
<1>4. Cardinality(kept \cup {k}) <= MaxBackoffEntries
  BY <1>2, <1>3, BackoffAssumption DEF TableInv, TableBounded
<1> QED
  BY <1>1, <1>3, <1>4 DEF TableInv, TableBounded, Tabled

\* Every step keeps the table within its bound.
LEMMA TableStep == TableInv /\ [Next]_vars => TableInv'
<1> SUFFICES ASSUME TableInv, [Next]_vars PROVE TableInv'
  OBVIOUS
<1>1. ASSUME NEW d \in Dials, DialFails(d) PROVE TableInv'
  BY <1>1, FailureFits DEF DialFails
<1>2. ASSUME NEW d \in Dials, DialSucceeds(d) PROVE TableInv'
  <2>1. DOMAIN entries' = Tabled \ {dial[d]}
    BY <1>2 DEF DialSucceeds, RecordSuccess, Restrict
  <2>2. IsFiniteSet(Tabled \ {dial[d]}) /\ Cardinality(Tabled) \in Nat
        /\ Cardinality(Tabled \ {dial[d]}) \in Nat
        /\ Cardinality(Tabled \ {dial[d]}) <= Cardinality(Tabled)
    BY FS_Subset, FS_CardinalityType DEF TableInv
  <2> QED
    BY <2>1, <2>2, BackoffAssumption DEF TableInv, TableBounded, Tabled
<1>3. CASE Tick
  <2>1. DOMAIN entries' = DOMAIN entries
    BY <1>3 DEF Tick, Tabled
  <2> QED
    BY <2>1 DEF TableInv, TableBounded, Tabled
<1>4. ASSUME UNCHANGED entries PROVE TableInv'
  BY <1>4 DEF TableInv, TableBounded, Tabled
<1> QED
  BY <1>1, <1>2, <1>3, <1>4 DEF Next, vars, DialStarts, DialCancelled

\* The bound holds when nothing has failed yet.
LEMMA TableInit == Init => TableInv
<1> SUFFICES ASSUME Init PROVE TableInv
  OBVIOUS
<1>1. Tabled = {}
  BY DEF Init, Tabled
<1> QED
  BY <1>1, FS_EmptySet, BackoffAssumption DEF TableInv, TableBounded

\* countFailure, prune and evictSoonest keep a table within MaxBackoffEntries for
\* every order of failures, successes and cancellations over any number of keys.
THEOREM TableBoundedAlways == Spec => []TableBounded
<1>1. TableInv => TableBounded
  BY DEF TableInv
<1> QED
  BY <1>1, TableInit, TableStep, PTL DEF Spec

-----------------------------------------------------------------------------
(* What makes room.                                                        *)

\* An entry that a failure of another key drops is stale, or it is alone in
\* leaving and no wait ends before its own.
LEMMA LeastLeaves ==
    ASSUME TableInv, NEW k, CountFailure(k), NEW j \in Tabled \ DOMAIN entries'
    PROVE  /\ Cardinality(Tabled) = MaxBackoffEntries /\ k \notin Tabled
           /\ \/ Decayed(j)
              \/ /\ DOMAIN entries' = (Tabled \ {j}) \cup {k}
                 /\ \A i \in Tabled : entries[j].until <= entries[i].until
<1>1. PICK kept \in Kept(k) : DOMAIN entries' = kept \cup {k}
  BY FailureDomain
<1>2. kept # Tabled
  BY <1>1
<1>3. ~(Cardinality(Tabled) < MaxBackoffEntries \/ k \in Tabled)
  BY <1>1, <1>2 DEF Kept
<1>4. /\ IsFiniteSet(Tabled) /\ Cardinality(Tabled) \in Nat
      /\ Cardinality(Tabled) <= MaxBackoffEntries
  BY FS_CardinalityType DEF TableInv, TableBounded
<1>5. Cardinality(Tabled) = MaxBackoffEntries /\ k \notin Tabled
  BY <1>3, <1>4, BackoffAssumption
<1>6. CASE j \notin Pruned
  BY <1>5, <1>6 DEF Pruned
<1>7. CASE j \in Pruned
  <2>1. kept # Pruned
    BY <1>1, <1>7
  <2>2. ~(Cardinality(Pruned) < MaxBackoffEntries)
    BY <1>1, <1>3, <2>1 DEF Kept
  <2>3. PICK i \in Soonest(Pruned) : kept = Pruned \ {i}
    BY <1>1, <1>3, <2>2 DEF Kept
  <2>4. Pruned = Tabled
    <3>1. Pruned \subseteq Tabled
      BY DEF Pruned
    <3>2. Cardinality(Pruned) \in Nat /\ Cardinality(Pruned) <= Cardinality(Tabled)
      BY <1>4, <3>1, FS_Subset, FS_CardinalityType
    <3>3. Cardinality(Pruned) = Cardinality(Tabled)
      BY <1>5, <2>2, <3>2, BackoffAssumption
    <3> QED
      BY <1>4, <3>1, <3>3, FS_Subset
  <2>5. i = j
    BY <1>1, <1>7, <2>3
  <2>6. \A h \in Tabled : entries[j].until <= entries[h].until
    BY <2>3, <2>4, <2>5 DEF Soonest
  <2> QED
    BY <1>1, <1>5, <2>3, <2>4, <2>5, <2>6
<1> QED
  BY <1>6, <1>7

\* prune and evictSoonest give up only what matters least, whatever the table
\* holds when it is full.
THEOREM ForgetsTheLeastAlways == Spec => ForgetsTheLeast
<1> DEFINE Least == \A d \in Dials, j \in Tabled \ DOMAIN entries' : DialFails(d) =>
        /\ Cardinality(Tabled) = MaxBackoffEntries /\ dial[d] \notin Tabled
        /\ \/ Decayed(j)
           \/ /\ DOMAIN entries' = (Tabled \ {j}) \cup {dial[d]}
              /\ \A k \in Tabled : entries[j].until <= entries[k].until
<1>1. TableInv /\ [Next]_vars => [Least]_vars
  <2> SUFFICES ASSUME TableInv, NEW d \in Dials, NEW j \in Tabled \ DOMAIN entries', DialFails(d)
               PROVE  /\ Cardinality(Tabled) = MaxBackoffEntries /\ dial[d] \notin Tabled
                      /\ \/ Decayed(j)
                         \/ /\ DOMAIN entries' = (Tabled \ {j}) \cup {dial[d]}
                            /\ \A k \in Tabled : entries[j].until <= entries[k].until
    OBVIOUS
  <2> QED
    BY Zenon, LeastLeaves DEF DialFails
<1> QED
  BY <1>1, TableInit, TableStep, PTL DEF Spec, ForgetsTheLeast

-----------------------------------------------------------------------------
(* The wait.                                                               *)

\* A nonempty set of numbers has a least one.
LEMMA LeastNumber ==
    ASSUME NEW T, T \subseteq Nat, T # {}
    PROVE  \E i \in T : \A j \in T : i <= j
<1>1. IsWellFoundedOn(OpToRel(<, Nat), Nat)
  BY Zenon, NatLessThanWellFounded
<1>2. PICK x \in T : \A y \in T : ~(<<y, x>> \in OpToRel(<, Nat))
  BY Zenon, <1>1, WFMin
<1>3. \A y \in T : ~(y < x)
  BY Zenon, <1>2 DEF OpToRel
<1>4. \A y \in T : x <= y
  BY <1>3
<1> QED
  BY <1>4

\* Induction up to m, for a set of numbers.
LEMMA UpTo ==
    ASSUME NEW m \in Nat, NEW S, 0 \in S, \A n \in 0 .. m - 1 : n \in S => n + 1 \in S
    PROVE  0 .. m \subseteq S
<1> DEFINE T == (0 .. m) \ S
<1> SUFFICES ASSUME T # {} PROVE FALSE
  OBVIOUS
<1>1. PICK i \in T : \A j \in T : i <= j
  <2>1. T \subseteq Nat
    OBVIOUS
  <2> QED
    BY Zenon, <2>1, LeastNumber
<1>2. i # 0 /\ i - 1 \in 0 .. m - 1 /\ (i - 1) + 1 = i
  OBVIOUS
<1>3. i - 1 \notin T
  BY <1>1, <1>2
<1>4. i - 1 \in S
  BY <1>2, <1>3
<1> QED
  BY <1>2, <1>4

\* h runs from b up to m by F.
Runs(h, V, F, b, m) ==
    /\ h \in [0 .. m -> V]
    /\ h[0] = b /\ \A i \in 1 .. m : h[i] = F[h[i - 1]]

\* A function can be defined round by round.
LEMMA Rounds ==
    ASSUME NEW V, NEW F \in [V -> V], NEW b \in V, NEW m \in Nat
    PROVE  \E h : Runs(h, V, F, b, m)
<1> DEFINE S == {n \in Nat : \E h : Runs(h, V, F, b, n)}
<1>1. 0 \in S
  <2> DEFINE h == [i \in 0 .. 0 |-> b]
  <2>1. Runs(h, V, F, b, 0)
    BY DEF Runs
  <2> QED
    BY <2>1
<1>2. ASSUME NEW n \in 0 .. m - 1, n \in S PROVE n + 1 \in S
  <2>1. PICK h : Runs(h, V, F, b, n)
    BY <1>2
  <2> DEFINE g == [i \in 0 .. n + 1 |-> IF i = n + 1 THEN F[h[n]] ELSE h[i]]
  <2>2. g \in [0 .. n + 1 -> V] /\ g[0] = b
    BY <2>1 DEF Runs
  <2>3. ASSUME NEW i \in 1 .. n + 1 PROVE g[i] = F[g[i - 1]]
    BY <2>1 DEF Runs
  <2> HIDE DEF g
  <2>4. n + 1 \in Nat /\ Runs(g, V, F, b, n + 1)
    BY <2>2, <2>3 DEF Runs
  <2> QED
    BY <2>4
<1>3. 0 .. m \subseteq S
  <2> HIDE DEF S
  <2> QED
    BY <1>1, <1>2, UpTo
<1> QED
  BY <1>3

\* The lesser and the greater of two numbers.
LEMMA MinOfTwo ==
    ASSUME NEW a \in Int, NEW b \in Int
    PROVE  Min({a, b}) = IF a <= b THEN a ELSE b
BY DEF Min

LEMMA MaxOfTwo ==
    ASSUME NEW a \in Int, NEW b \in Int
    PROVE  Max({a, b}) = IF a >= b THEN a ELSE b
BY DEF Max

\* The fields of the configuration.
LEMMA ConfigType ==
    ASSUME config \in Configs
    PROVE  /\ config.tolerance \in Nat /\ config.factor \in Int /\ config.jitter \in Nat
           /\ config.base \in Int /\ config.base < Limit
           /\ config.maxDelay \in Nat /\ config.maxDelay < Limit
           /\ Limit \in Nat /\ MaxFailures \in Nat \ {0}
BY BackoffAssumption

\* A Duration that fits is not changed by its width.
LEMMA WrapFits ==
    ASSUME NEW l \in Nat, NEW x \in 0 .. l - 1
    PROVE  ((x + l) % (2 * l)) - l = x
OBVIOUS

\* A round of the loop yields a number.
LEMMA GrowType ==
    ASSUME config \in Configs, config.factor > 1, NEW x \in Int
    PROVE  Grow(x) \in Int
<1>1. CASE x > config.maxDelay \div config.factor
  BY <1>1, ConfigType DEF Grow
<1>2. CASE ~(x > config.maxDelay \div config.factor)
  <2>1. Limit \in Nat \ {0} /\ x * config.factor \in Int
    BY ConfigType
  <2>2. Wrap(x * config.factor) \in Int
    BY <2>1 DEF Wrap
  <2> QED
    BY <1>2, <2>2 DEF Grow
<1> QED
  BY <1>1, <1>2

\* The recursive functions are what their definitions say.
LEMMA GrownDef ==
    ASSUME config \in Configs, config.factor > 1
    PROVE  Grown = [n \in 0 .. MaxFailures |-> IF n = 0 THEN config.base ELSE Grow(Grown[n - 1])]
<1> DEFINE F == [x \in Int |-> Grow(x)]
<1>1. F \in [Int -> Int] /\ config.base \in Int /\ MaxFailures \in Nat
  BY GrowType, ConfigType
<1> HIDE DEF F
<1>2. PICK h \in [0 .. MaxFailures -> Int] :
        h[0] = config.base /\ \A i \in 1 .. MaxFailures : h[i] = F[h[i - 1]]
  <2>1. PICK h : Runs(h, Int, F, config.base, MaxFailures)
    BY <1>1, Rounds
  <2> QED
    BY Zenon, <2>1 DEF Runs
<1>3. ASSUME NEW n \in 0 .. MaxFailures
      PROVE  h[n] = IF n = 0 THEN config.base ELSE Grow(h[n - 1])
  <2>1. CASE n = 0
    BY <1>2, <2>1
  <2>2. CASE n # 0
    <3>1. n \in 1 .. MaxFailures /\ h[n - 1] \in Int
      BY <1>1, <2>2
    <3> QED
      BY Zenon, <1>2, <2>2, <3>1 DEF F
  <2> QED
    BY <2>1, <2>2
<1>4. h = [n \in 0 .. MaxFailures |-> IF n = 0 THEN config.base ELSE Grow(h[n - 1])]
  BY <1>3
<1> QED
  BY Zenon, <1>4 DEF Grown

\* The recursive functions exist: Power,
LEMMA PowerDef ==
    ASSUME config \in Configs
    PROVE  Power = [n \in 0 .. MaxFailures |->
                       IF n = 0 THEN 1 ELSE Max({config.factor, 1}) * Power[n - 1]]
<1> DEFINE F == [x \in Int |-> Max({config.factor, 1}) * x]
<1>1. F \in [Int -> Int] /\ 1 \in Int /\ MaxFailures \in Nat
  <2>1. Max({config.factor, 1}) \in Int
    BY MaxOfTwo, ConfigType
  <2> QED
    BY <2>1, ConfigType
<1> HIDE DEF F
<1>2. PICK h \in [0 .. MaxFailures -> Int] :
        h[0] = 1 /\ \A i \in 1 .. MaxFailures : h[i] = F[h[i - 1]]
  <2>1. PICK h : Runs(h, Int, F, 1, MaxFailures)
    BY ZenonT(30), <1>1, Rounds
  <2> QED
    BY Zenon, <2>1 DEF Runs
<1>3. ASSUME NEW n \in 0 .. MaxFailures
      PROVE  h[n] = IF n = 0 THEN 1 ELSE Max({config.factor, 1}) * h[n - 1]
  <2>1. CASE n = 0
    BY <1>2, <2>1
  <2>2. CASE n # 0
    <3>1. n \in 1 .. MaxFailures /\ h[n - 1] \in Int
      BY <1>1, <2>2
    <3> QED
      BY Zenon, <1>2, <2>2, <3>1 DEF F
  <2> QED
    BY <2>1, <2>2
<1>4. h = [n \in 0 .. MaxFailures |-> IF n = 0 THEN 1 ELSE Max({config.factor, 1}) * h[n - 1]]
  BY Zenon, <1>3
<1> QED
  BY Zenon, <1>4 DEF Power

\* A quotient tells whether a product stays within the ceiling.
LEMMA Quotient ==
    ASSUME NEW m \in Nat, NEW d \in Nat \ {0}, NEW x \in Nat
    PROVE  (x <= m \div d => x * d <= m) /\ (x > m \div d => x * d > m)
OBVIOUS

\* The loop of delay computes base times a power of the factor as long as that
\* stays within maxDelay, without overflow, and is at the ceiling from then on.
LEMMA LoopComputes ==
    ASSUME config \in Configs, config.base > 0, config.maxDelay > 0, config.factor > 1,
           NEW n \in 0 .. MaxFailures
    PROVE  /\ Power[n] \in Nat \ {0} /\ Grown[n] \in Int
           /\ config.base * Power[n] <= config.maxDelay => Grown[n] = config.base * Power[n]
           /\ config.base * Power[n] > config.maxDelay => Grown[n] >= config.maxDelay
<1> DEFINE b == config.base
           f == config.factor
           m == config.maxDelay
<1>0. b \in Nat \ {0} /\ f \in Nat /\ f > 1 /\ m \in Nat \ {0} /\ m < Limit /\ Limit \in Nat
      /\ MaxFailures \in Nat \ {0}
  BY ConfigType
<1>1. /\ Grown[0] = b /\ Power[0] = 1
      /\ \A k \in 0 .. MaxFailures - 1 :
            Grown[k + 1] = Grow(Grown[k]) /\ Power[k + 1] = f * Power[k]
  <2>1. Max({f, 1}) = f
    BY <1>0, MaxOfTwo
  <2>2. \A k \in 0 .. MaxFailures : Grown[k] = IF k = 0 THEN b ELSE Grow(Grown[k - 1])
    BY Zenon, GrownDef
  <2>3. \A k \in 0 .. MaxFailures : Power[k] = IF k = 0 THEN 1 ELSE f * Power[k - 1]
    BY ZenonT(30), <2>1, PowerDef
  <2>4. ASSUME NEW k \in 0 .. MaxFailures - 1
        PROVE  Grown[k + 1] = Grow(Grown[k]) /\ Power[k + 1] = f * Power[k]
    <3>1. k + 1 \in 0 .. MaxFailures /\ k + 1 # 0 /\ (k + 1) - 1 = k
      BY <1>0
    <3> HIDE DEF b, f, m
    <3> QED
      BY <2>2, <2>3, <3>1
  <2>5. 0 \in 0 .. MaxFailures
    BY <1>0
  <2> QED
    BY <2>2, <2>3, <2>4, <2>5
<1> DEFINE S == {k \in 0 .. MaxFailures :
        /\ Power[k] \in Nat \ {0} /\ Grown[k] \in Int
        /\ b * Power[k] <= m => Grown[k] = b * Power[k]
        /\ b * Power[k] > m => Grown[k] >= m}
<1>2. 0 \in S
  <2> HIDE DEF b, f, m
  <2> QED
    BY <1>0, <1>1
<1>3. ASSUME NEW k \in 0 .. MaxFailures - 1, k \in S PROVE k + 1 \in S
  <2> DEFINE p == b * Power[k]
  <2>1. /\ Power[k] \in Nat \ {0} /\ Grown[k] \in Int
        /\ p <= m => Grown[k] = p
        /\ p > m => Grown[k] >= m
    BY <1>3
  <2>2. Grown[k + 1] = Grow(Grown[k]) /\ Power[k + 1] = f * Power[k] /\ k + 1 \in 0 .. MaxFailures
    BY <1>0, <1>1
  <2>3. Grow(Grown[k]) = IF Grown[k] > m \div f THEN m ELSE Wrap(Grown[k] * f)
    BY DEF Grow
  <2>4. Power[k + 1] \in Nat \ {0} /\ b * Power[k + 1] = p * f /\ p \in Nat \ {0}
    <3> HIDE DEF b, f, m
    <3> QED
      BY <1>0, <2>1, <2>2
  <2> HIDE DEF b, f, m, p
  <2>5. CASE p > m
    <3>1. p * f > m
      BY <1>0, <2>4, <2>5
    <3>2. m > m \div f
      BY <1>0
    <3>3. Grown[k] > m \div f
      BY <1>0, <2>1, <2>5, <3>2
    <3> QED
      BY <1>0, <2>2, <2>3, <2>4, <3>1, <3>3
  <2>6. CASE p <= m /\ p > m \div f
    <3>1. p * f > m
      BY <1>0, <2>4, <2>6, Quotient
    <3> QED
      BY <1>0, <2>1, <2>2, <2>3, <2>4, <2>6, <3>1
  <2>7. CASE p <= m /\ ~(p > m \div f)
    <3>1. p * f <= m /\ p * f \in 0 .. Limit - 1
      <4>1. m \div f \in Int
        BY <1>0
      <4>2. p * f <= m
        BY <1>0, <2>4, <2>7, <4>1, Quotient
      <4> QED
        BY <1>0, <2>4, <4>2
    <3>2. Wrap(p * f) = p * f
      BY <1>0, <3>1, WrapFits DEF Wrap
    <3>3. Grown[k + 1] = p * f
      BY <2>1, <2>2, <2>3, <2>7, <3>2
    <3> QED
      BY <1>0, <2>2, <2>4, <3>1, <3>3
  <2> QED
    BY <1>0, <2>4, <2>5, <2>6, <2>7
<1>4. 0 .. MaxFailures \subseteq S
  <2> HIDE DEF S
  <2> QED
    BY <1>0, <1>2, <1>3, UpTo
<1> QED
  BY <1>4

\* The powers are positive, and all one when the factor does not let them grow.
LEMMA PowerPositive ==
    ASSUME config \in Configs, NEW n \in 0 .. MaxFailures
    PROVE  Power[n] \in Nat \ {0} /\ (config.factor <= 1 => Power[n] = 1)
<1> DEFINE f == Max({config.factor, 1})
           S == {k \in 0 .. MaxFailures : Power[k] \in Nat \ {0} /\ (config.factor <= 1 => Power[k] = 1)}
<1>0. f \in Nat \ {0} /\ (config.factor <= 1 => f = 1) /\ MaxFailures \in Nat \ {0}
  BY MaxOfTwo, ConfigType
<1>1. \A k \in 0 .. MaxFailures : Power[k] = IF k = 0 THEN 1 ELSE f * Power[k - 1]
  BY ZenonT(30), PowerDef
<1> HIDE DEF f
<1>2. 0 \in S
  BY <1>0, <1>1
<1>3. ASSUME NEW k \in 0 .. MaxFailures - 1, k \in S PROVE k + 1 \in S
  <2>1. k + 1 \in 0 .. MaxFailures /\ k + 1 # 0 /\ (k + 1) - 1 = k
    BY <1>0
  <2>2. Power[k + 1] = f * Power[k]
    BY <1>1, <2>1
  <2> QED
    BY <1>0, <1>3, <2>1, <2>2
<1>4. 0 .. MaxFailures \subseteq S
  <2> HIDE DEF S
  <2> QED
    BY <1>0, <1>2, <1>3, UpTo
<1> QED
  BY <1>4

\* delay returns what the configuration promises.
LEMMA DelayIsPromised ==
    ASSUME config \in Configs, NEW n \in 1 .. MaxFailures
    PROVE  Delay(n) = Promised(n) /\ Promised(n) \in Nat
<1> DEFINE b == config.base
           m == config.maxDelay
           i == n - config.tolerance - 1
<1>0. /\ config.tolerance \in Nat /\ config.factor \in Int /\ b \in Int
      /\ m \in Nat /\ MaxFailures \in Nat \ {0}
  BY ConfigType
<1>1. CASE n <= config.tolerance
  BY <1>1 DEF Delay, Promised
<1>2. CASE ~(n <= config.tolerance)
  <2>1. i \in 0 .. MaxFailures
    BY <1>0, <1>2
  <2>2. Power[i] \in Nat \ {0} /\ (config.factor <= 1 => Power[i] = 1)
    BY <2>1, PowerPositive
  <2>3. b * Power[i] \in Int /\ (b <= 0 => b * Power[i] <= 0) /\ (b > 0 => b * Power[i] > 0)
    <3> HIDE DEF b, i
    <3> QED
      BY <1>0, <2>2
  <2>4. Promised(n) = Max({0, Min({b * Power[i], m})})
    BY <1>2 DEF Promised
  <2>5. Promised(n) = IF b * Power[i] <= m THEN (IF 0 >= b * Power[i] THEN 0 ELSE b * Power[i]) ELSE m
    <3> HIDE DEF b, m, i
    <3>1. Min({b * Power[i], m}) = IF b * Power[i] <= m THEN b * Power[i] ELSE m
      BY <1>0, <2>3, MinOfTwo
    <3>2. Min({b * Power[i], m}) \in Int
      BY <1>0, <2>3, <3>1
    <3>3. Promised(n) = IF 0 >= Min({b * Power[i], m}) THEN 0 ELSE Min({b * Power[i], m})
      BY <2>4, <3>2, MaxOfTwo
    <3> QED
      BY <1>0, <2>3, <3>1, <3>3
  <2>6. CASE b <= 0 \/ m <= 0
    <3>1. Delay(n) = 0
      BY <2>6 DEF Delay
    <3> HIDE DEF b, m, i
    <3> QED
      BY <1>0, <2>3, <2>5, <2>6, <3>1
  <2>7. CASE b > 0 /\ m > 0 /\ config.factor <= 1
    <3>1. Delay(n) = Min({b, m})
      BY <1>0, <1>2, <2>7 DEF Delay
    <3>2. Delay(n) = IF b <= m THEN b ELSE m
      BY <1>0, <3>1, MinOfTwo
    <3> HIDE DEF b, m, i
    <3> QED
      BY <1>0, <2>2, <2>5, <2>7, <3>2
  <2>8. CASE b > 0 /\ m > 0 /\ ~(config.factor <= 1)
    <3>1. Delay(n) = Min({Grown[i], m})
      BY <1>0, <1>2, <2>8 DEF Delay
    <3>2. /\ Grown[i] \in Int
          /\ b * Power[i] <= m => Grown[i] = b * Power[i]
          /\ b * Power[i] > m => Grown[i] >= m
      BY <1>0, <2>1, <2>8, LoopComputes
    <3>3. Delay(n) = IF Grown[i] <= m THEN Grown[i] ELSE m
      BY <1>0, <3>1, <3>2, MinOfTwo
    <3> HIDE DEF b, m, i
    <3> QED
      BY <1>0, <2>3, <2>5, <2>8, <3>2, <3>3
  <2> QED
    BY <1>0, <2>6, <2>7, <2>8
<1> QED
  BY <1>1, <1>2

\* The jitter takes off a part of the wait, at most all of it.
LEMMA SpanFits ==
    ASSUME NEW d \in Nat, NEW j \in 0 .. 100
    PROVE  (d * j) \div 100 \in 0 .. d
<1>1. d * j \in Nat /\ d * j <= d * 100
  OBVIOUS
<1>2. \A x \in Nat : x <= d * 100 => x \div 100 \in Nat /\ x \div 100 <= d
  OBVIOUS
<1> QED
  BY <1>1, <1>2

\* No jitter takes a wait out of the range of a Duration.
LEMMA JitterFits ==
    ASSUME config \in Configs, NEW d \in Nat, NEW w \in Jittered(d)
    PROVE  w \in Int /\ d - Span(d) <= w /\ w <= d
<1>1. Min({config.jitter, 100}) \in 0 .. 100
  <2>1. config.jitter \in Nat /\ config.jitter \in Int /\ 100 \in Int
    BY ConfigType
  <2>2. Min({config.jitter, 100}) = IF config.jitter <= 100 THEN config.jitter ELSE 100
    BY <2>1, MinOfTwo
  <2> QED
    BY <2>1, <2>2
<1>2. Span(d) \in 0 .. d
  BY <1>1, SpanFits DEF Span
<1>3. CASE d <= 0 \/ config.jitter <= 0
  <2>1. w = d
    BY <1>3 DEF Jittered
  <2> QED
    BY <1>2, <2>1
<1>4. CASE ~(d <= 0 \/ config.jitter <= 0)
  <2>1. w \in (d - Span(d)) .. d
    BY <1>4 DEF Jittered
  <2> QED
    BY <1>2, <2>1
<1> QED
  BY <1>3, <1>4

\* What an entry waits, and what it takes to tell.
WaitInv ==
    /\ config \in Configs
    /\ dial \in [Dials -> Keys \cup {None}] /\ Tabled \subseteq Keys
    /\ \A k \in Tabled :
        /\ entries[k].failures \in 1 .. MaxFailures
        /\ entries[k].until \in Int
        /\ entries[k].until <= Promised(entries[k].failures)

\* The configuration stays, and so does what it promises.
LEMMA PromiseStays ==
    ASSUME UNCHANGED config
    PROVE  \A n : Promised(n)' = Promised(n)
BY DEF Promised, Power

\* What countFailure writes.
LEMMA FailureWrites ==
    ASSUME WaitInv, NEW k \in Keys, CountFailure(k)
    PROVE  /\ k \in DOMAIN entries' /\ DOMAIN entries' \subseteq Tabled \cup {k}
           /\ \A j \in DOMAIN entries' : j # k => entries'[j] = entries[j]
           /\ entries'[k].failures = IF k \in Tabled /\ ~Decayed(k)
                                     THEN Min({entries[k].failures + 1, MaxFailures}) ELSE 1
           /\ entries'[k].failures \in 1 .. MaxFailures
           /\ entries'[k].until \in Jittered(Delay(entries'[k].failures))
<1>0. MaxFailures \in Nat \ {0}
  BY BackoffAssumption
<1>1. PICK kept \in Kept(k) :
        LET before == IF k \in kept /\ ~Decayed(k) THEN entries[k].failures ELSE 0
            failures == Min({before + 1, MaxFailures})
        IN  \E wait \in Jittered(Delay(failures)) :
                entries' = [j \in kept \cup {k} |->
                    IF j = k THEN [failures |-> failures, until |-> wait] ELSE entries[j]]
  BY ZenonT(30) DEF CountFailure
<1> DEFINE before == IF k \in kept /\ ~Decayed(k) THEN entries[k].failures ELSE 0
           failures == Min({before + 1, MaxFailures})
<1>2. PICK wait \in Jittered(Delay(failures)) :
        entries' = [j \in kept \cup {k} |->
            IF j = k THEN [failures |-> failures, until |-> wait] ELSE entries[j]]
  BY <1>1
<1>3. kept \subseteq Tabled /\ (k \in Tabled => k \in kept)
  BY DEF Kept, Pruned, Soonest
<1>4. before = IF k \in Tabled /\ ~Decayed(k) THEN entries[k].failures ELSE 0
  BY <1>3
<1>5. before \in 0 .. MaxFailures
  BY <1>0, <1>4 DEF WaitInv
<1> HIDE DEF before
<1>6. failures = (IF before + 1 <= MaxFailures THEN before + 1 ELSE MaxFailures)
      /\ failures \in 1 .. MaxFailures
  BY <1>0, <1>5, MinOfTwo
<1>7. failures = IF k \in Tabled /\ ~Decayed(k)
                 THEN Min({entries[k].failures + 1, MaxFailures}) ELSE 1
  <2>1. CASE k \in Tabled /\ ~Decayed(k)
    BY <1>4, <2>1
  <2>2. CASE ~(k \in Tabled /\ ~Decayed(k))
    <3>1. before = 0
      BY <1>4, <2>2
    <3> QED
      BY <1>0, <1>6, <2>2, <3>1
  <2> QED
    BY <2>1, <2>2
<1> HIDE DEF failures
<1>8. entries'[k] = [failures |-> failures, until |-> wait]
  BY <1>2
<1> QED
  BY <1>2, <1>3, <1>6, <1>7, <1>8

\* A key that is dialed is one of the keys.
LEMMA DialedKey ==
    ASSUME WaitInv, NEW d \in Dials, dial[d] # None
    PROVE  dial[d] \in Keys
BY DEF WaitInv

\* Every step keeps it.
LEMMA WaitStep == WaitInv /\ [Next]_vars => WaitInv'
<1> SUFFICES ASSUME WaitInv, [Next]_vars PROVE WaitInv'
  OBVIOUS
<1>0. UNCHANGED config /\ config \in Configs /\ \A n : Promised(n)' = Promised(n)
  <2>1. UNCHANGED config
    BY DEF Next, vars, Tick, DialStarts, DialFails, DialSucceeds, DialCancelled
  <2> QED
    BY <2>1, PromiseStays DEF WaitInv
<1>1. ASSUME NEW d \in Dials, DialFails(d) PROVE WaitInv'
  <2> DEFINE k == dial[d]
  <2>1. k \in Keys /\ CountFailure(k) /\ dial' = [dial EXCEPT ![d] = None]
    BY <1>1, DialedKey DEF DialFails
  <2>2. /\ k \in DOMAIN entries' /\ DOMAIN entries' \subseteq Tabled \cup {k}
        /\ \A j \in DOMAIN entries' : j # k => entries'[j] = entries[j]
        /\ entries'[k].failures \in 1 .. MaxFailures
        /\ entries'[k].until \in Jittered(Delay(entries'[k].failures))
    BY Zenon, <2>1, FailureWrites
  <2>3. /\ Delay(entries'[k].failures) = Promised(entries'[k].failures)
        /\ Promised(entries'[k].failures) \in Nat
    BY <1>0, <2>2, DelayIsPromised
  <2>4. entries'[k].until \in Int /\ entries'[k].until <= Promised(entries'[k].failures)
    BY <1>0, <2>2, <2>3, JitterFits
  <2>5. \A j \in DOMAIN entries' :
            /\ entries'[j].failures \in 1 .. MaxFailures
            /\ entries'[j].until \in Int
            /\ entries'[j].until <= Promised(entries'[j].failures)
    <3> TAKE j \in DOMAIN entries'
    <3>1. CASE j = k
      BY <2>2, <2>4, <3>1
    <3>2. CASE j # k
      BY <2>2, <3>2 DEF WaitInv
    <3> QED
      BY <3>1, <3>2
  <2>6. dial' \in [Dials -> Keys \cup {None}] /\ DOMAIN entries' \subseteq Keys
    BY <2>1, <2>2 DEF WaitInv
  <2> QED
    BY <1>0, <2>5, <2>6 DEF WaitInv, Tabled
<1>2. ASSUME NEW d \in Dials, DialSucceeds(d) PROVE WaitInv'
  <2>1. DOMAIN entries' \subseteq Tabled /\ \A j \in DOMAIN entries' : entries'[j] = entries[j]
    BY <1>2 DEF DialSucceeds, RecordSuccess, Restrict
  <2>2. dial' \in [Dials -> Keys \cup {None}]
    BY <1>2 DEF DialSucceeds, WaitInv
  <2> QED
    BY <1>0, <2>1, <2>2 DEF WaitInv, Tabled
<1>3. ASSUME NEW d \in Dials, DialCancelled(d) \/ \E k \in Keys : DialStarts(d, k) PROVE WaitInv'
  <2>1. UNCHANGED entries /\ dial' \in [Dials -> Keys \cup {None}]
    BY <1>3 DEF DialCancelled, DialStarts, WaitInv
  <2> QED
    BY <1>0, <2>1 DEF WaitInv, Tabled
<1>4. CASE Tick
  <2>1. /\ DOMAIN entries' = Tabled /\ UNCHANGED dial
        /\ \A k \in Tabled :
            /\ entries'[k].failures = entries[k].failures
            /\ entries'[k].until = Max({entries[k].until - 1, -config.maxDelay})
    BY <1>4 DEF Tick
  <2>2. ASSUME NEW k \in Tabled
        PROVE  entries'[k].until \in Int /\ entries'[k].until <= Promised(entries[k].failures)
    <3>1. /\ Promised(entries[k].failures) \in Nat /\ entries[k].until \in Int
          /\ entries[k].until <= Promised(entries[k].failures) /\ config.maxDelay \in Nat
      BY <1>0, DelayIsPromised, ConfigType DEF WaitInv
    <3>2. entries'[k].until = (IF entries[k].until - 1 >= -config.maxDelay
                               THEN entries[k].until - 1 ELSE -config.maxDelay)
      <4>1. entries[k].until - 1 \in Int /\ -config.maxDelay \in Int
        BY <3>1
      <4> QED
        BY ZenonT(30), <2>1, <4>1, MaxOfTwo
    <3> QED
      BY <3>1, <3>2
  <2> QED
    BY Zenon, <1>0, <2>1, <2>2 DEF WaitInv, Tabled
<1>5. CASE UNCHANGED vars
  BY <1>0, <1>5 DEF WaitInv, Tabled, vars
<1> QED
  BY <1>1, <1>2, <1>3, <1>4, <1>5 DEF Next

\* Nothing waits at the start.
LEMMA WaitInit == Init => WaitInv
BY DEF Init, WaitInv, Tabled

\* However attempts fail, succeed, are cancelled and are forced, for every
\* configuration: the table is well typed and within its bound, and no entry
\* waits longer than its failures promise.
THEOREM WellFormedAlways == Spec => []WellFormed
<1>1. WaitInv /\ TableInv => WellFormed
  BY DEF WaitInv, TableInv, WellFormed
<1>2. (Init => WaitInv) /\ (WaitInv /\ [Next]_vars => WaitInv')
  BY WaitInit, WaitStep
<1> QED
  BY <1>1, <1>2, TableInit, TableStep, PTL DEF Spec

\* The delay of delay and jittered is the promised one, less at most the jitter,
\* after every failure and for every base, factor, ceiling and width of Duration:
\* the product never overflows and never stops short of the ceiling.
THEOREM WaitsAsPromisedAlways == Spec => WaitsAsPromised
<1>1. ASSUME WaitInv, NEW d \in Dials, DialFails(d)
      PROVE  LET k == dial[d]
                 e == entries'[k]
                 full == Promised(e.failures)
             IN  /\ full - Span(full) <= e.until /\ e.until <= full
                 /\ e.failures = IF k \in Tabled /\ ~Decayed(k)
                                 THEN Min({entries[k].failures + 1, MaxFailures}) ELSE 1
  <2> DEFINE k == dial[d]
  <2>1. k \in Keys /\ CountFailure(k)
    BY <1>1, DialedKey DEF DialFails
  <2>2. /\ entries'[k].failures = IF k \in Tabled /\ ~Decayed(k)
                                  THEN Min({entries[k].failures + 1, MaxFailures}) ELSE 1
        /\ entries'[k].failures \in 1 .. MaxFailures
        /\ entries'[k].until \in Jittered(Delay(entries'[k].failures))
    BY Zenon, <1>1, <2>1, FailureWrites
  <2>3. /\ Delay(entries'[k].failures) = Promised(entries'[k].failures)
        /\ Promised(entries'[k].failures) \in Nat /\ config \in Configs
    BY <1>1, <2>2, DelayIsPromised DEF WaitInv
  <2>4. /\ Promised(entries'[k].failures) - Span(Promised(entries'[k].failures)) <= entries'[k].until
        /\ entries'[k].until <= Promised(entries'[k].failures)
    BY <2>2, <2>3, JitterFits
  <2> QED
    BY <2>2, <2>4
<1>2. WaitInv /\ [Next]_vars =>
        [\A d \in Dials : DialFails(d) =>
            LET k == dial[d]
                e == entries'[k]
                full == Promised(e.failures)
            IN  /\ full - Span(full) <= e.until /\ e.until <= full
                /\ e.failures = IF k \in Tabled /\ ~Decayed(k)
                                THEN Min({entries[k].failures + 1, MaxFailures}) ELSE 1]_vars
  BY <1>1
<1> QED
  BY <1>2, WaitInit, WaitStep, PTL DEF Spec, WaitsAsPromised
=============================================================================
