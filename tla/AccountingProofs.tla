---------------------------- MODULE AccountingProofs ----------------------------
(***************************************************************************)
(* The tracker implements the budget, for every intensity, backoff, clock  *)
(* and width, as long as the clock reaches back a window (ReachesBack).    *)
(* Delays double, as long as the widths leave room for it (WidthsFit).     *)
(***************************************************************************)
EXTENDS RestartAccounting, SequenceTheorems, FiniteSetTheorems, FunctionTheorems, TLAPS

\* Restarts are recorded in order, none of them in the future.
Ascending ==
  /\ \A i \in DOMAIN granted : granted[i] <= now
  /\ \A i, j \in DOMAIN granted : i <= j => granted[i] <= granted[j]

\* All but the first d of the restarts granted are remembered, and those d have
\* left the window.
Forgets(d) ==
  /\ Len(restart_times) = Len(granted) - d
  /\ \A i \in 1..(Len(granted) - d) : restart_times[i] = granted[d + i]
  /\ \A i \in 1..d : granted[i] < now - intensity.within

Remembers ==
  ~exhausted =>
    /\ Len(restart_times) <= intensity.max_restarts
    /\ \E d \in 0..Len(granted) : Forgets(d)

IInv == TrackerTypes /\ Ascending /\ Remembers /\ WithinBudget

\* The limit in force.
LEMMA Limit ==
  ASSUME IInv
  PROVE  /\ intensity.max_restarts \in Nat /\ intensity.within \in Nat
         /\ ReachesBack => Cutoff = now - intensity.within
<1>1. intensity \in [max_restarts : Nat, within : Nat]
  BY LimitsAssumption DEF IInv, TrackerTypes
<1>2. now \in Int /\ Start \in Int /\ Earliest \in Int /\ now >= Start
  BY ClockAssumption DEF IInv, TrackerTypes
<1>3. ReachesBack => Start - intensity.within >= Earliest
  BY DEF ReachesBack, IInv, TrackerTypes
<1> QED BY <1>1, <1>2, <1>3 DEF Cutoff

\* After a restart was recorded the tracker holds the present and exactly the
\* restarts of the window.
LEMMA Recorded ==
  ASSUME ReachesBack, IInv, ~exhausted, RecordRestart
  PROVE  \E e \in 0..Len(granted) :
           /\ restart_times' \in Seq(Int)
           /\ Len(restart_times') = Len(granted) - e + 1
           /\ \A i \in 1..(Len(granted) - e) : restart_times'[i] = granted[e + i]
           /\ restart_times'[Len(granted) - e + 1] = now
           /\ \A i \in 1..e : granted[i] < now - intensity.within
           /\ \A i \in (e + 1)..Len(granted) : granted[i] >= now - intensity.within
<1> DEFINE n == Len(granted)
           m == Len(restart_times)
<1>1. /\ granted \in Seq(Int) /\ n \in Nat /\ DOMAIN granted = 1..n
      /\ restart_times \in Seq(Int) /\ m \in Nat /\ DOMAIN restart_times = 1..m
      /\ now \in Int /\ intensity.within \in Nat
      /\ Cutoff = now - intensity.within
      /\ \A i \in 1..n : granted[i] \in Int
  BY Limit, LenProperties, ElementOfSeq DEF IInv, TrackerTypes
<1>2. PICK d \in 0..n : Forgets(d)
  BY DEF IInv, Remembers
<1>3. PICK k \in 0..m :
        /\ \A i \in 1..k : restart_times[i] < Cutoff
        /\ k < m => restart_times[k + 1] >= Cutoff
        /\ restart_times' = Append(SubSeq(restart_times, k + 1, m), now)
  BY DEF RecordRestart
<1> DEFINE e == d + k
           r == SubSeq(restart_times, k + 1, m)
<1>4. m = n - d /\ e \in 0..n /\ d \in Nat /\ k \in Nat
  BY <1>1, <1>2, <1>3 DEF Forgets
<1>5. r \in Seq(Int) /\ Len(r) = n - e /\ \A i \in 1..(n - e) : r[i] = restart_times[k + i]
  <2>1. k + 1 \in Int /\ m \in Int /\ \A i \in (k + 1)..m : restart_times[i] \in Int
    BY <1>1, <1>4, ElementOfSeq
  <2>2. /\ r \in Seq(Int)
        /\ Len(r) = IF k + 1 <= m THEN m - (k + 1) + 1 ELSE 0
        /\ \A i \in 1..(m - (k + 1) + 1) : r[i] = restart_times[k + 1 + i - 1]
    BY <2>1, SubSeqProperties
  <2>3. n - e = m - (k + 1) + 1 /\ \A i \in 1..(n - e) : k + 1 + i - 1 = k + i
    BY <1>1, <1>3, <1>4
  <2>4. Len(r) = n - e
    <3>1. k \in Int /\ m \in Int /\ k <= m /\ n - e = m - k
      BY <1>1, <1>4
    <3>2. k + 1 <= m => m - (k + 1) + 1 = m - k
      BY <3>1
    <3>3. ~(k + 1 <= m) => 0 = m - k
      BY <3>1
    <3> HIDE DEF r, e, n, m
    <3> QED BY <2>2, <3>1, <3>2, <3>3
  <2> QED BY <2>2, <2>3, <2>4
<1>6. /\ restart_times' \in Seq(Int) /\ Len(restart_times') = n - e + 1
      /\ \A i \in 1..(n - e) : restart_times'[i] = r[i]
      /\ restart_times'[n - e + 1] = now
  <2>1. restart_times' = Append(r, now)
    BY <1>3
  <2> HIDE DEF r
  <2>2. /\ Append(r, now) \in Seq(Int) /\ Len(Append(r, now)) = Len(r) + 1
        /\ \A i \in 1..Len(r) : Append(r, now)[i] = r[i]
        /\ Append(r, now)[Len(r) + 1] = now
    BY <1>1, <1>5, AppendProperties
  <2> QED BY <1>5, <2>1, <2>2
<1>7. \A i \in 1..(n - e) : restart_times'[i] = granted[e + i]
  <2> TAKE i \in 1..(n - e)
  <2>1. k + i \in 1..(n - d) /\ d + (k + i) = e + i
    BY <1>1, <1>4
  <2> QED BY <1>2, <1>5, <1>6, <2>1 DEF Forgets
<1>8. \A i \in 1..e : granted[i] < now - intensity.within
  <2> TAKE i \in 1..e
  <2>1. CASE i <= d
    BY <1>2, <1>4, <2>1 DEF Forgets
  <2>2. CASE i > d
    <3>1. i - d \in 1..k /\ i - d \in 1..(n - d) /\ d + (i - d) = i
      BY <1>1, <1>4, <2>2
    <3>2. restart_times[i - d] = granted[i]
      BY <1>2, <3>1 DEF Forgets
    <3> QED BY <1>1, <1>3, <3>1, <3>2
  <2> QED BY <1>4, <2>1, <2>2
<1>9. \A i \in (e + 1)..n : granted[i] >= now - intensity.within
  <2> TAKE i \in (e + 1)..n
  <2>1. k < m /\ k + 1 \in 1..(n - d) /\ e + 1 \in 1..n /\ i \in 1..n /\ d + (k + 1) = e + 1
    <3>1. m \in Int /\ d \in Int /\ k \in Int /\ n \in Int /\ k >= 0 /\ d >= 0
      BY <1>1, <1>4
    <3>2. i \in Int /\ d + k + 1 <= i /\ i <= n /\ m = n - d
      BY <1>4, <3>1
    <3> HIDE DEF n, m
    <3> QED BY <3>1, <3>2
  <2>2. granted[e + 1] >= now - intensity.within
    BY <1>1, <1>2, <1>3, <2>1 DEF Forgets
  <2>3. granted[e + 1] <= granted[i]
    <3>1. e + 1 \in DOMAIN granted /\ i \in DOMAIN granted /\ e + 1 <= i
      BY <1>1, <1>4, <2>1
    <3>2. \A a, b \in DOMAIN granted : a <= b => granted[a] <= granted[b]
      BY DEF IInv, Ascending
    <3> HIDE DEF e
    <3> QED BY <3>1, <3>2
  <2> QED BY <1>1, <2>1, <2>2, <2>3
<1> HIDE DEF e, r
<1> QED BY <1>4, <1>6, <1>7, <1>8, <1>9

\* The invariant holds at first.
LEMMA InitBudget == Init => IInv
<1> SUFFICES ASSUME Init PROVE IInv
  OBVIOUS
<1>1. TrackerTypes
  <2>1. <<>> \in Seq(Int)
    BY EmptySeq
  <2>2. now \in Start..Latest
    BY ClockAssumption DEF Init
  <2> QED BY <2>1, <2>2 DEF Init, TrackerTypes
<1>2. intensity.max_restarts \in Nat /\ intensity.within \in Nat
  BY <1>1, LimitsAssumption DEF TrackerTypes
<1>3. Len(granted) = 0 /\ Len(restart_times) = 0 /\ DOMAIN granted = {}
  BY DEF Init
<1>4. Ascending /\ WithinBudget
  BY <1>3 DEF Ascending, WithinBudget
<1>5. Forgets(0)
  BY <1>3 DEF Forgets
<1>6. Remembers
  BY <1>2, <1>3, <1>5 DEF Remembers
<1> QED BY <1>1, <1>4, <1>6 DEF IInv

\* A restart that is granted is the first of its window beyond which none of the
\* max_restarts before it lies.
LEMMA RestartKeeps ==
  ASSUME ReachesBack, IInv, NEW id \in Id, Restart(id)
  PROVE  IInv'
<1> DEFINE n == Len(granted)
           max == intensity.max_restarts
           within == intensity.within
<1>1. /\ granted \in Seq(Int) /\ n \in Nat /\ DOMAIN granted = 1..n
      /\ now \in Int /\ now' = now /\ intensity' = intensity
      /\ max \in Nat /\ within \in Nat
      /\ \A i \in 1..n : granted[i] \in Int
      /\ ~exhausted /\ exhausted' = exhausted
  BY Limit, LenProperties, ElementOfSeq DEF IInv, TrackerTypes, Restart
<1>2. PICK e \in 0..n :
        /\ restart_times' \in Seq(Int)
        /\ Len(restart_times') = n - e + 1
        /\ \A i \in 1..(n - e) : restart_times'[i] = granted[e + i]
        /\ restart_times'[n - e + 1] = now
        /\ \A i \in 1..e : granted[i] < now - within
  BY Recorded DEF Restart
<1>3. Len(restart_times') <= max
  BY <1>1, <1>2 DEF Restart, Exceeded
<1>4. /\ granted' \in Seq(Int) /\ Len(granted') = n + 1 /\ DOMAIN granted' = 1..(n + 1)
      /\ \A i \in 1..n : granted'[i] = granted[i]
      /\ granted'[n + 1] = now
  BY <1>1, AppendProperties, LenProperties DEF Restart
<1>5. TrackerTypes'
  BY <1>1, <1>2, <1>4 DEF IInv, TrackerTypes
<1>6. Ascending'
  <2>1. ASSUME NEW i \in 1..(n + 1)
        PROVE  granted'[i] <= now
    <3>1. CASE i = n + 1
      BY <1>1, <1>4, <3>1
    <3>2. CASE i # n + 1
      <4>1. i \in 1..n
        BY <1>1, <3>2
      <4>2. granted[i] <= now
        BY <1>1, <4>1 DEF IInv, Ascending
      <4> QED BY <1>4, <4>1, <4>2
    <3> QED BY <3>1, <3>2
  <2>2. ASSUME NEW i \in 1..(n + 1), NEW j \in 1..(n + 1), i <= j
        PROVE  granted'[i] <= granted'[j]
    <3>1. CASE j = n + 1
      BY <1>4, <2>1, <3>1
    <3>2. CASE j # n + 1
      <4>1. i \in 1..n /\ j \in 1..n
        BY <1>1, <2>2, <3>2
      <4> QED BY <1>1, <1>4, <2>2, <4>1 DEF IInv, Ascending
    <3> QED BY <3>1, <3>2
  <2> QED BY <1>1, <1>4, <2>1, <2>2 DEF Ascending
<1>7. Forgets(e)'
  <2>1. \A i \in 1..(n + 1 - e) : restart_times'[i] = granted'[e + i]
    <3> TAKE i \in 1..(n + 1 - e)
    <3>1. CASE i = n + 1 - e
      <4>1. e + i = n + 1 /\ i = n - e + 1
        BY <1>1, <3>1
      <4> QED BY <1>2, <1>4, <4>1
    <3>2. CASE i # n + 1 - e
      <4>1. i \in 1..(n - e) /\ e + i \in 1..n
        BY <1>1, <3>2
      <4> QED BY <1>2, <1>4, <4>1
    <3> QED BY <3>1, <3>2
  <2>2. \A i \in 1..e : granted'[i] < now - within
    BY <1>1, <1>2, <1>4
  <2>3. Len(restart_times') = Len(granted') - e
    BY <1>1, <1>2, <1>4
  <2> QED BY <1>1, <1>4, <2>1, <2>2, <2>3 DEF Forgets
<1>8. Remembers'
  <2>1. e \in 0..Len(granted')
    BY <1>1, <1>4
  <2> QED BY <1>1, <1>3, <1>7, <2>1 DEF Remembers
<1>9. WithinBudget'
  <2> SUFFICES ASSUME NEW i \in 1..(n + 1), i + max \in 1..(n + 1)
               PROVE  granted'[i + max] - granted'[i] > within
    BY <1>1, <1>4 DEF WithinBudget
  <2>1. CASE i + max \in 1..n
    <3>1. i \in 1..n
      BY <1>1, <2>1
    <3> QED BY <1>1, <1>4, <2>1, <3>1 DEF IInv, WithinBudget
  <2>2. CASE i + max = n + 1
    <3>1. i \in Int /\ n - e + 1 <= max
      BY <1>1, <1>2, <1>3
    <3>2. i <= e /\ i >= 1 /\ i <= n
      BY <1>1, <2>2, <3>1
    <3>3. i \in 1..e /\ i \in 1..n
      BY <1>1, <3>1, <3>2
    <3>4. granted'[i + max] = now /\ granted'[i] = granted[i]
      BY <1>4, <2>2, <3>3
    <3>5. granted[i] < now - within /\ granted[i] \in Int
      BY <1>1, <1>2, <3>3
    <3>6. \A g \in Int : g < now - within => now - g > within
      BY <1>1
    <3> QED BY <3>4, <3>5, <3>6
  <2> QED BY <1>1, <2>1, <2>2
<1> QED BY <1>5, <1>6, <1>8, <1>9 DEF IInv

\* Every step keeps the invariant.
LEMMA NextBudget == ReachesBack /\ IInv /\ [Next]_vars => IInv'
<1> SUFFICES ASSUME ReachesBack, IInv, [Next]_vars PROVE IInv'
  OBVIOUS
<1>1. ASSUME NEW id \in Id, Restart(id) PROVE IInv'
  BY <1>1, RestartKeeps
<1>2. ASSUME NEW id \in Id, reset_child(id) PROVE IInv'
  BY <1>2 DEF reset_child, IInv, TrackerTypes, Ascending, Remembers, Forgets, WithinBudget
<1>3. CASE Escalate
  <2>1. restart_times' \in Seq(Int)
    BY <1>3, Recorded DEF Escalate
  <2> QED BY <1>3, <2>1
        DEF Escalate, IInv, TrackerTypes, Ascending, Remembers, WithinBudget
<1>4. CASE Tick
  <2>1. /\ now \in Int /\ Start \in Int /\ now' = now + 1
        /\ intensity' = intensity /\ intensity.within \in Nat
        /\ UNCHANGED <<restart_times, exhausted, granted>>
    BY <1>4, ClockAssumption, Limit DEF Tick, IInv, TrackerTypes
  <2>2. granted \in Seq(Int) /\ Len(granted) \in Nat /\ DOMAIN granted = 1..Len(granted)
        /\ \A i \in 1..Len(granted) : granted[i] \in Int
    BY LenProperties, ElementOfSeq DEF IInv, TrackerTypes
  <2>3. TrackerTypes' /\ WithinBudget'
    <3>1. now' \in Start..Latest
      BY <1>4, ClockAssumption DEF Tick, IInv, TrackerTypes
    <3> QED BY <2>1, <3>1 DEF IInv, TrackerTypes, WithinBudget
  <2>4. Ascending'
    BY <2>1, <2>2 DEF IInv, Ascending
  <2>5. \A d \in 0..Len(granted) : Forgets(d) => Forgets(d)'
    BY <2>1, <2>2 DEF Forgets
  <2>6. Remembers'
    BY <2>1, <2>5 DEF IInv, Remembers
  <2> QED BY <2>3, <2>4, <2>6 DEF IInv
<1>5. CASE UNCHANGED vars
  BY <1>5 DEF vars, IInv, TrackerTypes, Ascending, Remembers, Forgets, WithinBudget
<1> QED BY <1>1, <1>2, <1>3, <1>4, <1>5 DEF Next

\* Of any max_restarts + 1 restarts the last comes more than a window after the
\* first, whatever the intensity (RestartTracker::record_restart).
THEOREM BudgetKept == ReachesBack /\ Spec => []WithinBudget
<1> SUFFICES ASSUME ReachesBack PROVE Spec => []WithinBudget
  OBVIOUS
<1>1. IInv /\ [Next]_vars => IInv'
  BY NextBudget
<1>2. IInv => WithinBudget
  BY DEF IInv
<1> QED BY InitBudget, <1>1, <1>2, PTL DEF Spec

\* The budget counts as this module does.
LEMMA SameCardinality == \A S : Budget!Cardinality(S) = Cardinality(S)
BY DEF Budget!Cardinality, Cardinality

\* The restarts of the window, counted.
LEMMA Counted ==
  ASSUME ReachesBack, IInv, ~exhausted, RecordRestart
  PROVE  /\ Cardinality(Budget!InWindow) \in Nat
         /\ Len(restart_times') = Cardinality(Budget!InWindow) + 1
<1> DEFINE n == Len(granted)
<1>1. n \in Nat /\ DOMAIN granted = 1..n /\ now \in Int /\ intensity.within \in Nat
      /\ \A i \in 1..n : granted[i] \in Int
  BY Limit, LenProperties, ElementOfSeq DEF IInv, TrackerTypes
<1>2. PICK e \in 0..n :
        /\ Len(restart_times') = n - e + 1
        /\ \A i \in 1..e : granted[i] < now - intensity.within
        /\ \A i \in (e + 1)..n : granted[i] >= now - intensity.within
  BY Recorded
<1>3. Budget!InWindow = (e + 1)..n
  BY <1>1, <1>2 DEF Budget!InWindow
<1>4. Cardinality((e + 1)..n) = n - e
  <2>1. e + 1 \in Int /\ n \in Int
    BY <1>1
  <2>2. Cardinality((e + 1)..n) = IF e + 1 > n THEN 0 ELSE n - (e + 1) + 1
    BY <2>1, FS_Interval
  <2> QED BY <1>1, <2>2
<1> QED BY <1>1, <1>2, <1>3, <1>4

\* A step of the bookkeeping is a step of the budget, or none.
LEMMA StepImplements ==
  ASSUME ReachesBack, IInv, [Next]_vars
  PROVE  [Budget!Next]_(Budget!vars)
<1>1. intensity.max_restarts \in Nat
  BY Limit
<1>2. ASSUME NEW id \in Id, Restart(id) PROVE Budget!Grant
  <2>1. ~exhausted /\ RecordRestart /\ ~(Len(restart_times') > intensity'.max_restarts)
        /\ UNCHANGED <<intensity, now, exhausted>> /\ granted' = Append(granted, now)
    BY <1>2 DEF Restart, Exceeded
  <2>2. Cardinality(Budget!InWindow) < intensity.max_restarts
    BY <1>1, <2>1, Counted
  <2> QED BY <2>1, <2>2, SameCardinality DEF Budget!Grant
<1>3. CASE Escalate
  <2>1. ~exhausted /\ RecordRestart /\ Len(restart_times') > intensity'.max_restarts
        /\ UNCHANGED <<intensity, now, granted>> /\ exhausted' = TRUE
    BY <1>3 DEF Escalate, Exceeded
  <2>2. Cardinality(Budget!InWindow) >= intensity.max_restarts
    BY <1>1, <2>1, Counted
  <2> QED BY <2>1, <2>2, SameCardinality DEF Budget!Refuse, Budget!Next
<1>4. CASE Tick
  <2>1. now \in Int /\ now' = now + 1 /\ UNCHANGED <<intensity, granted, exhausted>>
    BY <1>4 DEF Tick, IInv, TrackerTypes
  <2> QED BY <2>1 DEF Budget!TimePasses, Budget!Next
<1>5. ASSUME NEW id \in Id, reset_child(id) PROVE UNCHANGED Budget!vars
  BY <1>5 DEF reset_child, Budget!vars
<1>6. CASE UNCHANGED vars
  BY <1>6 DEF vars, Budget!vars
<1> QED BY <1>2, <1>3, <1>4, <1>5, <1>6 DEF Next, Budget!Next

\* The tracker, which forgets, implements the budget, which does not: it grants
\* and refuses the same restarts (decide_restart, record_restart).
THEOREM TrackerImplements == ReachesBack /\ Spec => ImplementsBudget
<1> SUFFICES ASSUME ReachesBack PROVE Spec => ImplementsBudget
  OBVIOUS
<1>1. IInv /\ [Next]_vars => IInv'
  BY NextBudget
<1>2. IInv /\ [Next]_vars => [Budget!Next]_(Budget!vars)
  BY StepImplements
<1>3. Init => Budget!Init
  BY ClockAssumption DEF Init, Budget!Init
<1> QED BY InitBudget, <1>1, <1>2, <1>3, PTL DEF Spec, ImplementsBudget, Budget!Spec

(***************************************************************************)
(* BackoffTracker: no width is left, and delays double all the same.  The  *)
(* provers know nothing of powers of two, but the library counts subsets.  *)
(***************************************************************************)

\* A set of n + 1 elements has twice as many subsets as one of n.
LEMMA SubsetsDouble ==
  ASSUME NEW S, IsFiniteSet(S), NEW x, x \notin S
  PROVE  Cardinality(SUBSET (S \cup {x})) = 2 * Cardinality(SUBSET S)
<1> DEFINE A == SUBSET S
           B == {T \cup {x} : T \in SUBSET S}
           f == [T \in A |-> T \cup {x}]
<1>1. IsFiniteSet(A) /\ Cardinality(A) \in Nat
  BY FS_SUBSET, FS_CardinalityType
<1>2. f \in Bijection(A, B)
  <2>1. f \in [A -> B]
    OBVIOUS
  <2>2. ASSUME NEW T \in A, NEW U \in A, f[T] = f[U] PROVE T = U
    <3>1. T \cup {x} = U \cup {x} /\ x \notin T /\ x \notin U
      BY <2>2
    <3> HIDE DEF f
    <3> QED BY <3>1, Zenon
  <2>3. \A V \in B : \E T \in A : f[T] = V
    OBVIOUS
  <2> HIDE DEF f, A, B
  <2> QED BY <2>1, <2>2, <2>3, Fun_IsBij
<1>3. IsFiniteSet(B) /\ Cardinality(B) = Cardinality(A)
  <2> HIDE DEF f, A, B
  <2> QED BY <1>1, <1>2, FS_Bijection DEF ExistsBijection
<1>4. SUBSET (S \cup {x}) = A \cup B
  <2>1. ASSUME NEW V \in SUBSET (S \cup {x}) PROVE V \in A \cup B
    <3>1. CASE x \in V
      <4>1. V \ {x} \in SUBSET S /\ V = (V \ {x}) \cup {x}
        BY <2>1, <3>1
      <4> QED BY <4>1, Zenon
    <3>2. CASE x \notin V
      BY <2>1, <3>2
    <3> QED BY <3>1, <3>2
  <2> QED BY <2>1
<1>5. A \cap B = {}
  <2>1. \A T \in A : x \notin T
    OBVIOUS
  <2>2. \A T \in B : x \in T
    OBVIOUS
  <2> HIDE DEF A, B
  <2> QED BY <2>1, <2>2
<1>6. Cardinality(A \cup B) = Cardinality(A) + Cardinality(B) - Cardinality(A \cap B)
  <2> HIDE DEF A, B
  <2> QED BY <1>1, <1>3, FS_Union
<1> HIDE DEF A, B
<1>7. Cardinality(A \cap B) = 0
  BY <1>5, FS_EmptySet
<1>8. Cardinality(SUBSET (S \cup {x})) = Cardinality(A) + Cardinality(A)
  <2>1. Cardinality(SUBSET (S \cup {x})) = Cardinality(A \cup B)
    BY <1>4, Zenon
  <2>2. Cardinality(A \cup B) = Cardinality(A) + Cardinality(A) - 0
    BY <1>3, <1>6, <1>7, Zenon
  <2> QED BY <1>1, <2>1, <2>2
<1>9. Cardinality(A) + Cardinality(A) = 2 * Cardinality(A)
  BY <1>1
<1> QED BY <1>8, <1>9 DEF A

\* What the shift relies on.
LEMMA PowersOfTwo ==
  /\ 2 ^ 0 = 1
  /\ \A n \in Nat : 2 ^ n \in Nat /\ 2 ^ n >= 1 /\ 2 ^ (n + 1) = 2 * 2 ^ n
<1>1. ASSUME NEW n \in Nat
      PROVE  /\ IsFiniteSet(1..n) /\ Cardinality(1..n) = n
             /\ IsFiniteSet(SUBSET (1..n))
             /\ Cardinality(SUBSET (1..n)) = 2 ^ n /\ 2 ^ n \in Nat
  <2>1. IsFiniteSet(1..n) /\ Cardinality(1..n) = n
    BY FS_Interval
  <2> QED BY <2>1, FS_SUBSET, FS_CardinalityType
<1>2. 2 ^ 0 = 1
  <2>1. SUBSET (1..0) = {{}}
    OBVIOUS
  <2> QED BY <1>1, <2>1, FS_Singleton
<1>3. ASSUME NEW n \in Nat
      PROVE  2 ^ n \in Nat /\ 2 ^ n >= 1 /\ 2 ^ (n + 1) = 2 * 2 ^ n
  <2>1. n + 1 \in Nat /\ n + 1 \notin 1..n /\ 1..(n + 1) = (1..n) \cup {n + 1}
    OBVIOUS
  <2>2. Cardinality(SUBSET (1..(n + 1))) = 2 * Cardinality(SUBSET (1..n))
    BY <1>1, <2>1, SubsetsDouble
  <2>3. 2 ^ n \in Nat /\ Cardinality(SUBSET (1..n)) = 2 ^ n
    BY <1>1
  <2>4. Cardinality(SUBSET (1..(n + 1))) = 2 ^ (n + 1)
    BY <1>1, <2>1
  <2>5. 2 ^ n # 0
    <3>1. SUBSET (1..n) # {}
      OBVIOUS
    <3> QED BY <1>1, <2>3, <3>1, FS_EmptySet
  <2> QED BY <2>2, <2>3, <2>4, <2>5
<1> QED BY <1>2, <1>3

\* The widths, the clock and the delays chosen from.
LEMMA Widths ==
  ASSUME TypeOK
  PROVE  /\ ShiftBits \in Nat /\ FactorMax \in Nat /\ AttemptsMax \in Nat /\ DurationMax \in Nat
         /\ Start \in Int /\ Latest \in Int /\ now \in Int /\ Start <= now /\ now <= Latest
         /\ backoff.initial_delay \in 0..DurationMax /\ backoff.max_delay \in 0..DurationMax
BY LimitsAssumption, ClockAssumption, WidthsAssumption
   DEF TypeOK, TrackerTypes, BackoffTypes

LEMMA FactorIsNat ==
  ASSUME NEW a \in Nat, WidthsAssumption
  PROVE  Factor(a) \in Nat
<1>1. 2 ^ a \in Nat /\ FactorMax \in Nat
  BY PowersOfTwo, WidthsAssumption
<1> HIDE DEF WidthsAssumption
<1> QED BY <1>1 DEF Factor, Minimum

\* No delay exceeds the ceiling, and none is negative.
LEMMA DelayBounded ==
  ASSUME TypeOK, NEW a \in Nat
  PROVE  /\ delay_for_attempt(a) \in 0..backoff.max_delay
         /\ backoff.initial_delay * Factor(a) \in Nat
         /\ delay_for_attempt(a)
              = Minimum(backoff.initial_delay * Factor(a), backoff.max_delay)
<1> DEFINE p == backoff.initial_delay * Factor(a)
<1>1. p \in Nat
  <2>1. Factor(a) \in Nat /\ backoff.initial_delay \in Nat
    BY FactorIsNat, WidthsAssumption, Widths
  <2> QED BY <2>1
<1>2. DurationMax \in Nat /\ backoff.max_delay \in 0..DurationMax
  BY Widths
<1>3. delay_for_attempt(a) = IF p <= DurationMax THEN Minimum(p, backoff.max_delay)
                             ELSE backoff.max_delay
  BY DEF delay_for_attempt
<1> HIDE DEF p
<1>4. /\ delay_for_attempt(a) \in 0..backoff.max_delay
      /\ delay_for_attempt(a) = Minimum(p, backoff.max_delay)
  BY <1>1, <1>2, <1>3 DEF Minimum
<1> QED BY <1>1, <1>4 DEF p

\* Which attempt the next delay is for fits the width of the count.
LEMMA AttemptFits ==
  ASSUME TypeOK, NEW id \in Id
  PROVE  Attempt(id) \in 0..AttemptsMax
<1>1. AttemptsMax \in Nat
  BY Widths
<1>2. \A i \in DOMAIN state : state[i].attempts \in 0..AttemptsMax
  BY DEF TypeOK, BackoffTypes
<1> QED BY <1>1, <1>2 DEF Attempt

LEMMA InitTypes == Init => TypeOK
<1> SUFFICES ASSUME Init PROVE TypeOK
  OBVIOUS
<1>1. now \in Start..Latest
  BY ClockAssumption DEF Init
<1>2. restart_times \in Seq(Int) /\ granted \in Seq(Int)
  BY EmptySeq DEF Init
<1>3. DOMAIN state = {}
  BY DEF Init
<1> QED BY <1>1, <1>2, <1>3 DEF Init, TypeOK, TrackerTypes, BackoffTypes

LEMMA NextTypes == TypeOK /\ [Next]_vars => TypeOK'
<1> SUFFICES ASSUME TypeOK, [Next]_vars PROVE TypeOK'
  OBVIOUS
<1>1. ASSUME RecordRestart PROVE restart_times' \in Seq(Int)
  <2>1. restart_times \in Seq(Int) /\ now \in Int /\ Len(restart_times) \in Nat
    BY Widths, LenProperties DEF TypeOK, TrackerTypes
  <2>2. PICK k \in 0..Len(restart_times) :
          restart_times' = Append(SubSeq(restart_times, k + 1, Len(restart_times)), now)
    BY <1>1 DEF RecordRestart
  <2>3. \A i \in (k + 1)..Len(restart_times) : restart_times[i] \in Int
    BY <2>1, ElementOfSeq
  <2>4. SubSeq(restart_times, k + 1, Len(restart_times)) \in Seq(Int)
    BY <2>1, <2>2, <2>3, SubSeqProperties
  <2> QED BY <2>1, <2>2, <2>4, AppendProperties
<1>2. ASSUME NEW id \in Id, Restart(id) PROVE TypeOK'
  <2>1. granted' \in Seq(Int)
    BY <1>2, Widths, AppendProperties DEF Restart, TypeOK, TrackerTypes
  <2>2. TrackerTypes'
    BY <1>1, <1>2, <2>1 DEF Restart, TypeOK, TrackerTypes
  <2> DEFINE a == Attempt(id)
             d == delay_for_attempt(a)
             entry == [attempts |-> Minimum(a + 1, AttemptsMax),
                       started_at |-> IF now + d <= Latest THEN now + d ELSE now]
  <2>3. state' = With(state, id, entry)
    BY <1>2 DEF Restart, next_delay
  <2>4. a \in 0..AttemptsMax /\ AttemptsMax \in Nat
    BY AttemptFits, Widths
  <2>5. d \in Nat
    BY <2>4, DelayBounded, Widths
  <2>6. /\ Start \in Int /\ Latest \in Int /\ now \in Int /\ Start <= now /\ now <= Latest
    BY Widths
  <2>7. entry \in [attempts : 0..AttemptsMax, started_at : Start..Latest]
    <3> HIDE DEF a, d
    <3>1. Minimum(a + 1, AttemptsMax) \in 0..AttemptsMax
      BY <2>4 DEF Minimum
    <3>2. (IF now + d <= Latest THEN now + d ELSE now) \in Start..Latest
      BY <2>5, <2>6
    <3> QED BY <3>1, <3>2
  <2> HIDE DEF entry
  <2>8. BackoffTypes'
    <3>1. backoff' = backoff /\ DOMAIN state \subseteq Id
      BY <1>2 DEF Restart, TypeOK, BackoffTypes
    <3>2. DOMAIN state' \subseteq Id
      BY <2>3, <3>1 DEF With
    <3>3. ASSUME NEW i \in DOMAIN state'
          PROVE  state'[i] \in [attempts : 0..AttemptsMax, started_at : Start..Latest]
      <4>1. CASE i = id
        BY <2>3, <2>7, <4>1 DEF With
      <4>2. CASE i # id
        <5>1. i \in DOMAIN state /\ state'[i] = state[i]
          BY <2>3, <3>3, <4>2 DEF With
        <5> QED BY <5>1 DEF TypeOK, BackoffTypes
      <4> QED BY <4>1, <4>2
    <3> QED BY <3>1, <3>2, <3>3 DEF TypeOK, BackoffTypes
  <2> QED BY <2>2, <2>8 DEF TypeOK
<1>3. ASSUME NEW id \in Id, reset_child(id) PROVE TypeOK'
  <2>1. TrackerTypes' /\ state' = Without(state, id) /\ backoff' = backoff
    BY <1>3 DEF reset_child, TypeOK, TrackerTypes
  <2>2. \A i \in DOMAIN state' : i \in DOMAIN state /\ state'[i] = state[i]
    BY <2>1 DEF Without
  <2> QED BY <2>1, <2>2 DEF TypeOK, BackoffTypes
<1>4. CASE Escalate
  BY <1>1, <1>4 DEF Escalate, TypeOK, TrackerTypes, BackoffTypes
<1>5. CASE Tick
  <2>1. now' \in Start..Latest
    BY <1>5, Widths DEF Tick
  <2> QED BY <1>5, <2>1 DEF Tick, TypeOK, TrackerTypes, BackoffTypes
<1>6. CASE UNCHANGED vars
  BY <1>6 DEF vars, TypeOK, TrackerTypes, BackoffTypes
<1> QED BY <1>2, <1>3, <1>4, <1>5, <1>6 DEF Next

\* No count of attempts and no instant leaves its width, whatever the widths
\* (saturating_add and checked_add in BackoffTracker::next_delay).
THEOREM WidthsHold == Spec => []TypeOK
BY InitTypes, NextTypes, PTL DEF Spec

\* The next delay of a child that fails again at once is twice the last one, up
\* to the ceiling, whatever saturates on the way.
LEMMA DelayDoubles ==
  ASSUME TypeOK, WidthsFit, NEW a \in 0..AttemptsMax,
         backoff.initial_delay * FactorMax >= backoff.max_delay
  PROVE  delay_for_attempt(Minimum(a + 1, AttemptsMax))
           = Minimum(backoff.max_delay, 2 * delay_for_attempt(a))
<1> DEFINE i == backoff.initial_delay
           max == backoff.max_delay
           b == Minimum(a + 1, AttemptsMax)
           Y == i * FactorMax
<1>1. /\ i \in Nat /\ max \in Nat /\ FactorMax \in Nat /\ ShiftBits \in Nat
      /\ AttemptsMax \in Nat /\ Y \in Nat /\ Y >= max /\ a \in Nat
      /\ b \in Nat /\ b = IF a + 1 <= AttemptsMax THEN a + 1 ELSE AttemptsMax
  <2>1. i \in Nat /\ max \in Nat /\ FactorMax \in Nat /\ AttemptsMax \in Nat /\ a \in Nat
        /\ ShiftBits \in Nat
    BY Widths
  <2>2. b \in Nat /\ b = IF a + 1 <= AttemptsMax THEN a + 1 ELSE AttemptsMax
    BY <2>1 DEF Minimum
  <2> QED BY <2>1, <2>2
<1>2. /\ delay_for_attempt(a) = Minimum(i * Factor(a), max)
      /\ delay_for_attempt(b) = Minimum(i * Factor(b), max)
  BY <1>1, DelayBounded
<1>3. ShiftBits <= AttemptsMax /\ FactorMax <= 2 ^ ShiftBits
  BY DEF WidthsFit
<1> HIDE DEF i, max, b, Y
<1>4. CASE a >= ShiftBits
  <2>1. b >= ShiftBits
    BY <1>1, <1>3, <1>4
  <2>2. Factor(a) = FactorMax /\ Factor(b) = FactorMax
    BY <1>1, <1>4, <2>1 DEF Factor
  <2>3. i * Factor(a) = Y /\ i * Factor(b) = Y
    BY <2>2 DEF Y
  <2> QED BY <1>1, <1>2, <2>3 DEF Minimum, max, b
<1>5. CASE a < ShiftBits
  <2> DEFINE p == 2 ^ a
             X == i * p
  <2>1. p \in Nat /\ 2 ^ (a + 1) = 2 * p /\ b = a + 1
    BY <1>1, <1>3, <1>5, PowersOfTwo
  <2>2. Factor(a) = Minimum(p, FactorMax)
    BY <1>1, <1>5 DEF Factor
  <2> HIDE DEF p
  <2>3. X \in Nat /\ i * (2 * p) = 2 * X
    BY <1>1, <2>1
  <2>4. i * Factor(a) = Minimum(X, Y)
    <3>1. CASE p <= FactorMax
      <4>1. i * p <= i * FactorMax
        BY <1>1, <2>1, <3>1
      <4> QED BY <2>2, <3>1, <4>1 DEF Minimum, Y
    <3>2. CASE ~(p <= FactorMax)
      <4>1. Factor(a) = FactorMax
        BY <2>2, <3>2 DEF Minimum
      <4>2. i * FactorMax <= i * p
        BY <1>1, <2>1, <3>2
      <4> QED BY <1>1, <2>3, <4>1, <4>2 DEF Minimum, Y
    <3> QED BY <3>1, <3>2
  <2>5. \/ i * Factor(b) = Minimum(2 * X, Y)
        \/ i * Factor(b) = Y /\ 2 * X >= Y
    <3>1. CASE b < ShiftBits
      <4>1. Factor(b) = Minimum(2 * p, FactorMax)
        BY <2>1, <3>1 DEF Factor
      <4>2. CASE 2 * p <= FactorMax
        <5>1. i * (2 * p) <= i * FactorMax
          BY <1>1, <2>1, <4>2
        <5>2. Factor(b) = 2 * p
          BY <4>1, <4>2 DEF Minimum
        <5> QED BY <2>3, <5>1, <5>2 DEF Minimum, Y
      <4>3. CASE ~(2 * p <= FactorMax)
        <5>1. Factor(b) = FactorMax
          BY <4>1, <4>3 DEF Minimum
        <5>2. i * FactorMax <= i * (2 * p)
          BY <1>1, <2>1, <4>3
        <5> HIDE DEF X
        <5> QED BY <1>1, <2>3, <5>1, <5>2 DEF Minimum, Y
      <4> QED BY <4>2, <4>3
    <3>2. CASE ~(b < ShiftBits)
      <4>1. b = ShiftBits /\ Factor(b) = FactorMax
        BY <1>1, <1>5, <2>1, <3>2 DEF Factor
      <4>2. FactorMax <= 2 * p
        BY <1>3, <2>1, <4>1
      <4>3. i * FactorMax <= i * (2 * p)
        BY <1>1, <2>1, <4>2
      <4> HIDE DEF X
      <4> QED BY <2>3, <4>1, <4>3 DEF Y
    <3> QED BY <3>1, <3>2
  <2> HIDE DEF X
  <2> QED BY <1>1, <1>2, <2>3, <2>4, <2>5 DEF Minimum, max, b
<1> QED BY <1>1, <1>4, <1>5

\* The first delay is the initial one, up to the ceiling.
LEMMA DelayStarts ==
  ASSUME TypeOK, WidthsFit,
         backoff.initial_delay * FactorMax >= backoff.max_delay
  PROVE  delay_for_attempt(0) = Minimum(backoff.max_delay, backoff.initial_delay)
<1> DEFINE i == backoff.initial_delay
           max == backoff.max_delay
<1>1. /\ i \in Nat /\ max \in Nat /\ FactorMax \in Nat /\ ShiftBits \in Nat
      /\ i * FactorMax >= max
  BY Widths
<1>2. delay_for_attempt(0) = Minimum(i * Factor(0), max)
  BY DelayBounded
<1>3. FactorMax <= 2 ^ ShiftBits /\ 2 ^ 0 = 1
  BY PowersOfTwo DEF WidthsFit
<1>4. Factor(0) = 1 \/ (Factor(0) = 0 /\ FactorMax = 0)
  <2>1. FactorMax \in Nat /\ ShiftBits \in Nat
    BY <1>1
  <2>2. CASE ShiftBits = 0
    <3>1. FactorMax <= 1 /\ Factor(0) = FactorMax
      BY <1>3, <2>1, <2>2 DEF Factor
    <3> QED BY <2>1, <3>1
  <2>3. CASE ShiftBits > 0
    <3>1. Factor(0) = Minimum(1, FactorMax)
      BY <1>3, <2>3 DEF Factor
    <3> QED BY <2>1, <3>1 DEF Minimum
  <2> QED BY <2>1, <2>2, <2>3
<1> HIDE DEF i, max
<1>5. CASE Factor(0) = 1
  BY <1>1, <1>2, <1>5 DEF Minimum, i, max
<1>6. CASE Factor(0) = 0 /\ FactorMax = 0
  <2>1. i * FactorMax = 0 /\ i * Factor(0) = 0
    BY <1>1, <1>6
  <2> QED BY <1>1, <1>2, <2>1 DEF Minimum, i, max
<1> QED BY <1>4, <1>5, <1>6

\* What the tracker stores of a child that was last restarted at time `at`.
Tracks(id) ==
  LET at    == given[id].at
      delay == given[id].delay
  IN  /\ at \in Start..now
      /\ state[id].started_at = IF at + delay <= Latest THEN at + delay ELSE at
      /\ \E a \in 0..AttemptsMax :
           /\ state[id].attempts = Minimum(a + 1, AttemptsMax)
           /\ delay = delay_for_attempt(a)

Tracked == DOMAIN given = DOMAIN state /\ \A id \in DOMAIN given : Tracks(id)

\* Tracking does not depend on the tracker of restarts, nor on the present.
LEMMA TracksLater ==
  ASSUME TypeOK, NEW id, Tracks(id), backoff' = backoff, now' \in Int, now' >= now,
         given'[id] = given[id], state'[id] = state[id]
  PROVE  Tracks(id)'
<1>1. \A a : delay_for_attempt(a)' = delay_for_attempt(a)
  BY DEF delay_for_attempt, Factor, Minimum
<1>2. now \in Int /\ Start \in Int
  BY Widths
<1> QED BY <1>1, <1>2 DEF Tracks

LEMMA NextTracked ==
  ASSUME TypeOK, Tracked, [Next]_vars
  PROVE  Tracked'
<1>0. now \in Int
  BY Widths
<1>1. ASSUME NEW id \in Id, Restart(id) PROVE Tracked'
  <2>0. PICK a \in 0..AttemptsMax : a = Attempt(id)
    BY AttemptFits
  <2> DEFINE d == delay_for_attempt(a)
  <2>1. /\ state' = With(state, id, [attempts |-> Minimum(a + 1, AttemptsMax),
                started_at |-> IF now + d <= Latest THEN now + d ELSE now])
        /\ given' = With(given, id, [at |-> now, delay |-> d])
        /\ now' = now /\ backoff' = backoff
    BY <1>1, <2>0 DEF Restart, next_delay
  <2>2. now \in Int /\ Start <= now
    BY Widths
  <2>3. delay_for_attempt(a)' = d
    BY <2>1 DEF delay_for_attempt, Factor, Minimum
  <2> HIDE DEF d
  <2>4. DOMAIN given' = DOMAIN state'
    BY <2>1 DEF With, Tracked
  <2>5. ASSUME NEW i \in DOMAIN given', i # id PROVE Tracks(i)'
    <3>1. i \in DOMAIN given /\ given'[i] = given[i] /\ state'[i] = state[i]
      BY <2>1, <2>5 DEF With, Tracked
    <3> QED BY <1>0, <2>1, <3>1, TracksLater DEF Tracked
  <2>6. Tracks(id)'
    <3>1. given'[id] = [at |-> now, delay |-> d]
      BY <2>1 DEF With
    <3>2. state'[id] = [attempts |-> Minimum(a + 1, AttemptsMax),
            started_at |-> IF now + d <= Latest THEN now + d ELSE now]
      BY <2>1 DEF With
    <3>3. Start \in Int /\ now \in Start..now'
      BY <2>1, <2>2, Widths
    <3> QED BY <2>0, <2>1, <2>2, <2>3, <3>1, <3>2, <3>3 DEF Tracks
  <2> QED BY <2>4, <2>5, <2>6 DEF Tracked
<1>2. ASSUME NEW id \in Id, reset_child(id) PROVE Tracked'
  <2>1. /\ state' = Without(state, id) /\ given' = Without(given, id)
        /\ now' = now /\ backoff' = backoff
    BY <1>2 DEF reset_child
  <2>2. DOMAIN given' = DOMAIN state'
    BY <2>1 DEF Without, Tracked
  <2>3. ASSUME NEW i \in DOMAIN given' PROVE Tracks(i)'
    <3>1. i \in DOMAIN given /\ given'[i] = given[i] /\ state'[i] = state[i]
      BY <2>1, <2>3 DEF Without, Tracked
    <3> QED BY <1>0, <2>1, <3>1, TracksLater DEF Tracked
  <2> QED BY <2>2, <2>3 DEF Tracked
<1>3. ASSUME UNCHANGED <<backoff, state, given>>, now' \in Int, now' >= now PROVE Tracked'
  BY <1>3, TracksLater DEF Tracked
<1>4. CASE Escalate
  BY <1>0, <1>3, <1>4 DEF Escalate
<1>5. CASE Tick
  BY <1>0, <1>3, <1>5 DEF Tick
<1>6. CASE UNCHANGED vars
  BY <1>0, <1>3, <1>6 DEF vars
<1> QED BY <1>1, <1>2, <1>4, <1>5, <1>6 DEF Next

\* A child counts as healthy if and only if it was up for max_delay, also when the
\* instant at which it is up again cannot be represented.
LEMMA HealthySinceUp ==
  ASSUME TypeOK, Tracked, NEW id \in DOMAIN given, backoff.max_delay > 0
  PROVE  Healthy(id) <=> now - UpSince(id) >= backoff.max_delay
<1>1. PICK a \in 0..AttemptsMax : given[id].delay = delay_for_attempt(a)
  BY DEF Tracked, Tracks
<1>2. a \in Nat
  BY <1>1, Widths
<1>3. given[id].delay \in 0..backoff.max_delay
  BY <1>1, <1>2, DelayBounded
<1> DEFINE at == given[id].at
           d == given[id].delay
           max == backoff.max_delay
           s == state[id].started_at
<1>4. /\ at \in Start..now /\ id \in DOMAIN state
      /\ s = IF at + d <= Latest THEN at + d ELSE at
  BY DEF Tracked, Tracks
<1>5. Start \in Int /\ now \in Int /\ Latest \in Int /\ now <= Latest /\ max \in Nat
  BY Widths
<1>6. Healthy(id) <=> (IF now >= s THEN now - s ELSE 0) >= max
  BY <1>4 DEF Healthy
<1>7. UpSince(id) = at + d
  BY DEF UpSince
<1> HIDE DEF at, d, max, s
<1> QED BY <1>3, <1>4, <1>5, <1>6, <1>7 DEF d, max

LEMMA StepDoubles ==
  ASSUME WidthsFit, TypeOK, Tracked, [Next]_vars, granted' # granted,
         NEW id \in DOMAIN given', id \notin DOMAIN given \/ given'[id] # given[id],
         backoff.initial_delay * FactorMax >= backoff.max_delay
  PROVE  given'[id].delay =
           Minimum(backoff.max_delay,
                   IF id \in DOMAIN given /\ now - UpSince(id) < backoff.max_delay
                   THEN 2 * given[id].delay ELSE backoff.initial_delay)
<1>1. PICK i \in Id : Restart(i)
  BY DEF Next, vars, reset_child, Escalate, Tick
<1>2. given' = With(given, i, [at |-> now, delay |-> delay_for_attempt(Attempt(i))])
  BY <1>1 DEF Restart, next_delay
<1>3. id = i
  BY <1>2 DEF With
<1>4. given'[id].delay = delay_for_attempt(Attempt(id))
  BY <1>2, <1>3 DEF With
<1>5. DOMAIN given = DOMAIN state
  BY DEF Tracked
<1>6. backoff.max_delay \in Nat /\ backoff.initial_delay \in Nat
  BY Widths
<1>7. CASE id \notin DOMAIN given
  BY <1>4, <1>5, <1>7, DelayStarts DEF Attempt
<1>8. CASE id \in DOMAIN given
  <2>1. PICK a \in 0..AttemptsMax : /\ state[id].attempts = Minimum(a + 1, AttemptsMax)
                                    /\ given[id].delay = delay_for_attempt(a)
    BY <1>8 DEF Tracked, Tracks
  <2>2. now - UpSince(id) \in Int
    <3>1. given[id].delay \in Int
      BY <2>1, DelayBounded, Widths
    <3>2. now \in Int /\ given[id].at \in Int
      BY <1>8, Widths DEF Tracked, Tracks
    <3> QED BY <3>1, <3>2 DEF UpSince
  <2>3. /\ delay_for_attempt(Minimum(a + 1, AttemptsMax))
             = Minimum(backoff.max_delay, 2 * given[id].delay)
        /\ delay_for_attempt(0) = Minimum(backoff.max_delay, backoff.initial_delay)
    BY <2>1, DelayDoubles, DelayStarts
  <2>4. CASE backoff.max_delay > 0
    <3>1. Healthy(id) <=> ~(now - UpSince(id) < backoff.max_delay)
      BY <1>6, <1>8, <2>2, <2>4, HealthySinceUp
    <3>2. Attempt(id) = IF now - UpSince(id) < backoff.max_delay
                        THEN Minimum(a + 1, AttemptsMax) ELSE 0
      BY <1>5, <1>8, <2>1, <3>1 DEF Attempt
    <3> QED BY <1>4, <1>8, <2>3, <3>2
  <2>5. CASE backoff.max_delay = 0
    <3>1. Attempt(id) \in Nat
      BY <1>1, <1>3, AttemptFits, Widths
    <3>2. given'[id].delay = 0
      BY <1>4, <2>5, <3>1, DelayBounded
    <3>3. given[id].delay = 0
      BY <2>1, <2>5, DelayBounded, Widths
    <3>4. 2 * given[id].delay = 0
      BY <3>3
    <3> QED BY <1>6, <2>5, <3>2, <3>4 DEF Minimum
  <2> QED BY <1>6, <2>4, <2>5
<1> QED BY <1>7, <1>8

\* Delays double up to the ceiling for a child that fails again before it was up
\* for max_delay and start over for one that was, although attempts, factors,
\* products and instants all saturate (RestartBackoff, BackoffTracker::next_delay).
THEOREM BackoffDoubles == WidthsFit /\ Spec => DelaysDouble
<1> SUFFICES ASSUME WidthsFit PROVE Spec => DelaysDouble
  OBVIOUS
<1> DEFINE Doubled ==
      \A id \in DOMAIN given' :
         /\ granted' # granted
         /\ id \notin DOMAIN given \/ given'[id] # given[id]
         /\ backoff.initial_delay * FactorMax >= backoff.max_delay
         => given'[id].delay =
              Minimum(backoff.max_delay,
                      IF id \in DOMAIN given /\ now - UpSince(id) < backoff.max_delay
                      THEN 2 * given[id].delay ELSE backoff.initial_delay)
<1>1. Init => Tracked
  BY DEF Init, Tracked
<1>2. TypeOK /\ Tracked /\ [Next]_vars => Tracked'
  BY NextTracked
<1>3. TypeOK /\ Tracked /\ [Next]_vars => Doubled
  BY StepDoubles
<1> QED BY <1>1, <1>2, <1>3, WidthsHold, PTL DEF Spec, DelaysDouble

================================================================================
