---------------------------- MODULE SupervisorRounds ----------------------------
(***************************************************************************)
(* What restart rounds do to the books of Supervisor, for every value of   *)
(* the constants: backoff is kept for supervised children only, the start  *)
(* order survives, rounds stay within the budget of restarts, and no round *)
(* or refused report loses a child.                                        *)
(***************************************************************************)
EXTENDS SupervisorProofs, FiniteSetTheorems

(***************************************************************************)
(* Backoff.  While a child is stopped it is in hand, but not every handler *)
(* puts it back: a worker whose linked start fails never becomes a child,  *)
(* so that the backoff kept must be that of the children listed.           *)
(***************************************************************************)

\* The children whose backoff may be kept.
Kept == IF work.op \in {"terminate", "respawn", "from"} THEN Held ELSE SetOf(children)

Closing == status # "running" \/ work.op \in {"escalate", "shutdown"}

Backed == Closing \/ \A id \in tracked : \E c \in Kept : c.id = id

\* Backoff stays right if no child is lost whose backoff is kept.
LEMMA BackedStays ==
  ASSUME Backed, Closing => Closing',
         \A id \in tracked' : \/ id \in tracked
                              \/ \E c \in Kept' : c.id = id,
         \A c \in Kept : c.id \notin tracked' \/ \E d \in Kept' : d.id = c.id
  PROVE  Backed'
<1>1. CASE Closing
  BY <1>1 DEF Backed
<1>2. CASE ~Closing
  <2>1. \A id \in tracked : \E c \in Kept : c.id = id
    BY <1>2 DEF Backed
  <2>2. \A id \in tracked' : \E d \in Kept' : d.id = id
    BY <2>1
  <2> QED BY <2>2 DEF Backed
<1> QED BY <1>1, <1>2

\* Nothing in hand moves.
LEMMA BackedQuiet ==
  ASSUME Backed, UNCHANGED <<status, children, tracked>>,
         work'.op = work.op, work'.todo = work.todo, work'.back = work.back
  PROVE  Backed'
<1>1. Closing' = Closing /\ Kept' = Kept
  BY DEF Closing, Kept, Held
<1> QED BY <1>1, BackedStays

\* A task changes neither what is listed nor what is in hand.
LEMMA TaskQuiet ==
  ASSUME TypeOK, NEW t \in DOMAIN task, Runs(t) \/ MustRun(t)
  PROVE  /\ UNCHANGED <<status, children, tracked, recent, timers, rounds, config>>
         /\ work'.op = work.op /\ work'.todo = work.todo /\ work'.back = work.back
<1>1. UNCHANGED <<status, children, tracked, recent, timers, rounds, config>>
  BY DEF Runs, MustRun, InitOk, InitFails, ShutdownSeen, RunReturns, HookReturns, Panic,
         Block, Unblock, NestedEscalates, ReportInitFailure, Cancelled, NestedStops, env
<1>2. work' = work \/ \E reply \in {"Ok", "Err", "Closed"} : work' = Told(t, reply)
  BY DEF Runs, MustRun, InitOk, InitFails, ShutdownSeen, RunReturns, HookReturns, Panic,
         Block, Unblock, NestedEscalates, ReportInitFailure, Cancelled, NestedStops
<1> QED BY <1>1, <1>2, ToldType

\* Handlers that change the list at rest.
LEMMA BackedList ==
  ASSUME IInv, Backed,
         HandleStartChild \/ HandleStartChildLinked \/ DropChild \/ HandleTerminateChild
           \/ RestartLater
  PROVE  Backed'
<1>1. work = Idle /\ work.op = "idle" /\ status' = status /\ children \in Seq(Child)
  <2>1. \E name : Receives(name)
    BY DEF HandleStartChild, HandleStartChildLinked, DropChild, RestartLater,
       HandleTerminateChild, Concerns
  <2>2. status' = status
    BY DEF HandleStartChild, HandleStartChildLinked, DropChild, RestartLater,
       HandleTerminateChild
  <2> QED BY <2>1, <2>2, ReceivesType DEF IInv, TypeOK, VarTypes, Idle
<1>2. Kept = SetOf(children) /\ (Closing => Closing')
  BY <1>1 DEF Kept, Closing
<1>3. CASE HandleStartChild
  <2> DEFINE n == Requested(Head(queue))
  <2>1. n \in Child
    BY <1>3, ReceivesType, RequestedType DEF HandleStartChild, IInv, TypeOK, CallName
  <2>2. children' = Append(children, n) /\ work' = work /\ tracked' = tracked
    BY <1>3 DEF HandleStartChild
  <2> HIDE DEF n
  <2>3. Kept' = SetOf(children')
    BY <1>1, <2>2 DEF Kept
  <2>4. SetOf(Append(children, n)) = SetOf(children) \cup {n}
    BY <1>1, <2>1, SetOfAppend
  <2> QED BY <1>2, <2>2, <2>3, <2>4, BackedStays
<1>4. CASE HandleStartChildLinked
  <2>1. children' = children /\ tracked' = tracked /\ work'.op = "link"
    BY <1>4 DEF HandleStartChildLinked, Begin, Idle
  <2>2. Kept' = SetOf(children)
    BY <2>1 DEF Kept
  <2> QED BY <1>2, <2>1, <2>2, BackedStays
<1>5. CASE DropChild
  <2> PICK i \in DOMAIN children :
        children' = RemoveAt(children, i) /\ tracked' = Forgotten(children[i].id)
    BY <1>5 DEF DropChild
  <2>1. SetOf(children) = {children[i]} \cup SetOf(RemoveAt(children, i))
    BY <1>1, SetOfSplit
  <2>2. work' = work /\ Kept' = SetOf(RemoveAt(children, i))
    BY <1>1, <1>5 DEF DropChild, Kept
  <2>3. tracked' = tracked \ {children[i].id}
    BY DEF Forgotten
  <2> QED BY <1>2, <2>1, <2>2, <2>3, BackedStays
<1>6. CASE HandleTerminateChild
  <2> PICK i \in DOMAIN children :
        /\ children' = RemoveAt(children, i)
        /\ work' = [Begin("terminate", <<children[i]>>)
                      EXCEPT !.client = {Head(queue).client}]
    BY <1>6 DEF HandleTerminateChild
  <2>1. SetOf(children) = {children[i]} \cup SetOf(RemoveAt(children, i))
    BY <1>1, SetOfSplit
  <2>2. work'.op = "terminate" /\ work'.todo = <<children[i]>>
    BY DEF Begin, Idle
  <2>3. SetOf(<<children[i]>>) = {children[i]}
    BY SetOfSmall
  <2>4. SetOf(children) \subseteq Kept' /\ tracked' = tracked
    BY <1>6, <2>1, <2>2, <2>3 DEF Kept, Held, HandleTerminateChild
  <2> QED BY <1>2, <2>4, BackedStays
<1>7. CASE RestartLater
  <2> PICK i \in DOMAIN children : tracked' = tracked \cup {children[i].id}
    BY <1>7 DEF RestartLater
  <2>1. Kept' = SetOf(children)
    BY <1>1, <1>7 DEF RestartLater, Kept
  <2>2. children[i] \in SetOf(children)
    BY DEF SetOf
  <2> QED BY <1>2, <2>1, <2>2, BackedStays
<1> QED BY <1>3, <1>4, <1>5, <1>6, <1>7

\* A round begins; its children are listed or in hand.
LEMMA BackedRound ==
  ASSUME IInv, Backed, RestartNow \/ HandleRestartChild
  PROVE  Backed'
<1>1. PICK i \in DOMAIN children :
        /\ BeginRound(i)
        /\ tracked' = tracked \cup {children[i].id} \/ tracked' = tracked
  BY DEF RestartNow, HandleRestartChild
<1>2. work.op = "idle" /\ status' = status /\ children \in Seq(Child)
  BY ReceivesType DEF RestartNow, HandleRestartChild, Concerns, IInv, TypeOK, VarTypes, Idle
<1>3. Kept = SetOf(children) /\ (Closing => Closing')
  BY <1>2 DEF Kept, Closing
<1> DEFINE l == SubSeq(children, 1, i - 1)
           r == SubSeq(children, i, Len(children))
<1>4. SetOf(children) = SetOf(l) \cup SetOf(r)
  BY <1>2, SetOfSplit
<1>5. children[i] \in SetOf(children)
  BY DEF SetOf
<1> HIDE DEF l, r
<1>6. SetOf(children) \subseteq Kept'
  <2>1. CASE children' = children /\ work'.op \in {"one", "all"}
    BY <2>1 DEF Kept
  <2>2. CASE children' = l /\ work'.op = "from" /\ work'.todo = r
    BY <1>4, <2>2 DEF Kept, Held
  <2> QED BY <1>1, <2>1, <2>2 DEF BeginRound, Begin, Idle, l, r
<1> QED BY <1>1, <1>3, <1>5, <1>6, BackedStays

\* The end of a linked start, and of a termination.
LEMMA BackedOver ==
  ASSUME IInv, Backed,
         \/ LinkOk
         \/ \E a \in {"InitializationFailed", "InitializationTimeout"} : LinkFails(a)
         \/ FinishTerminate
  PROVE  Backed'
<1>1. work' = Idle /\ work'.op = "idle" /\ status' = status
      /\ work.op \in {"link", "terminate"}
  BY DEF LinkOk, LinkFails, FinishTerminate, Idle
<1>2. Kept' = SetOf(children') /\ (Closing => Closing')
  BY <1>1 DEF Kept, Closing
<1>3. /\ children \in Seq(Child) /\ work.todo \in Seq(Child) /\ work.back = <<>>
      /\ Len(work.todo) = 1
  BY <1>1 DEF IInv, TypeOK, VarTypes, Work, WorkShape
<1>4. work.todo # <<>> /\ SetOf(work.todo) = {Head(work.todo)} /\ SetOf(<<>>) = {}
  BY <1>3, OneLeft, SetOfSmall
<1>5. Head(work.todo) \in Child
  BY <1>3, <1>4, SetOfHead
<1>6. CASE LinkOk
  <2>1. SetOf(Append(children, Head(work.todo))) = SetOf(children) \cup {Head(work.todo)}
    BY <1>3, <1>5, SetOfAppend
  <2>2. Kept = SetOf(children) /\ tracked' = tracked
    BY <1>6 DEF LinkOk, Kept
  <2>3. SetOf(children) \subseteq Kept'
    BY <1>2, <1>6, <2>1 DEF LinkOk
  <2> QED BY <1>2, <2>2, <2>3, BackedStays
<1>7. CASE \E a \in {"InitializationFailed", "InitializationTimeout"} : LinkFails(a)
  <2>1. Kept = SetOf(children) /\ tracked' = tracked /\ children' = children
    BY <1>7 DEF LinkFails, Kept
  <2> QED BY <1>2, <2>1, BackedStays
<1>8. CASE FinishTerminate
  <2>1. /\ Kept = SetOf(children) \cup {Head(work.todo)}
        /\ tracked' = tracked \ {Head(work.todo).id} /\ children' = children
    BY <1>3, <1>4, <1>8 DEF FinishTerminate, Kept, Held, Forgotten
  <2> QED BY <1>2, <2>1, BackedStays
<1> QED BY <1>6, <1>7, <1>8

\* The children of a round are stopped, come back or leave.
LEMMA BackedRestarts ==
  ASSUME IInv, Backed, StopNext \/ RestartOne \/ DrainAll \/ RespawnHead \/ EndRound
  PROVE  Backed'
<1>1. /\ children \in Seq(Child) /\ work.todo \in Seq(Child) /\ work.back \in Seq(Child)
      /\ SetOf(<<>>) = {}
  BY SetOfSmall DEF IInv, TypeOK, VarTypes, Work
<1>2. CASE StopNext
  <2>1. UNCHANGED <<status, children, tracked>> /\ work'.op = work.op
        /\ work.op \in {"all", "shutdown", "escalate"}
    BY <1>2 DEF StopNext, Advanced, IInv, TypeOK, VarTypes, Work
  <2>2. Kept' = Kept /\ (Closing => Closing')
    BY <2>1 DEF Kept, Closing
  <2> QED BY <2>1, <2>2, BackedStays
<1>3. CASE RestartOne
  <2> PICK i \in DOMAIN children : children' = [children EXCEPT ![i] = WithNewTask(@)]
    BY <1>3 DEF RestartOne
  <2> DEFINE n == WithNewTask(children[i])
  <2>1. n \in Child /\ n.id = children[i].id
    BY ChildType, WithNewTaskType DEF IInv, TypeOK
  <2>2. children' = ReplacedAt(children, i, n)
    BY DEF ReplacedAt
  <2> HIDE DEF n
  <2>3. DistinctIds(children)
    BY Pieces DEF IInv, UniquePieces
  <2>4. /\ SetOf(children) \subseteq SetOf(ReplacedAt(children, i, n)) \cup {children[i]}
        /\ n \in SetOf(ReplacedAt(children, i, n))
    BY <1>1, <2>1, <2>3, DistinctReplaced
  <2>5. /\ Kept = SetOf(children) /\ Kept' = SetOf(children')
        /\ UNCHANGED <<tracked, status>> /\ (Closing => Closing')
    BY <1>3 DEF RestartOne, Kept, Closing, Idle
  <2> QED BY <2>1, <2>2, <2>4, <2>5, BackedStays
<1>4. CASE DrainAll
  <2>1. /\ work'.op = "respawn" /\ work'.todo = children
        /\ UNCHANGED <<tracked, status>> /\ work.op = "all"
    BY <1>4 DEF DrainAll, Begin, Idle
  <2>2. Kept = SetOf(children) /\ Kept \subseteq Kept' /\ (Closing => Closing')
    BY <2>1 DEF Kept, Held, Closing
  <2> QED BY <2>1, <2>2, BackedStays
<1>5. CASE RespawnHead
  <2> DEFINE c == Head(work.todo)
             n == WithNewTask(c)
  <2>1. /\ work.op \in {"respawn", "from"} /\ work.todo # <<>>
    BY <1>5, HeadIsStopped DEF RespawnHead
  <2>2. /\ c \in Child /\ Tail(work.todo) \in Seq(Child)
        /\ SetOf(work.todo) = {c} \cup SetOf(Tail(work.todo))
    BY <1>1, <2>1, SetOfHead
  <2>3. n \in Child /\ n.id = c.id
    BY <2>2, WithNewTaskType DEF IInv, TypeOK
  <2>4. /\ work'.op = work.op /\ work'.todo = Tail(work.todo)
        /\ UNCHANGED <<status, children>>
        /\ \/ tracked' = tracked \ {c.id} /\ work'.back = work.back
           \/ tracked' = tracked /\ work'.back = Append(work.back, n)
    BY <1>5 DEF RespawnHead, Advanced, Forgotten, IInv, TypeOK, VarTypes, Work
  <2> HIDE DEF c, n
  <2>5. SetOf(Append(work.back, n)) = SetOf(work.back) \cup {n}
    BY <1>1, <2>3, SetOfAppend
  <2>6. /\ Kept = SetOf(children) \cup SetOf(work.back) \cup {c} \cup SetOf(work'.todo)
        /\ Kept' = SetOf(children) \cup SetOf(work'.back) \cup SetOf(work'.todo)
    BY <2>1, <2>2, <2>4 DEF Kept, Held
  <2>7. Closing => Closing'
    BY <2>4 DEF Closing
  <2> QED BY <2>3, <2>4, <2>5, <2>6, <2>7, BackedStays
<1>6. CASE EndRound
  <2>1. /\ work.op \in {"respawn", "from"} /\ work.todo = <<>> /\ work'.op = "idle"
        /\ children' = children \o work.back /\ UNCHANGED <<tracked, status>>
    BY <1>6 DEF EndRound, Idle
  <2>2. SetOf(children \o work.back) = SetOf(children) \cup SetOf(work.back)
    BY <1>1, SetOfConcat
  <2>3. Kept' = Kept /\ (Closing => Closing')
    BY <1>1, <2>1, <2>2 DEF Kept, Held, Closing
  <2> QED BY <2>1, <2>3, BackedStays
<1> QED BY <1>2, <1>3, <1>4, <1>5, <1>6

\* Every step keeps it.
LEMMA NextBacked == IInv /\ Backed /\ [Next]_vars => Backed'
<1> SUFFICES ASSUME IInv, Backed, [Next]_vars PROVE Backed'
  OBVIOUS
<1>1. CASE \/ UNCHANGED vars
           \/ \E c \in Client, k \in Calls : Call(c, k)
           \/ \E m \in timers : TimerFires(m)
           \/ HandleQuery \/ RefuseDuplicate \/ RefuseUnknown \/ IgnoreReport \/ SkipRestart
  BY <1>1, BackedQuiet DEF vars, Call, TimerFires, HandleQuery, RefuseDuplicate,
     RefuseUnknown, IgnoreReport, SkipRestart
<1>2. CASE \E t \in DOMAIN task : Runs(t) \/ MustRun(t)
  BY <1>2, TaskQuiet, BackedQuiet DEF IInv
<1>3. CASE BeginStop \/ StopTimesOut
  <2>1. UNCHANGED <<status, children, tracked>>
        /\ work'.op = work.op /\ work'.todo = work.todo /\ work'.back = work.back
    BY <1>3 DEF BeginStop, StopTimesOut, IInv, TypeOK, VarTypes, Work
  <2> QED BY <2>1, BackedQuiet
<1>4. CASE Escalate \/ HandleShutdown \/ Exit
  <2>1. Closing'
    BY <1>4 DEF Escalate, HandleShutdown, Exit, Closing, Begin, Idle
  <2> QED BY <2>1 DEF Backed
<1>5. CASE \/ HandleStartChild \/ HandleStartChildLinked \/ DropChild
           \/ HandleTerminateChild \/ RestartLater
  BY <1>5, BackedList
<1>6. CASE RestartNow \/ HandleRestartChild
  BY <1>6, BackedRound
<1>7. CASE \/ LinkOk
           \/ \E a \in {"InitializationFailed", "InitializationTimeout"} : LinkFails(a)
           \/ FinishTerminate
  BY <1>7, BackedOver
<1>8. CASE StopNext \/ RestartOne \/ DrainAll \/ RespawnHead \/ EndRound
  BY <1>8, BackedRestarts
<1> QED BY <1>1, <1>2, <1>3, <1>4, <1>5, <1>6, <1>7, <1>8 DEF Next, Runtime

\* Backoff is kept for supervised children only, whichever way children leave:
\* dropped, terminated, left out by a round, or never linked.
THEOREM BackoffForSupervised == Spec => []BackoffOnlyForSupervised
<1>1. Init => Backed
  BY DEF Init, Backed
<1>2. Backed => BackoffOnlyForSupervised
  BY DEF Backed, Closing, Kept, Held, BackoffOnlyForSupervised
<1> QED BY <1>1, <1>2, NextBacked, Safe, PTL DEF Spec

(***************************************************************************)
(* The budget.  What is owed, namely the rounds done and those to come, is *)
(* covered by the restarts recorded and never exceeds the limit; only an   *)
(* escalation records a restart beyond it, and begins no round.            *)
(***************************************************************************)

\* The deferred restarts that wait in a queue.
Due(q) == {k \in DOMAIN q : q[k].cmd = "RestartChild"}

Owed == rounds + Cardinality(timers) + Cardinality(Due(queue))

InBudget ==
  /\ IsFiniteSet(timers)
  /\ ~Expiry => Owed <= recent /\ Owed <= config.max_restarts

\* One more makes the cardinality one larger at most.
LEMMA OneMore ==
  ASSUME NEW S, IsFiniteSet(S), NEW x
  PROVE  /\ IsFiniteSet(S \cup {x})
         /\ Cardinality(S) \in Nat /\ Cardinality(S \cup {x}) \in Nat
         /\ Cardinality(S \cup {x}) <= Cardinality(S) + 1
<1>1. IsFiniteSet(S \cup {x})
  BY FS_AddElement
<1>2. Cardinality(S) \in Nat /\ Cardinality(S \cup {x}) \in Nat
  BY <1>1, FS_CardinalityType
<1>3. Cardinality(S \cup {x}) = IF x \in S THEN Cardinality(S) ELSE Cardinality(S) + 1
  BY FS_AddElement
<1> QED BY <1>1, <1>2, <1>3

\* A queue holds finitely many.
LEMMA DueFinite ==
  ASSUME NEW q \in Seq(Command)
  PROVE  IsFiniteSet(Due(q)) /\ Cardinality(Due(q)) \in Nat
<1>1. 1 \in Int /\ Len(q) \in Int /\ Due(q) \in SUBSET (1..Len(q))
  BY LenProperties DEF Due
<1>2. IsFiniteSet(1..Len(q))
  BY <1>1, FS_Interval
<1>3. IsFiniteSet(Due(q))
  BY <1>1, <1>2, FS_Subset
<1> QED BY <1>3, FS_CardinalityType

\* Sending adds at most one, and none that is no deferred restart.
LEMMA DueAppend ==
  ASSUME NEW q \in Seq(Command), NEW m \in Command
  PROVE  /\ Cardinality(Due(Append(q, m))) <= Cardinality(Due(q)) + 1
         /\ m.cmd # "RestartChild" =>
              Cardinality(Due(Append(q, m))) = Cardinality(Due(q))
<1> DEFINE a == Append(q, m)
<1>1. /\ DOMAIN a = 1..(Len(q) + 1) /\ DOMAIN q = 1..Len(q) /\ Len(q) \in Nat
      /\ \A k \in 1..Len(q) : a[k] = q[k]
      /\ a[Len(q) + 1] = m
  BY AppendProperties, LenProperties
<1>2. a \in Seq(Command)
  BY AppendProperties
<1> HIDE DEF a
<1>3. /\ Due(a) \subseteq Due(q) \cup {Len(q) + 1}
      /\ m.cmd # "RestartChild" => Due(a) = Due(q)
  BY <1>1 DEF Due
<1>4. /\ IsFiniteSet(Due(q) \cup {Len(q) + 1})
      /\ Cardinality(Due(q) \cup {Len(q) + 1}) \in Nat
      /\ Cardinality(Due(q) \cup {Len(q) + 1}) <= Cardinality(Due(q)) + 1
      /\ Cardinality(Due(q)) \in Nat
  BY DueFinite, OneMore
<1>5. Cardinality(Due(a)) <= Cardinality(Due(q) \cup {Len(q) + 1})
  BY <1>3, <1>4, FS_Subset
<1>6. Cardinality(Due(a)) \in Nat
  BY <1>2, DueFinite
<1>7. Cardinality(Due(a)) <= Cardinality(Due(q)) + 1
  BY <1>4, <1>5, <1>6
<1> QED BY <1>3, <1>7 DEF a

\* Receiving takes one away if the command was one.
LEMMA DueTail ==
  ASSUME NEW q \in Seq(Command), q # <<>>
  PROVE  /\ Cardinality(Due(Tail(q))) <= Cardinality(Due(q))
         /\ Head(q).cmd = "RestartChild" =>
              Cardinality(Due(Tail(q))) <= Cardinality(Due(q)) - 1
<1> DEFINE r == Tail(q)
<1>1. /\ r \in Seq(Command) /\ Len(q) \in Nat \ {0} /\ Len(r) = Len(q) - 1
      /\ DOMAIN r = 1..(Len(q) - 1) /\ DOMAIN q = 1..Len(q)
      /\ \A k \in 1..(Len(q) - 1) : r[k] = q[k + 1]
      /\ Head(q) = q[1]
  BY HeadTailProperties, LenProperties, EmptySeq
<1> HIDE DEF r
<1> DEFINE f == [k \in Due(r) |-> k + 1]
<1>2. f \in [Due(r) -> Due(q) \ {1}]
  BY <1>1 DEF Due
<1>3. \A j, k \in Due(r) : f[j] = f[k] => j = k
  BY <1>1 DEF Due
<1>4. f \in Injection(Due(r), Due(q) \ {1})
  BY <1>2, <1>3 DEF Injection, IsInjective
<1>5. /\ IsFiniteSet(Due(q) \ {1})
      /\ Cardinality(Due(q) \ {1}) =
           IF 1 \in Due(q) THEN Cardinality(Due(q)) - 1 ELSE Cardinality(Due(q))
      /\ Cardinality(Due(q)) \in Nat
  BY DueFinite, FS_RemoveElement
<1> HIDE DEF f
<1>6. Cardinality(Due(r)) <= Cardinality(Due(q) \ {1})
  BY <1>4, <1>5, FS_Injection
<1>7. Cardinality(Due(r)) \in Nat
  BY <1>1, DueFinite
<1>8. Head(q).cmd = "RestartChild" => 1 \in Due(q)
  BY <1>1 DEF Due
<1> QED BY <1>5, <1>6, <1>7, <1>8 DEF r

\* The terms of what is owed are numbers.
LEMMA OwedType ==
  ASSUME TypeOK, IsFiniteSet(timers)
  PROVE  /\ rounds \in Nat /\ Cardinality(timers) \in Nat
         /\ Cardinality(Due(queue)) \in Nat /\ Owed \in Nat
         /\ recent \in Nat /\ config.max_restarts \in Nat
<1>1. config.max_restarts \in Nat
  BY ConfigsAssumption DEF TypeOK, VarTypes, ConfigSpace
<1> QED BY <1>1, DueFinite, FS_CardinalityType DEF TypeOK, VarTypes, Owed

\* What most steps do to the channel.
Settled ==
  \/ queue' = queue \/ queue' = <<>>
  \/ queue # <<>> /\ queue' = Tail(queue)
  \/ \E m \in Command : m.cmd # "RestartChild" /\ queue' = Sent(m)

\* None of that makes a deferred restart due.
LEMMA SettledDue ==
  ASSUME TypeOK, Settled
  PROVE  Cardinality(Due(queue')) <= Cardinality(Due(queue))
<1>1. queue \in Seq(Command) /\ Cardinality(Due(queue)) \in Nat
  BY DueFinite DEF TypeOK, VarTypes
<1>2. CASE queue' = queue
  BY <1>1, <1>2
<1>3. CASE queue' = <<>>
  <2>1. Due(<<>>) = {}
    BY DEF Due
  <2>2. Cardinality(Due(queue')) = 0
    BY <1>3, <2>1, FS_EmptySet
  <2> QED BY <1>1, <2>2
<1>4. CASE queue # <<>> /\ queue' = Tail(queue)
  BY <1>1, <1>4, DueTail
<1>5. CASE \E m \in Command : m.cmd # "RestartChild" /\ queue' = Sent(m)
  BY <1>1, <1>5, DueAppend DEF Sent
<1> QED BY <1>2, <1>3, <1>4, <1>5 DEF Settled

\* Restarts already recorded are not forgotten, if nothing leaves the window.
Recorded == config' = config /\ (recent' = recent \/ RecordRestart)

\* Owing no more stays within the budget.
LEMMA BudgetKept ==
  ASSUME TypeOK, InBudget, TypeOK', Recorded, Settled, UNCHANGED <<timers, rounds>>
  PROVE  InBudget'
<1>1. IsFiniteSet(timers) /\ IsFiniteSet(timers')
  BY DEF InBudget
<1>2. Owed' <= Owed
  <2>1. Cardinality(Due(queue')) <= Cardinality(Due(queue))
    BY SettledDue
  <2>2. Cardinality(Due(queue')) \in Nat
    BY DueFinite DEF TypeOK, VarTypes
  <2> QED BY <1>1, <2>1, <2>2, OwedType DEF Owed
<1>3. Owed \in Nat /\ recent \in Nat /\ config.max_restarts \in Nat
  BY <1>1, OwedType
<1>4. Owed' \in Nat
  <2>1. Cardinality(Due(queue')) \in Nat
    BY DueFinite DEF TypeOK, VarTypes
  <2> QED BY <1>1, <2>1, OwedType DEF Owed
<1>5. ~Expiry => recent' >= recent
  BY <1>3 DEF Recorded, RecordRestart
<1>6. recent' \in Nat
  BY DEF TypeOK, VarTypes
<1> QED BY <1>1, <1>2, <1>3, <1>4, <1>5, <1>6 DEF InBudget, Recorded

\* A task sends nothing but reports.
LEMMA TaskSettles ==
  ASSUME TypeOK, NEW t \in DOMAIN task, Runs(t) \/ MustRun(t)
  PROVE  Settled
<1>1. CASE UNCHANGED queue
  BY <1>1 DEF Settled
<1>2. CASE \E how \in Ends, reason \in Reason : Reports(t, how, reason)
  <2> PICK how \in Ends, reason \in Reason : Reports(t, how, reason)
    BY <1>2
  <2> DEFINE m == [cmd |-> "ChildTerminated", id |-> task[t].id, reason |-> reason,
                   by |-> t]
  <2>1. task[t] \in Task /\ t \in Nat
    BY ElementOfSeq, LenProperties DEF TypeOK, VarTypes
  <2>2. m \in Command /\ m.cmd # "RestartChild"
    BY <2>1 DEF Command, Report, Task
  <2>3. queue' = Sent(m)
    BY DEF Reports
  <2> QED BY <2>2, <2>3 DEF Settled
<1>3. task[t].reason \in Reason
  <2>1. task[t] \in Task
    BY ElementOfSeq, LenProperties DEF TypeOK, VarTypes
  <2> QED BY <2>1 DEF Task
<1> QED BY <1>1, <1>2, <1>3
     DEF Runs, MustRun, InitOk, InitFails, ShutdownSeen, RunReturns, HookReturns, Panic,
         Block, Unblock, NestedEscalates, ReportInitFailure, Cancelled, NestedStops,
         Ends, Reason

\* A new round, and a deferred one, were recorded first.
LEMMA BudgetRestart ==
  ASSUME TypeOK, InBudget, TypeOK', RestartNow \/ RestartLater
  PROVE  InBudget'
<1>1. /\ queue # <<>> /\ queue' = Tail(queue) /\ config' = config
      /\ RecordRestart /\ ~Exceeded
      /\ \/ rounds' = rounds + 1 /\ timers' = timers
         \/ rounds' = rounds /\ \E m : timers' = timers \cup {m}
  BY DEF RestartNow, RestartLater, Concerns, Receives, BeginRound, env
<1>2. /\ IsFiniteSet(timers)
      /\ rounds \in Nat /\ Cardinality(timers) \in Nat /\ Owed \in Nat
      /\ Cardinality(Due(queue)) \in Nat /\ recent \in Nat
      /\ config.max_restarts \in Nat
  BY OwedType DEF InBudget
<1>3. Cardinality(Due(queue')) <= Cardinality(Due(queue)) /\ Cardinality(Due(queue')) \in Nat
  BY <1>1, SettledDue, DueFinite DEF Settled, TypeOK, VarTypes
<1>4. /\ IsFiniteSet(timers') /\ Cardinality(timers') \in Nat
      /\ rounds' + Cardinality(timers') <= rounds + Cardinality(timers) + 1
  <2>1. CASE rounds' = rounds + 1 /\ timers' = timers
    BY <1>2, <2>1
  <2>2. CASE rounds' = rounds /\ \E m : timers' = timers \cup {m}
    <3> PICK m : timers' = timers \cup {m}
      BY <2>2
    <3>1. /\ IsFiniteSet(timers') /\ Cardinality(timers') \in Nat
          /\ Cardinality(timers') <= Cardinality(timers) + 1
      BY <1>2, OneMore
    <3> QED BY <1>2, <2>2, <3>1
  <2> QED BY <1>1, <2>1, <2>2
<1>5. rounds' \in Nat
  BY DEF TypeOK, VarTypes
<1>6. Owed' <= Owed + 1 /\ Owed' \in Nat
  BY <1>2, <1>3, <1>4, <1>5 DEF Owed
<1>7. ~Expiry => recent' = recent + 1
  BY <1>1, <1>2 DEF RecordRestart
<1>8. recent' <= config.max_restarts
  <2>1. recent' \in Nat
    BY DEF TypeOK, VarTypes
  <2> QED BY <1>1, <1>2, <2>1 DEF Exceeded
<1> QED BY <1>1, <1>2, <1>4, <1>6, <1>7, <1>8 DEF InBudget

\* A deferred restart moves from its timer to the channel, and from there into
\* a round or to nothing.
LEMMA BudgetDeferred ==
  ASSUME TypeOK, InBudget, TypeOK',
         HandleRestartChild \/ \E m \in timers : TimerFires(m)
  PROVE  InBudget'
<1>1. /\ IsFiniteSet(timers)
      /\ rounds \in Nat /\ Cardinality(timers) \in Nat /\ Owed \in Nat
      /\ Cardinality(Due(queue)) \in Nat /\ recent \in Nat
      /\ config.max_restarts \in Nat
  BY OwedType DEF InBudget
<1>2. queue \in Seq(Command) /\ Cardinality(Due(queue')) \in Nat
  BY DueFinite DEF TypeOK, VarTypes
<1>3. UNCHANGED <<config, recent>>
  BY DEF HandleRestartChild, TimerFires, env
<1>4. CASE HandleRestartChild
  <2>1. /\ queue # <<>> /\ queue' = Tail(queue) /\ Head(queue).cmd = "RestartChild"
        /\ rounds' = rounds + 1 /\ timers' = timers
    BY <1>4 DEF HandleRestartChild, Receives, BeginRound
  <2>2. Cardinality(Due(queue')) <= Cardinality(Due(queue)) - 1
    BY <1>2, <2>1, DueTail
  <2>3. Owed' <= Owed /\ Owed' \in Nat /\ IsFiniteSet(timers')
    BY <1>1, <1>2, <2>1, <2>2 DEF Owed
  <2> QED BY <1>1, <1>3, <2>3 DEF InBudget
<1>5. CASE \E m \in timers : TimerFires(m)
  <2> PICK m \in timers : TimerFires(m)
    BY <1>5
  <2>1. m \in Command /\ rounds' = rounds /\ timers' = timers \ {m} /\ queue' = Sent(m)
    BY DEF TypeOK, VarTypes, Command, TimerFires
  <2>2. Cardinality(Due(queue')) <= Cardinality(Due(queue)) + 1
    BY <1>1, <1>2, <2>1, DueAppend DEF Sent
  <2>3. IsFiniteSet(timers') /\ Cardinality(timers') = Cardinality(timers) - 1
    BY <1>1, <2>1, FS_RemoveElement
  <2>4. Cardinality(timers') \in Nat
    BY <2>3, FS_CardinalityType
  <2>5. Owed' <= Owed /\ Owed' \in Nat
    BY <1>1, <1>2, <2>1, <2>2, <2>3, <2>4 DEF Owed
  <2> QED BY <1>1, <1>3, <2>3, <2>5 DEF InBudget
<1> QED BY <1>4, <1>5

\* Every step stays within it.
LEMMA NextBudget == TypeOK /\ InBudget /\ [Next]_vars /\ TypeOK' => InBudget'
<1> SUFFICES ASSUME TypeOK, InBudget, [Next]_vars, TypeOK' PROVE InBudget'
  OBVIOUS
<1>1. CASE UNCHANGED vars
  BY <1>1, BudgetKept DEF vars, Settled, Recorded
<1>2. CASE \E c \in Client, k \in Calls : Call(c, k)
  <2> PICK c \in Client, k \in Calls : Call(c, k)
    BY <1>2
  <2> DEFINE m == [cmd |-> k.cmd, id |-> k.id, policy |-> k.policy, client |-> c]
  <2>1. m \in Command /\ m.cmd # "RestartChild"
    BY CallsAssumption DEF Command, CallCommand, CallName
  <2>2. queue' = Sent(m) /\ UNCHANGED <<config, recent, timers, rounds>>
    BY DEF Call
  <2> QED BY <2>1, <2>2, BudgetKept DEF Settled, Recorded
<1>3. CASE \E m \in timers : TimerFires(m)
  BY <1>3, BudgetDeferred
<1>4. CASE \E t \in DOMAIN task : Runs(t) \/ MustRun(t)
  BY <1>4, TaskSettles, TaskQuiet, BudgetKept DEF Recorded
<1>5. CASE \/ HandleQuery \/ RefuseDuplicate \/ HandleStartChild \/ RefuseUnknown
           \/ IgnoreReport \/ DropChild \/ Escalate \/ SkipRestart
           \/ HandleStartChildLinked \/ HandleTerminateChild \/ HandleShutdown
  <2>1. queue # <<>> /\ queue' = Tail(queue)
    BY <1>5 DEF HandleQuery, RefuseDuplicate, HandleStartChild, RefuseUnknown,
       IgnoreReport, DropChild, Escalate, SkipRestart, HandleStartChildLinked,
       HandleTerminateChild, HandleShutdown, Concerns, Receives
  <2>2. UNCHANGED <<timers, rounds>> /\ Recorded
    BY <1>5 DEF HandleQuery, RefuseDuplicate, HandleStartChild, RefuseUnknown,
       IgnoreReport, DropChild, Escalate, SkipRestart, HandleStartChildLinked,
       HandleTerminateChild, HandleShutdown, env, Recorded
  <2> QED BY <2>1, <2>2, BudgetKept DEF Settled
<1>6. CASE RestartNow \/ RestartLater
  BY <1>6, BudgetRestart
<1>7. CASE HandleRestartChild
  BY <1>7, BudgetDeferred
<1>8. CASE \/ LinkOk
           \/ \E a \in {"InitializationFailed", "InitializationTimeout"} : LinkFails(a)
           \/ BeginStop \/ StopTimesOut \/ FinishTerminate \/ StopNext \/ Exit
           \/ RestartOne \/ DrainAll \/ RespawnHead \/ EndRound
  <2>1. queue' = queue \/ queue' = <<>>
    BY <1>8 DEF LinkOk, LinkFails, BeginStop, StopTimesOut, FinishTerminate, StopNext,
       Exit, RestartOne, DrainAll, RespawnHead, EndRound
  <2>2. UNCHANGED <<timers, rounds, config, recent>>
    BY <1>8 DEF LinkOk, LinkFails, BeginStop, StopTimesOut, FinishTerminate, StopNext,
       Exit, RestartOne, DrainAll, RespawnHead, EndRound, env
  <2> QED BY <2>1, <2>2, BudgetKept DEF Settled, Recorded
<1> QED BY <1>1, <1>2, <1>3, <1>4, <1>5, <1>6, <1>7, <1>8 DEF Next, Runtime

\* Rounds done, timers under way and deferred restarts in the channel together
\* never exceed the limit, for any number of children and any interleaving.
THEOREM RoundsCovered == Spec => []RoundsWithinBudget
<1>1. Init => InBudget
  <2> SUFFICES ASSUME Init PROVE InBudget
    OBVIOUS
  <2>1. IsFiniteSet(timers) /\ Due(queue) = {}
    BY FS_EmptySet DEF Init, Due
  <2>2. Cardinality(timers) = 0 /\ Cardinality(Due(queue)) = 0
    BY <2>1, FS_EmptySet DEF Init
  <2>3. config.max_restarts \in Nat
    BY ConfigsAssumption DEF Init, ConfigSpace
  <2> QED BY <2>1, <2>2, <2>3 DEF Init, InBudget, Owed
<1>2. InBudget => RoundsWithinBudget
  BY DEF InBudget, Owed, Due, RoundsWithinBudget
<1> QED BY <1>1, <1>2, NextBudget, TypeCorrect, PTL DEF Spec

(***************************************************************************)
(* The start order of Supervisor, for every value of the constants: a      *)
(* round takes the list of children apart and puts it together again, and  *)
(* no two children are ever swapped by it.                                 *)
(***************************************************************************)

(***************************************************************************)
(* The order of sequences of children.                                     *)
(***************************************************************************)

\* The id is that of an element.
In(s, a) == \E i \in DOMAIN s : s[i].id = a

\* The order of a concatenation.
LEMMA BeforeConcat ==
  ASSUME NEW S, NEW s \in Seq(S), NEW t \in Seq(S), NEW a, NEW b
  PROVE  /\ In(s \o t, a) <=> In(s, a) \/ In(t, a)
         /\ Before(s \o t, a, b) <=>
              Before(s, a, b) \/ Before(t, a, b) \/ (In(s, a) /\ In(t, b))
<1> DEFINE u == s \o t
           m == Len(s)
           n == Len(t)
<1>1. /\ m \in Nat /\ n \in Nat /\ DOMAIN s = 1..m /\ DOMAIN t = 1..n
      /\ DOMAIN u = 1..(m + n)
      /\ \A i \in 1..(m + n) : u[i] = IF i <= m THEN s[i] ELSE t[i - m]
  BY ConcatProperties, LenProperties
<1> HIDE DEF u, m, n
<1>2. /\ \A i \in 1..m : i \in 1..(m + n) /\ u[i] = s[i]
      /\ \A i \in 1..n : m + i \in 1..(m + n) /\ u[m + i] = t[i]
  BY <1>1
<1>3. \A i \in 1..(m + n) :
        \/ i \in 1..m /\ u[i] = s[i]
        \/ i > m /\ i - m \in 1..n /\ u[i] = t[i - m]
  BY <1>1
<1>4. In(u, a) <=> In(s, a) \/ In(t, a)
  <2>1. ASSUME In(u, a) PROVE In(s, a) \/ In(t, a)
    <3> PICK i \in 1..(m + n) : u[i].id = a
      BY <1>1, <2>1 DEF In
    <3> QED BY <1>1, <1>3 DEF In
  <2>2. ASSUME In(s, a) \/ In(t, a) PROVE In(u, a)
    BY <1>1, <1>2, <2>2 DEF In
  <2> QED BY <2>1, <2>2
<1>5. ASSUME Before(u, a, b)
      PROVE  Before(s, a, b) \/ Before(t, a, b) \/ (In(s, a) /\ In(t, b))
  <2> PICK i \in 1..(m + n), j \in 1..(m + n) : i < j /\ u[i].id = a /\ u[j].id = b
    BY <1>1, <1>5 DEF Before
  <2>1. CASE i \in 1..m /\ j \in 1..m
    BY <1>1, <1>2, <2>1 DEF Before
  <2>2. CASE i \in 1..m /\ j > m
    <3>1. j - m \in 1..n /\ u[j] = t[j - m]
      BY <1>1, <1>3, <2>2
    <3>2. In(s, a)
      BY <1>1, <1>2, <2>2 DEF In
    <3>3. In(t, b)
      BY <1>1, <3>1 DEF In
    <3> QED BY <3>2, <3>3
  <2>3. CASE i > m /\ j > m
    <3>1. i - m \in 1..n /\ j - m \in 1..n /\ i - m < j - m
      BY <1>1, <1>3, <2>3
    <3>2. t[i - m].id = a /\ t[j - m].id = b
      BY <1>1, <1>3, <2>3
    <3> QED BY <1>1, <3>1, <3>2 DEF Before
  <2> QED BY <1>1, <2>1, <2>2, <2>3
<1>6. ASSUME Before(s, a, b) PROVE Before(u, a, b)
  BY <1>1, <1>2, <1>6 DEF Before
<1>7. ASSUME Before(t, a, b) PROVE Before(u, a, b)
  <2> PICK i \in 1..n, j \in 1..n : i < j /\ t[i].id = a /\ t[j].id = b
    BY <1>1, <1>7 DEF Before
  <2>1. m + i < m + j /\ m + i \in 1..(m + n) /\ m + j \in 1..(m + n)
    BY <1>1
  <2>2. u[m + i].id = a /\ u[m + j].id = b
    BY <1>2
  <2> QED BY <1>1, <2>1, <2>2 DEF Before
<1>8. ASSUME In(s, a), In(t, b) PROVE Before(u, a, b)
  <2> PICK i \in 1..m, j \in 1..n : s[i].id = a /\ t[j].id = b
    BY <1>1, <1>8 DEF In
  <2>1. i < m + j /\ i \in 1..(m + n) /\ m + j \in 1..(m + n)
    BY <1>1
  <2>2. u[i].id = a /\ u[m + j].id = b
    BY <1>2
  <2> QED BY <1>1, <2>1, <2>2 DEF Before
<1> QED BY <1>4, <1>5, <1>6, <1>7, <1>8 DEF u

\* There is no order in fewer than two.
LEMMA BeforeEmpty == \A a, b : ~In(<<>>, a) /\ ~Before(<<>>, a, b)
<1>1. DOMAIN <<>> = {}
  OBVIOUS
<1> QED BY <1>1 DEF In, Before

\* Nor in one.
LEMMA BeforeSingle ==
  ASSUME NEW e
  PROVE  \A a, b : (In(<<e>>, a) <=> e.id = a) /\ ~Before(<<e>>, a, b)
<1>1. DOMAIN <<e>> = {1} /\ <<e>>[1] = e
  OBVIOUS
<1> QED BY <1>1 DEF In, Before

\* The order of a sequence and one more.
LEMMA BeforeAppend ==
  ASSUME NEW S, NEW s \in Seq(S), NEW e \in S, NEW a, NEW b
  PROVE  /\ In(Append(s, e), a) <=> In(s, a) \/ e.id = a
         /\ Before(Append(s, e), a, b) <=> Before(s, a, b) \/ (In(s, a) /\ e.id = b)
<1>1. Append(s, e) = s \o <<e>> /\ <<e>> \in Seq(S)
  BY AppendIsConcat
<1>2. /\ In(s \o <<e>>, a) <=> In(s, a) \/ In(<<e>>, a)
      /\ Before(s \o <<e>>, a, b) <=>
           Before(s, a, b) \/ Before(<<e>>, a, b) \/ (In(s, a) /\ In(<<e>>, b))
  BY <1>1, BeforeConcat
<1> QED BY <1>1, <1>2, BeforeSingle

\* The order of three parts.
LEMMA BeforeParts ==
  ASSUME NEW S, NEW s \in Seq(S), NEW t \in Seq(S), NEW u \in Seq(S), NEW a, NEW b
  PROVE  /\ In(s \o t \o u, a) <=> In(s, a) \/ In(t, a) \/ In(u, a)
         /\ Before(s \o t \o u, a, b) <=>
              \/ Before(s, a, b) \/ Before(t, a, b) \/ Before(u, a, b)
              \/ In(s, a) /\ In(t, b)
              \/ In(s, a) /\ In(u, b)
              \/ In(t, a) /\ In(u, b)
<1> DEFINE v == s \o t
<1>1. v \in Seq(S)
  BY ConcatProperties
<1>2. /\ In(v, a) <=> In(s, a) \/ In(t, a)
      /\ Before(v, a, b) <=> Before(s, a, b) \/ Before(t, a, b) \/ (In(s, a) /\ In(t, b))
  BY BeforeConcat
<1> HIDE DEF v
<1>3. /\ In(v \o u, a) <=> In(v, a) \/ In(u, a)
      /\ Before(v \o u, a, b) <=> Before(v, a, b) \/ Before(u, a, b) \/ (In(v, a) /\ In(u, b))
  BY <1>1, BeforeConcat
<1> QED BY <1>2, <1>3 DEF v

\* Only elements are ordered, and with distinct ids only one way.
LEMMA BeforeOneWay ==
  ASSUME NEW S, NEW s \in Seq(S), DistinctIds(s), NEW a, NEW b, Before(s, a, b)
  PROVE  In(s, a) /\ In(s, b) /\ ~Before(s, b, a)
<1> PICK i \in DOMAIN s, j \in DOMAIN s : i < j /\ s[i].id = a /\ s[j].id = b
  BY DEF Before
<1>1. In(s, a) /\ In(s, b)
  BY DEF In
<1>2. ASSUME Before(s, b, a) PROVE FALSE
  <2> PICK k \in DOMAIN s, l \in DOMAIN s : k < l /\ s[k].id = b /\ s[l].id = a
    BY <1>2 DEF Before
  <2>1. k = j /\ l = i
    BY DEF DistinctIds
  <2> QED BY <2>1, LenProperties
<1> QED BY <1>1, <1>2

\* Removing an element leaves the others in order.
LEMMA BeforeRemoved ==
  ASSUME NEW S, NEW s \in Seq(S), NEW i \in DOMAIN s, NEW a, NEW b,
         Before(RemoveAt(s, i), a, b)
  PROVE  Before(s, a, b)
<1>1. /\ Len(s) \in Nat /\ DOMAIN s = 1..Len(s) /\ RemoveAt(s, i) \in Seq(S)
      /\ DOMAIN RemoveAt(s, i) = 1..(Len(s) - 1)
      /\ \A j \in 1..(Len(s) - 1) : RemoveAt(s, i)[j] = IF j < i THEN s[j] ELSE s[j + 1]
  BY RemoveAtType, LenProperties
<1> PICK j \in 1..(Len(s) - 1), k \in 1..(Len(s) - 1) :
       j < k /\ RemoveAt(s, i)[j].id = a /\ RemoveAt(s, i)[k].id = b
  BY <1>1 DEF Before
<1> DEFINE x == IF j < i THEN j ELSE j + 1
           y == IF k < i THEN k ELSE k + 1
<1>2. x \in DOMAIN s /\ y \in DOMAIN s /\ x < y
  BY <1>1
<1>3. s[x].id = a /\ s[y].id = b
  BY <1>1
<1> QED BY <1>2, <1>3 DEF Before

\* Replacing an element by one with its id changes nothing.
LEMMA BeforeReplaced ==
  ASSUME NEW S, NEW s \in Seq(S), NEW i \in DOMAIN s, NEW e, e.id = s[i].id,
         NEW a, NEW b
  PROVE  Before(ReplacedAt(s, i, e), a, b) <=> Before(s, a, b)
<1> DEFINE r == ReplacedAt(s, i, e)
<1>1. DOMAIN r = DOMAIN s /\ \A j \in DOMAIN s : r[j].id = s[j].id
  BY LenProperties DEF ReplacedAt
<1> HIDE DEF r
<1>2. Before(r, a, b) <=> Before(s, a, b)
  BY <1>1 DEF Before
<1> QED BY <1>2 DEF r

(***************************************************************************)
(* The order of the roster.                                                *)
(***************************************************************************)

\* A step orders no two children of the roster that were not so ordered.
OrderFollows ==
  \A a, b : Before(Roster', a, b) => Before(Roster, a, b) \/ ~In(Roster, a) \/ ~In(Roster, b)

\* The roster by its parts, before and after a step.
LEMMA RosterParts ==
  ASSUME TypeOK, TypeOK'
  PROVE  /\ Roster = children \o work.back \o Pool
         /\ Roster' = children' \o work'.back \o Pool'
         /\ children \in Seq(Child) /\ work.back \in Seq(Child) /\ Pool \in Seq(Child)
         /\ children' \in Seq(Child) /\ work'.back \in Seq(Child) /\ Pool' \in Seq(Child)
         /\ work.todo \in Seq(Child) /\ work'.todo \in Seq(Child)
<1>1. work.todo \in Seq(Child) /\ work'.todo \in Seq(Child)
  BY DEF TypeOK, VarTypes, Work
<1>2. Pool \in Seq(Child) /\ Pool' \in Seq(Child)
  BY <1>1, EmptySeq DEF Pool
<1> QED BY <1>1, <1>2 DEF TypeOK, VarTypes, Work, Roster, Pool

\* The order before and after a step, part by part.
LEMMA RosterOrder ==
  ASSUME TypeOK, TypeOK', NEW a, NEW b
  PROVE  /\ In(Roster, a) <=> In(children, a) \/ In(work.back, a) \/ In(Pool, a)
         /\ Before(Roster, a, b) <=>
              \/ Before(children, a, b) \/ Before(work.back, a, b) \/ Before(Pool, a, b)
              \/ In(children, a) /\ In(work.back, b)
              \/ In(children, a) /\ In(Pool, b)
              \/ In(work.back, a) /\ In(Pool, b)
         /\ Before(Roster', a, b) <=>
              \/ Before(children', a, b) \/ Before(work'.back, a, b) \/ Before(Pool', a, b)
              \/ In(children', a) /\ In(work'.back, b)
              \/ In(children', a) /\ In(Pool', b)
              \/ In(work'.back, a) /\ In(Pool', b)
<1>1. /\ In(children \o work.back \o Pool, a) <=>
           In(children, a) \/ In(work.back, a) \/ In(Pool, a)
      /\ Before(children \o work.back \o Pool, a, b) <=>
              \/ Before(children, a, b) \/ Before(work.back, a, b) \/ Before(Pool, a, b)
              \/ In(children, a) /\ In(work.back, b)
              \/ In(children, a) /\ In(Pool, b)
              \/ In(work.back, a) /\ In(Pool, b)
  BY RosterParts, BeforeParts
<1>2. Before(children' \o work'.back \o Pool', a, b) <=>
              \/ Before(children', a, b) \/ Before(work'.back, a, b) \/ Before(Pool', a, b)
              \/ In(children', a) /\ In(work'.back, b)
              \/ In(children', a) /\ In(Pool', b)
              \/ In(work'.back, a) /\ In(Pool', b)
  BY RosterParts, BeforeParts
<1> QED BY <1>1, <1>2, RosterParts

\* After a step that leaves nothing in hand, the list is the roster.
LEMMA ListOrder ==
  ASSUME TypeOK, TypeOK', work'.back = <<>>, Pool' = <<>>, NEW a, NEW b
  PROVE  Before(Roster', a, b) <=> Before(children', a, b)
<1>1. ~In(<<>>, b) /\ ~Before(<<>>, a, b)
  BY BeforeEmpty
<1>2. ~In(work'.back, b) /\ ~Before(work'.back, a, b) /\ ~In(Pool', b) /\ ~Before(Pool', a, b)
  BY <1>1
<1> QED BY <1>2, RosterOrder

\* A roster that stays as it is.
LEMMA SameOrder ==
  ASSUME TypeOK, TypeOK', children' = children, work'.back = work.back, Pool' = Pool
  PROVE  OrderFollows
BY RosterParts DEF OrderFollows

\* A task tells the handler in progress something and moves no child.
LEMMA TaskOrder ==
  ASSUME TypeOK, TypeOK', NEW t \in DOMAIN task, Runs(t) \/ MustRun(t)
  PROVE  OrderFollows
<1>1. children' = children
  BY DEF Runs, MustRun, InitOk, InitFails, ShutdownSeen, RunReturns, HookReturns, Panic,
         Block, Unblock, NestedEscalates, ReportInitFailure, Cancelled, NestedStops
<1>2. work' = work \/ \E reply \in {"Ok", "Err", "Closed"} : work' = Told(t, reply)
  BY DEF Runs, MustRun, InitOk, InitFails, ShutdownSeen, RunReturns, HookReturns, Panic,
         Block, Unblock, NestedEscalates, ReportInitFailure, Cancelled, NestedStops
<1>3. work'.op = work.op /\ work'.todo = work.todo /\ work'.back = work.back
  BY <1>2, ToldType
<1> QED BY <1>1, <1>3, SameOrder DEF Pool

\* At rest the children are the roster.
LEMMA OrderAtRest ==
  ASSUME TypeOK, TypeOK', work.op = "idle"
  PROVE  work.back = <<>> /\ Pool = <<>>
BY DEF TypeOK, WorkShape, Pool

\* A child that is started comes last.
LEMMA StartOrder ==
  ASSUME TypeOK, TypeOK', HandleStartChild \/ HandleStartChildLinked
  PROVE  OrderFollows
<1> DEFINE n == Requested(Head(queue))
<1>1. /\ work.op = "idle" /\ Head(queue) \in Command /\ Head(queue).cmd \in CallName
      /\ ~Listed(Head(queue).id)
  <2>1. /\ \E name \in CallName : Receives(name)
        /\ ~Listed(Head(queue).id)
    BY DEF HandleStartChild, HandleStartChildLinked, CallName
  <2> QED BY <2>1, ReceivesType DEF Idle
<1>2. n \in Child /\ n.id = Head(queue).id
  BY <1>1, RequestedType DEF TypeOK
<1>3. ~In(children, n.id)
  BY <1>1, <1>2 DEF Listed, In
<1>4. \/ children' = Append(children, n) /\ work'.back = <<>> /\ Pool' = <<>>
      \/ children' = children /\ work'.back = <<>> /\ Pool' = <<n>>
  <2>1. CASE HandleStartChild
    BY <1>1, <2>1, OrderAtRest DEF HandleStartChild, Pool
  <2>2. CASE HandleStartChildLinked
    <3>1. children' = children /\ work'.op = "link"
      BY <2>2 DEF HandleStartChildLinked, Begin, Idle
    <3>2. work'.back = <<>> /\ work'.todo = <<n>>
      BY <2>2 DEF HandleStartChildLinked, Begin, Idle
    <3> QED BY <3>1, <3>2 DEF Pool
  <2> QED BY <2>1, <2>2
<1> HIDE DEF n
<1> SUFFICES ASSUME NEW a, NEW b, Before(Roster', a, b)
             PROVE  Before(Roster, a, b) \/ ~In(Roster, b)
  BY DEF OrderFollows
<1>5. Before(children, a, b) \/ b = n.id
  <2>1. CASE children' = Append(children, n) /\ work'.back = <<>> /\ Pool' = <<>>
    BY <1>2, <2>1, ListOrder, BeforeAppend, RosterParts
  <2>2. CASE children' = children /\ work'.back = <<>> /\ Pool' = <<n>>
    <3>1. ~Before(<<>>, a, b) /\ ~In(<<>>, a) /\ ~In(<<>>, b)
      BY BeforeEmpty
    <3>2. ~Before(<<n>>, a, b) /\ (In(<<n>>, b) <=> n.id = b)
      BY BeforeSingle
    <3>3. /\ ~Before(work'.back, a, b) /\ ~In(work'.back, a) /\ ~In(work'.back, b)
          /\ ~Before(Pool', a, b) /\ (In(Pool', b) <=> n.id = b)
      BY <2>2, <3>1, <3>2
    <3> QED BY <2>2, <3>3, RosterOrder
  <2> QED BY <1>4, <2>1, <2>2
<1>6. (In(Roster, b) <=> In(children, b)) /\ (Before(children, a, b) => Before(Roster, a, b))
  BY <1>1, OrderAtRest, RosterOrder, BeforeEmpty
<1> QED BY <1>3, <1>5, <1>6

\* A linked start puts its worker where it already was on the roster, or drops it.
LEMMA LinkOrder ==
  ASSUME TypeOK, TypeOK',
         LinkOk \/ \E a \in {"InitializationFailed", "InitializationTimeout"} : LinkFails(a)
  PROVE  OrderFollows
<1> DEFINE n == Head(work.todo)
<1>1. work.op = "link" /\ work'.op = "idle" /\ work'.back = <<>> /\ Pool' = <<>>
  BY DEF LinkOk, LinkFails, Idle, Pool
<1>2. work.back = <<>> /\ Len(work.todo) = 1 /\ Pool = work.todo
  BY <1>1 DEF TypeOK, WorkShape, Pool
<1>3. work.todo = <<n>> /\ n \in Child
  BY <1>2, RosterParts, HeadTailProperties, SingletonType
<1>4. children' = Append(children, n) \/ children' = children
  BY DEF LinkOk, LinkFails
<1> HIDE DEF n
<1> SUFFICES ASSUME NEW a, NEW b, Before(Roster', a, b)
             PROVE  Before(Roster, a, b)
  BY DEF OrderFollows
<1>5. Before(children, a, b) \/ (In(children, a) /\ n.id = b)
  <2>1. Before(children', a, b) /\ children \in Seq(Child)
    BY <1>1, ListOrder, RosterParts
  <2>2. Before(Append(children, n), a, b) <=>
          Before(children, a, b) \/ (In(children, a) /\ n.id = b)
    BY <1>3, <2>1, BeforeAppend
  <2> QED BY <1>4, <2>1, <2>2
<1>6. In(<<n>>, b) <=> n.id = b
  BY BeforeSingle
<1> QED BY <1>2, <1>3, <1>5, <1>6, RosterOrder

\* A child that leaves, and a supervisor that stops, take nothing out of order.
LEMMA LeaveOrder ==
  ASSUME TypeOK, TypeOK', DropChild \/ HandleTerminateChild \/ Escalate \/ HandleShutdown
  PROVE  OrderFollows
<1>1. work.op = "idle"
  <2>1. \E name : Receives(name)
    BY DEF DropChild, HandleTerminateChild, Escalate, HandleShutdown, Concerns
  <2> QED BY <2>1 DEF Receives
<1>2. work'.op \in {"idle", "terminate", "escalate", "shutdown"} /\ work'.back = <<>>
  <2>1. CASE DropChild
    BY <1>1, <2>1, OrderAtRest DEF DropChild
  <2>2. CASE HandleTerminateChild
    BY <2>2 DEF HandleTerminateChild, Begin, Idle
  <2>3. CASE Escalate \/ HandleShutdown
    BY <2>3 DEF Escalate, HandleShutdown, Begin, Idle
  <2> QED BY <2>1, <2>2, <2>3
<1>3. Pool' = <<>>
  BY <1>2 DEF Pool
<1>4. children' = <<>> \/ \E i \in DOMAIN children : children' = RemoveAt(children, i)
  BY DEF DropChild, HandleTerminateChild, Escalate, HandleShutdown
<1> SUFFICES ASSUME NEW a, NEW b, Before(Roster', a, b)
             PROVE  Before(Roster, a, b)
  BY DEF OrderFollows
<1>5. Before(children', a, b)
  BY <1>2, <1>3, ListOrder
<1>6. Before(children, a, b)
  <2>1. CASE children' = <<>>
    BY <1>5, <2>1, BeforeEmpty
  <2>2. CASE \E i \in DOMAIN children : children' = RemoveAt(children, i)
    BY <1>5, <2>2, RosterParts, BeforeRemoved
  <2> QED BY <1>4, <2>1, <2>2
<1> QED BY <1>6, RosterOrder

\* A round begins: RestForOne takes the end of the list in hand.
LEMMA BeginOrder ==
  ASSUME TypeOK, TypeOK', RestartNow \/ HandleRestartChild
  PROVE  OrderFollows
<1> PICK i \in DOMAIN children : BeginRound(i)
  BY DEF RestartNow, HandleRestartChild
<1>1. work.op = "idle"
  BY DEF RestartNow, HandleRestartChild, Concerns, Receives
<1>2. work.back = <<>> /\ Pool = <<>>
  BY <1>1, OrderAtRest
<1> DEFINE l == SubSeq(children, 1, i - 1)
           r == SubSeq(children, i, Len(children))
<1>3. /\ work'.back = <<>>
      /\ \/ children' = children /\ Pool' = <<>>
         \/ children' = l /\ Pool' = r
  BY DEF BeginRound, Begin, Idle, Pool
<1>4. l \in Seq(Child) /\ r \in Seq(Child) /\ l \o r = children
  <2>1. /\ l \in Seq(Child) /\ SubSeq(children, i + 1, Len(children)) \in Seq(Child)
        /\ children[i] \in Child
        /\ children = l \o (<<children[i]>> \o SubSeq(children, i + 1, Len(children)))
        /\ r = <<children[i]>> \o SubSeq(children, i + 1, Len(children))
    BY SplitAt, RosterParts
  <2>2. r \in Seq(Child)
    BY <2>1, SingletonType, ConcatProperties
  <2> QED BY <2>1, <2>2
<1> HIDE DEF l, r
<1>5. CASE children' = children /\ Pool' = <<>>
  BY <1>2, <1>3, <1>5, SameOrder
<1>6. CASE children' = l /\ Pool' = r
  <2> SUFFICES ASSUME NEW a, NEW b, Before(Roster', a, b)
               PROVE  Before(Roster, a, b)
    BY DEF OrderFollows
  <2>1. Before(l, a, b) \/ Before(r, a, b) \/ (In(l, a) /\ In(r, b))
    BY <1>3, <1>6, RosterOrder, BeforeEmpty
  <2>2. Before(children, a, b)
    BY <1>4, <2>1, BeforeConcat
  <2> QED BY <2>2, RosterOrder
<1> QED BY <1>3, <1>5, <1>6

\* Handlers that stop children, and the end of one, move none.
LEMMA StopOrder ==
  ASSUME TypeOK, TypeOK', BeginStop \/ StopTimesOut \/ StopNext \/ FinishTerminate \/ Exit
  PROVE  OrderFollows
<1>1. children' = children
  BY DEF BeginStop, StopTimesOut, StopNext, FinishTerminate, Exit
<1>2. CASE BeginStop \/ StopTimesOut
  <2>1. work'.op = work.op /\ work'.todo = work.todo /\ work'.back = work.back
    BY <1>2 DEF BeginStop, StopTimesOut, TypeOK, VarTypes, Work
  <2> QED BY <1>1, <2>1, SameOrder DEF Pool
<1>3. CASE StopNext
  <2>1. work'.op = work.op /\ work.op \in {"all", "shutdown", "escalate"}
        /\ work'.back = work.back
    BY <1>3 DEF StopNext, Advanced, TypeOK, VarTypes, Work
  <2> QED BY <1>1, <2>1, SameOrder DEF Pool
<1>4. CASE FinishTerminate \/ Exit
  <2>1. work.op \in {"terminate", "shutdown", "escalate"} /\ work' = Idle
    BY <1>4 DEF FinishTerminate, Exit
  <2>2. work.back = <<>> /\ work'.back = <<>> /\ work'.op = "idle"
    BY <2>1 DEF TypeOK, WorkShape, Idle
  <2> QED BY <1>1, <2>1, <2>2, SameOrder DEF Pool
<1> QED BY <1>2, <1>3, <1>4

\* A child restarted alone stays in its place.
LEMMA OneOrder ==
  ASSUME TypeOK, TypeOK', RestartOne
  PROVE  OrderFollows
<1> PICK i \in DOMAIN children : children' = [children EXCEPT ![i] = WithNewTask(@)]
  BY DEF RestartOne
<1> DEFINE n == WithNewTask(children[i])
<1>1. n.id = children[i].id
  BY ChildType, WithNewTaskType DEF TypeOK
<1>2. children' = ReplacedAt(children, i, n)
  BY DEF ReplacedAt
<1> HIDE DEF n
<1>3. work'.back = <<>> /\ Pool' = <<>>
  BY DEF RestartOne, Idle, Pool
<1> SUFFICES ASSUME NEW a, NEW b, Before(Roster', a, b)
             PROVE  Before(Roster, a, b)
  BY DEF OrderFollows
<1>4. Before(children', a, b)
  BY <1>3, ListOrder
<1>5. Before(children, a, b)
  BY <1>1, <1>2, <1>4, RosterParts, BeforeReplaced
<1> QED BY <1>5, RosterOrder

\* OneForAll takes the whole list in hand, and a round puts back what it has.
LEMMA WholeOrder ==
  ASSUME TypeOK, TypeOK', DrainAll \/ EndRound
  PROVE  OrderFollows
<1> SUFFICES ASSUME NEW a, NEW b, Before(Roster', a, b)
             PROVE  Before(Roster, a, b)
  BY DEF OrderFollows
<1>1. CASE DrainAll
  <2>1. children' = <<>> /\ work'.back = <<>> /\ Pool' = children
    BY <1>1 DEF DrainAll, Begin, Idle, Pool
  <2>2. Before(children, a, b)
    BY <2>1, RosterOrder, BeforeEmpty
  <2> QED BY <2>2, RosterOrder
<1>2. CASE EndRound
  <2>1. children' = children \o work.back /\ work'.back = <<>> /\ Pool' = <<>>
    BY <1>2 DEF EndRound, Idle, Pool
  <2>2. Before(children \o work.back, a, b)
    BY <2>1, ListOrder
  <2> QED BY <2>2, RosterParts, BeforeConcat, RosterOrder
<1> QED BY <1>1, <1>2

\* A child that is respawned moves from the head of what is left to the end of
\* what is done.
LEMMA RespawnOrder ==
  ASSUME IInv, TypeOK', RespawnHead
  PROVE  OrderFollows
<1> DEFINE c == Head(work.todo)
           r == Tail(work.todo)
           n == WithNewTask(c)
<1>1. TypeOK /\ work.op \in {"respawn", "from"} /\ work.todo # <<>>
  BY HeadIsStopped DEF RespawnHead, IInv
<1>2. c \in Child /\ r \in Seq(Child) /\ work.todo = <<c>> \o r /\ <<c>> \in Seq(Child)
  BY <1>1, RosterParts, HeadTailProperties, HeadThenTail, SingletonType
<1>3. n \in Child /\ n.id = c.id
  BY <1>1, <1>2, WithNewTaskType DEF TypeOK
<1>4. /\ children' = children /\ work'.op = work.op /\ work'.todo = r
      /\ work'.back = work.back \/ work'.back = Append(work.back, n)
  BY <1>1 DEF RespawnHead, Advanced, TypeOK, VarTypes, Work
<1> HIDE DEF c, r, n
<1>5. Pool = <<c>> \o r /\ Pool' = r
  BY <1>1, <1>2, <1>4 DEF Pool
<1> SUFFICES ASSUME NEW a, NEW b, Before(Roster', a, b)
             PROVE  Before(Roster, a, b)
  BY DEF OrderFollows
<1>6. /\ Before(Pool, a, b) <=> Before(r, a, b) \/ (c.id = a /\ In(r, b))
      /\ In(Pool, b) <=> c.id = b \/ In(r, b)
  <2>1. /\ Before(<<c>> \o r, a, b) <=>
             Before(<<c>>, a, b) \/ Before(r, a, b) \/ (In(<<c>>, a) /\ In(r, b))
        /\ In(<<c>> \o r, b) <=> In(<<c>>, b) \/ In(r, b)
    BY <1>2, BeforeConcat
  <2> QED BY <1>5, <2>1, BeforeSingle
<1>7. /\ Before(Append(work.back, n), a, b) <=>
           Before(work.back, a, b) \/ (In(work.back, a) /\ c.id = b)
      /\ In(Append(work.back, n), a) <=> In(work.back, a) \/ c.id = a
      /\ In(Append(work.back, n), b) <=> In(work.back, b) \/ c.id = b
  <2>1. work.back \in Seq(Child)
    BY <1>1, RosterParts
  <2>2. \A x, y :
          /\ In(Append(work.back, n), x) <=> In(work.back, x) \/ n.id = x
          /\ Before(Append(work.back, n), x, y) <=>
               Before(work.back, x, y) \/ (In(work.back, x) /\ n.id = y)
    BY <1>3, <2>1, BeforeAppend
  <2> QED BY <1>3, <2>2
<1>8. \/ Before(children, a, b) \/ Before(work'.back, a, b) \/ Before(r, a, b)
      \/ In(children, a) /\ In(work'.back, b)
      \/ In(children, a) /\ In(r, b)
      \/ In(work'.back, a) /\ In(r, b)
  BY <1>1, <1>4, <1>5, RosterOrder
<1>9. \/ Before(children, a, b) \/ Before(work.back, a, b) \/ Before(Pool, a, b)
      \/ In(children, a) /\ In(work.back, b)
      \/ In(children, a) /\ In(Pool, b)
      \/ In(work.back, a) /\ In(Pool, b)
  BY <1>4, <1>6, <1>7, <1>8
<1> QED BY <1>1, <1>9, RosterOrder

\* Every step follows the order.
LEMMA NextOrder == IInv /\ IInv' /\ [Next]_vars => OrderFollows
<1> SUFFICES ASSUME IInv, IInv', [Next]_vars PROVE OrderFollows
  OBVIOUS
<1> USE DEF IInv
<1>1. CASE \/ UNCHANGED vars
           \/ \E c \in Client, k \in Calls : Call(c, k)
           \/ \E m \in timers : TimerFires(m)
           \/ HandleQuery \/ RefuseDuplicate \/ RefuseUnknown \/ IgnoreReport \/ SkipRestart
           \/ RestartLater
  <2>1. UNCHANGED <<children, work>>
    BY <1>1 DEF vars, Call, TimerFires, HandleQuery, RefuseDuplicate, RefuseUnknown,
       IgnoreReport, SkipRestart, RestartLater
  <2> QED BY <2>1, SameOrder DEF Pool
<1>2. CASE \E t \in DOMAIN task : Runs(t) \/ MustRun(t)
  BY <1>2, TaskOrder
<1>3. CASE Runtime
  BY <1>1, <1>3, StartOrder, LinkOrder, LeaveOrder, BeginOrder, StopOrder, OneOrder,
     WholeOrder, RespawnOrder DEF Runtime
<1> QED BY <1>1, <1>2, <1>3 DEF Next

\* No two children are ever swapped: RestForOne restarts those started after
\* the one that failed, also after any number of earlier rounds.
THEOREM OrderSurvives == Spec => StartOrderKept
<1>1. IInv /\ IInv' /\ [Next]_vars =>
        [\A a, b \in Id : Before(Roster, a, b) => ~Before(Roster, b, a)']_vars
  <2> SUFFICES ASSUME IInv, IInv', [Next]_vars, NEW a \in Id, NEW b \in Id,
                      Before(Roster, a, b), Before(Roster', b, a)
               PROVE  FALSE
    OBVIOUS
  <2>1. Roster \in Seq(Child) /\ DistinctIds(Roster)
    <3>1. TypeOK /\ TypeOK' /\ DistinctIds(Roster)
      BY DEF IInv, UniqueIds
    <3>2. children \o work.back \in Seq(Child)
      BY <3>1, RosterParts, ConcatProperties
    <3>3. children \o work.back \o Pool \in Seq(Child)
      BY <3>1, <3>2, RosterParts, ConcatProperties
    <3> QED BY <3>1, <3>3, RosterParts
  <2>2. In(Roster, a) /\ In(Roster, b) /\ ~Before(Roster, b, a)
    BY <2>1, BeforeOneWay
  <2> QED BY <2>2, NextOrder DEF OrderFollows
<1> QED BY <1>1, Safe, PTL DEF Spec, StartOrderKept

(***************************************************************************)
(* No child is lost: when the task of a listed child has ended, something  *)
(* about that very task is still to be handled, unless it panicked.        *)
(*                                                                         *)
(* The supervisor looks children up by id and ignores every report whose   *)
(* reason is Shutdown, so the property rests on facts about tasks that it  *)
(* never mentions: a child that no handler is stopping was neither         *)
(* signalled nor aborted, so that nothing it reports is ignored, and what  *)
(* is said of its task carries its id, so that the lookup finds it.        *)
(***************************************************************************)

\* What is said of tasks, in the channel or by a timer that will fire.
Letters == SetOf(queue) \cup timers

About(m, t) == m.cmd \in {"ChildTerminated", "RestartChild"} /\ m.by = t

Reported(t) == \E m \in Letters : About(m, t)

\* Nobody asked the task of c to stop; its end, but for a panic, is reported,
\* and no report of it will be ignored.
Unasked(c) ==
  /\ ~task[c.task].signal /\ ~task[c.task].abort
  /\ task[c.task].pc = "hook" => ~IsOwnDoing(task[c.task].reason)
  /\ task[c.task].pc \in Ends => task[c.task].pc = "panicked" \/ Reported(c.task)
  /\ \A m \in Letters :
       m.cmd = "ChildTerminated" /\ m.by = c.task => ~IsOwnDoing(m.reason)

\* Children listed, put back or being linked, but for those being stopped.
Watched ==
  IF work.op = "all" THEN {}
  ELSE (SetOf(children) \cup SetOf(work.back)
          \cup (IF work.op = "link" THEN SetOf(work.todo) ELSE {}))
         \ (IF work.op = "one" THEN SetOf(work.todo) ELSE {})

\* What is said of a task carries its id.
Addressed ==
  \A m \in Letters :
    m.cmd \in {"ChildTerminated", "RestartChild"} =>
      m.by \in DOMAIN task /\ task[m.by].id = m.id

\* A child being stopped is not under the id of one that is not.
Aside ==
  work.op # "link" => \A c \in Watched, d \in SetOf(work.todo) : c.id # d.id

Notes ==
  status = "running" => Addressed /\ Aside /\ \A c \in Watched : Unasked(c)

\* It implies that no child is lost.
LEMMA NotesSuffice == IInv /\ Notes => NoLostChild
<1> SUFFICES ASSUME IInv, Notes, NEW c \in SetOf(children), status = "running",
                    task[c.task].pc \in Ends \ {"panicked"},
                    ~(work.op = "one" /\ Head(work.todo) = c), work.op # "all"
             PROVE  \/ Pending(c.task, {"ChildTerminated", "RestartChild"}) # {}
                    \/ \E m \in timers : m.by = c.task
  BY DEF NoLostChild
<1>1. c \in Watched
  <2>1. CASE work.op = "one"
    <3>1. SetOf(work.todo) = {Head(work.todo)}
      BY <2>1, OneLeft DEF IInv, TypeOK, VarTypes, Work, WorkShape
    <3> QED BY <2>1, <3>1 DEF Watched
  <2>2. CASE work.op # "one"
    BY <2>2 DEF Watched
  <2> QED BY <2>1, <2>2
<1>2. PICK m \in Letters : About(m, c.task)
  BY <1>1 DEF Notes, Unasked, Reported
<1>3. CASE m \in timers
  BY <1>2, <1>3 DEF About
<1>4. CASE m \in SetOf(queue)
  <2> PICK k \in DOMAIN queue : m = queue[k]
    BY <1>4 DEF SetOf
  <2>1. k \in Pending(c.task, {"ChildTerminated", "RestartChild"})
    BY <1>2 DEF About, Pending
  <2> QED BY <2>1
<1> QED BY <1>3, <1>4 DEF Letters

(***************************************************************************)
(* What a step does to the letters and to the children watched.            *)
(***************************************************************************)

\* Sending adds one letter.
LEMMA LettersSent ==
  ASSUME TypeOK, status = "running", NEW m \in Command, queue' = Sent(m), timers' = timers
  PROVE  Letters' = Letters \cup {m}
<1>1. SetOf(Append(queue, m)) = SetOf(queue) \cup {m}
  BY SetOfAppend DEF TypeOK, VarTypes
<1> QED BY <1>1 DEF Letters, Sent

\* Receiving takes the head out of the channel.
LEMMA LettersTaken ==
  ASSUME TypeOK, NEW name, Receives(name)
  PROVE  SetOf(queue) = {Head(queue)} \cup SetOf(queue')
BY SetOfHead DEF TypeOK, VarTypes, Receives

\* The children watched stay so if nothing in hand moves.
LEMMA WatchedSame ==
  ASSUME children' = children, work'.op = work.op, work'.todo = work.todo,
         work'.back = work.back
  PROVE  Watched' = Watched /\ (Aside => Aside')
BY DEF Watched, Aside

\* At rest they are the children listed.
LEMMA WatchedAtRest ==
  /\ work = Idle => Watched = SetOf(children) /\ Aside
  /\ work' = Idle => Watched' = SetOf(children') /\ Aside'
<1>1. SetOf(<<>>) = {}
  BY SetOfSmall
<1> QED BY <1>1 DEF Watched, Aside, Idle

\* A child stays unasked if its task stays as it is and no letter about it goes
\* without being replaced by another.
LEMMA UnaskedStays ==
  ASSUME NEW c, Unasked(c), task'[c.task] = task[c.task],
         \A m \in Letters : About(m, c.task) => Reported(c.task)',
         \A m \in Letters' \ Letters : m.cmd # "ChildTerminated" \/ m.by # c.task
  PROVE  Unasked(c)'
BY DEF Unasked, Reported

\* Watched children are in hand.
LEMMA WatchedInHand ==
  ASSUME IInv, NEW c \in Watched
  PROVE  c \in Held /\ c \in Child /\ c.task \in DOMAIN task /\ task[c.task].id = c.id
<1>1. c \in Held
  BY DEF Watched, Held
<1> QED BY <1>1, InHand DEF IInv, HeldTasks

\* Tasks keep their ids.
LEMMA GrowsIds ==
  ASSUME TypeOK, TypeOK', Grows
  PROVE  \A t \in DOMAIN task : t \in DOMAIN task' /\ task'[t].id = task[t].id
<1>1. /\ Len(task) \in Nat /\ DOMAIN task = 1..Len(task)
      /\ Len(task') \in Nat /\ DOMAIN task' = 1..Len(task')
  BY LenProperties DEF TypeOK, VarTypes
<1> QED BY <1>1 DEF Grows

\* Spawning leaves the earlier tasks as they are.
LEMMA EarlierTasks ==
  ASSUME TypeOK, NEW e \in Task, task' = Append(task, e), NEW t \in DOMAIN task
  PROVE  task'[t] = task[t]
<1>1. task \in Seq(Task) /\ t \in 1..Len(task)
  BY LenProperties DEF TypeOK, VarTypes
<1>2. \A i \in 1..Len(task) : Append(task, e)[i] = task[i]
  BY <1>1, AppendProperties
<1> QED BY <1>1, <1>2

\* The notes are kept if letters are addressed, and watched children unasked.
LEMMA NotesKept ==
  ASSUME TypeOK, TypeOK', Notes, status = "running", Grows,
         \A m \in Letters' \ Letters :
           m.cmd \in {"ChildTerminated", "RestartChild"} =>
             m.by \in DOMAIN task /\ task[m.by].id = m.id,
         Aside', \A c \in Watched' : Unasked(c)'
  PROVE  Notes'
<1>1. \A t \in DOMAIN task : t \in DOMAIN task' /\ task'[t].id = task[t].id
  BY GrowsIds
<1>2. Addressed'
  BY <1>1 DEF Notes, Addressed
<1> QED BY <1>2 DEF Notes

\* The child found under the id of a letter is the one it is about, if that one
\* is listed.
LEMMA FoundById ==
  ASSUME IInv, Notes, status = "running", NEW m \in Letters,
         NEW c \in SetOf(children), About(m, c.task)
  PROVE  Listed(m.id) /\ \A i \in DOMAIN children : Position(m.id, i) => children[i] = c
<1>1. c \in Held
  BY DEF Held
<1>2. m.id = c.id
  BY <1>1 DEF About, Notes, Addressed, IInv, HeldTasks
<1>3. PICK j \in DOMAIN children : children[j] = c
  BY DEF SetOf
<1>4. DistinctIds(children)
  BY Pieces DEF IInv, UniquePieces
<1> QED BY <1>2, <1>3, <1>4 DEF Listed, Position, DistinctIds

\* The child of a task spawned in this step is unasked: nothing was said yet.
LEMMA NewUnasked ==
  ASSUME TypeOK, Notes, status = "running", NEW c, c.task = Len(task) + 1,
         NEW linked, NEW s, task'[c.task] = NewTask(s, linked),
         \A m \in Letters' : m \in Letters \/ m.cmd \notin {"ChildTerminated"}
  PROVE  Unasked(c)'
<1>1. /\ ~task'[c.task].signal /\ ~task'[c.task].abort
      /\ task'[c.task].pc \in {"init", "run"}
  BY DEF NewTask
<1>2. ASSUME NEW m \in Letters', m.cmd = "ChildTerminated" PROVE m.by # c.task
  <2>1. m.by \in DOMAIN task
    BY <1>2 DEF Notes, Addressed
  <2> QED BY <2>1, LenProperties DEF TypeOK, VarTypes
<1> QED BY <1>1, <1>2 DEF Unasked, Ends

(***************************************************************************)
(* The steps, one after the other.                                         *)
(***************************************************************************)

\* A step that adds letters at most, none of them a report, and moves neither
\* tasks nor children.
LEMMA QuietNotes ==
  ASSUME IInv, TypeOK', Notes, status = "running", task' = task,
         Watched' \subseteq Watched, Aside',
         \A m \in Letters' \ Letters : m.cmd \notin {"ChildTerminated", "RestartChild"},
         \A c \in Watched', m \in Letters : About(m, c.task) => Reported(c.task)'
  PROVE  Notes'
<1>1. Grows
  BY GrowsSame DEF IInv
<1>2. ASSUME NEW c \in Watched' PROVE Unasked(c)'
  <2>1. Unasked(c)
    BY <1>2 DEF Notes
  <2> QED BY <1>2, <2>1, UnaskedStays
<1> QED BY <1>1, <1>2, NotesKept DEF IInv

\* A call, or a timer that fires: nothing said of a task is lost.
LEMMA SendingNotes ==
  ASSUME IInv, TypeOK', Notes, status = "running",
         \/ \E c \in Client, k \in Calls : Call(c, k)
         \/ \E m \in timers : TimerFires(m)
  PROVE  Notes'
<1>1. /\ task' = task
      /\ children' = children /\ work'.op = work.op
      /\ work'.todo = work.todo /\ work'.back = work.back
  BY DEF Call, TimerFires
<1>2. Watched' = Watched /\ Aside'
  BY <1>1, WatchedSame DEF Notes
<1>3. /\ Letters \subseteq Letters'
      /\ \A m \in Letters' \ Letters : m.cmd \notin {"ChildTerminated", "RestartChild"}
  <2>1. CASE \E c \in Client, k \in Calls : Call(c, k)
    <3> PICK c \in Client, k \in Calls : Call(c, k)
      BY <2>1
    <3> DEFINE m == [cmd |-> k.cmd, id |-> k.id, policy |-> k.policy, client |-> c]
    <3>1. m \in Command /\ m.cmd \notin {"ChildTerminated", "RestartChild"}
      BY CallsAssumption DEF Command, CallCommand, CallName
    <3>2. queue' = Sent(m) /\ timers' = timers
      BY DEF Call
    <3> HIDE DEF m
    <3>3. Letters' = Letters \cup {m}
      BY <3>1, <3>2, LettersSent DEF IInv
    <3> QED BY <3>1, <3>3
  <2>2. CASE \E m \in timers : TimerFires(m)
    <3> PICK m \in timers : TimerFires(m)
      BY <2>2
    <3>1. m \in Command /\ queue' = Append(queue, m) /\ timers' = timers \ {m}
      BY DEF TimerFires, Sent, IInv, TypeOK, VarTypes, Command
    <3>2. SetOf(Append(queue, m)) = SetOf(queue) \cup {m}
      BY <3>1, SetOfAppend DEF IInv, TypeOK, VarTypes
    <3>3. Letters' = Letters
      BY <3>1, <3>2 DEF Letters
    <3> QED BY <3>3
  <2> QED BY <2>1, <2>2
<1>4. \A c \in Watched', m \in Letters : About(m, c.task) => Reported(c.task)'
  BY <1>3 DEF Reported
<1> QED BY <1>1, <1>2, <1>3, <1>4, QuietNotes

\* A command of a client, or a letter that is not about a child still watched,
\* may be taken: every other letter is still there.
LEMMA TakingNotes ==
  ASSUME IInv, TypeOK', Notes, NEW name, Receives(name), task' = task, timers' = timers,
         Watched' \subseteq Watched, Aside',
         \A c \in Watched' : ~About(Head(queue), c.task)
  PROVE  Notes'
<1>1. SetOf(queue) = {Head(queue)} \cup SetOf(queue') /\ status = "running"
  BY LettersTaken DEF IInv, Receives
<1>2. Letters = {Head(queue)} \cup Letters'
  BY <1>1 DEF Letters
<1>3. \A c \in Watched', m \in Letters : About(m, c.task) => Reported(c.task)'
  BY <1>2 DEF Reported
<1> QED BY <1>1, <1>2, <1>3, QuietNotes

\* Commands of clients that spawn nothing.
LEMMA CallsNotes ==
  ASSUME IInv, TypeOK', Notes,
         HandleQuery \/ RefuseDuplicate \/ RefuseUnknown \/ HandleTerminateChild
           \/ HandleShutdown
  PROVE  Notes'
<1>1. PICK name \in CallName : Receives(name)
  BY DEF HandleQuery, RefuseDuplicate, RefuseUnknown, HandleTerminateChild,
         HandleShutdown, CallName
<1>2. work = Idle /\ task' = task /\ timers' = timers /\ Head(queue).cmd = name
      /\ children \in Seq(Child)
  BY <1>1, ReceivesType DEF HandleQuery, RefuseDuplicate, RefuseUnknown,
     HandleTerminateChild, HandleShutdown, IInv, TypeOK, VarTypes
<1>3. \A t : ~About(Head(queue), t)
  BY <1>1, <1>2 DEF About, CallName
<1>4. Watched = SetOf(children) /\ SetOf(<<>>) = {} /\ DistinctIds(children)
  BY <1>2, WatchedAtRest, AtRest, SetOfSmall
<1>5. Watched' \subseteq Watched /\ Aside'
  <2>1. CASE HandleQuery \/ RefuseDuplicate \/ RefuseUnknown
    <3>1. UNCHANGED <<children, work>>
      BY <2>1 DEF HandleQuery, RefuseDuplicate, RefuseUnknown
    <3> QED BY <1>2, <1>4, <3>1, WatchedAtRest
  <2>2. CASE HandleTerminateChild
    <3> PICK i \in DOMAIN children :
          /\ children' = RemoveAt(children, i)
          /\ work' = [Begin("terminate", <<children[i]>>)
                        EXCEPT !.client = {Head(queue).client}]
      BY <2>2 DEF HandleTerminateChild
    <3>1. work'.op = "terminate" /\ work'.todo = <<children[i]>> /\ work'.back = <<>>
      BY DEF Begin, Idle
    <3>2. /\ SetOf(children') \subseteq SetOf(children)
          /\ \A c \in SetOf(children') : c.id # children[i].id
      BY <1>2, <1>4, SetOfSplit, DistinctSplit
    <3>3. SetOf(<<children[i]>>) = {children[i]}
      BY SetOfSmall
    <3>4. Watched' = SetOf(children')
      BY <1>4, <3>1 DEF Watched
    <3> QED BY <1>4, <3>1, <3>2, <3>3, <3>4 DEF Aside
  <2>3. CASE HandleShutdown
    <3>1. children' = <<>> /\ work'.op = "shutdown" /\ work'.back = <<>>
      BY <2>3 DEF HandleShutdown, Begin, Idle
    <3>2. Watched' = {}
      BY <1>4, <3>1 DEF Watched
    <3> QED BY <3>2 DEF Aside
  <2> QED BY <2>1, <2>2, <2>3,
             HandleQuery \/ RefuseDuplicate \/ RefuseUnknown \/ HandleTerminateChild
               \/ HandleShutdown
<1> QED BY <1>1, <1>2, <1>3, <1>5, TakingNotes

\* A worker is started: listed at once, or in hand until it is initialized.
LEMMA StartNotes ==
  ASSUME IInv, TypeOK', Notes, HandleStartChild \/ HandleStartChildLinked
  PROVE  Notes'
<1> DEFINE n == Requested(Head(queue))
<1>1. PICK name \in CallName : Receives(name)
  BY DEF HandleStartChild, HandleStartChildLinked, CallName
<1>2. /\ work = Idle /\ timers' = timers /\ status = "running"
      /\ Head(queue) \in Command /\ Head(queue).cmd = name /\ children \in Seq(Child)
  BY <1>1, ReceivesType DEF HandleStartChild, HandleStartChildLinked, IInv, TypeOK, VarTypes
<1>3. n \in Child /\ n.id = Head(queue).id /\ n.kind = "Worker" /\ n.task = Len(task) + 1
  BY <1>2, RequestedType DEF IInv, TypeOK
<1>4. Letters = {Head(queue)} \cup Letters'
  <2>1. SetOf(queue) = {Head(queue)} \cup SetOf(queue')
    BY <1>1, LettersTaken DEF IInv
  <2> QED BY <1>2, <2>1 DEF Letters
<1>5. \A t : ~About(Head(queue), t)
  BY <1>2 DEF About, CallName
<1>6. Watched = SetOf(children) /\ SetOf(<<>>) = {}
  BY <1>2, WatchedAtRest, SetOfSmall
<1>7. PICK linked \in BOOLEAN : task' = Append(task, NewTask(n, linked))
  BY DEF HandleStartChild, HandleStartChildLinked, Spawned
<1> HIDE DEF n
<1>8. Grows /\ task'[n.task] = NewTask(n, linked)
  <2>1. NewTask(n, linked) \in Task
    BY <1>3, NewTaskType DEF Child
  <2> QED BY <1>3, <1>7, <2>1, GrowsSpawned DEF IInv, TypeOK
<1>9. Watched' = Watched \cup {n} /\ Aside'
  <2>1. CASE HandleStartChild
    <3>1. children' = Append(children, n) /\ work' = Idle
      BY <1>2, <2>1 DEF HandleStartChild, n
    <3>2. SetOf(Append(children, n)) = SetOf(children) \cup {n}
      BY <1>2, <1>3, SetOfAppend
    <3> QED BY <1>6, <3>1, <3>2, WatchedAtRest
  <2>2. CASE HandleStartChildLinked
    <3>1. children' = children /\ work'.op = "link" /\ work'.todo = <<n>> /\ work'.back = <<>>
      BY <2>2 DEF HandleStartChildLinked, Begin, Idle, n
    <3>2. SetOf(<<n>>) = {n}
      BY SetOfSmall
    <3> QED BY <1>6, <3>1, <3>2 DEF Watched, Aside
  <2> QED BY <2>1, <2>2
<1>10. ASSUME NEW c \in Watched' PROVE Unasked(c)'
  <2>1. CASE c = n
    BY <1>2, <1>3, <1>4, <1>8, <2>1, NewUnasked DEF IInv
  <2>2. CASE c \in Watched
    <3>1. c.task \in DOMAIN task /\ Unasked(c)
      BY <1>2, <2>2, WatchedInHand DEF Notes
    <3>2. task'[c.task] = task[c.task]
      <4>1. NewTask(n, linked) \in Task
        BY <1>3, NewTaskType DEF Child
      <4> QED BY <1>7, <3>1, <4>1, EarlierTasks DEF IInv
    <3>3. \A m \in Letters : About(m, c.task) => Reported(c.task)'
      BY <1>4, <1>5 DEF Reported
    <3> QED BY <1>4, <3>1, <3>2, <3>3, UnaskedStays
  <2> QED BY <1>9, <1>10, <2>1, <2>2
<1> QED BY <1>2, <1>4, <1>8, <1>9, <1>10, NotesKept DEF IInv

\* Reports and deferred restarts that come to nothing are about no child that
\* is watched: its report is never ignored and it is found.
LEMMA IgnoringNotes ==
  ASSUME IInv, TypeOK', Notes, IgnoreReport \/ SkipRestart
  PROVE  Notes'
<1>1. PICK name : Receives(name)
  BY DEF IgnoreReport, SkipRestart
<1>2. work = Idle /\ status = "running" /\ UNCHANGED <<children, work, task, timers>>
  BY <1>1, ReceivesType DEF IgnoreReport, SkipRestart, IInv
<1>3. Watched = SetOf(children) /\ Watched' = SetOf(children) /\ Aside'
  BY <1>2, WatchedAtRest
<1>4. Head(queue) \in Letters
  BY <1>1, LettersTaken DEF Letters, IInv
<1>5. ASSUME NEW c \in Watched', About(Head(queue), c.task) PROVE FALSE
  <2>1. Listed(Head(queue).id)
    BY <1>2, <1>3, <1>4, <1>5, FoundById
  <2>2. Head(queue).cmd = "ChildTerminated" /\ IsOwnDoing(Head(queue).reason)
    BY <2>1 DEF IgnoreReport, SkipRestart, Receives
  <2>3. Unasked(c)
    BY <1>2, <1>3, <1>5 DEF Notes
  <2> QED BY <1>4, <1>5, <2>2, <2>3 DEF Unasked, About
<1> QED BY <1>1, <1>2, <1>3, <1>5, TakingNotes

\* A report becomes a deferred restart of the task it is about.
LEMMA DeferringNotes ==
  ASSUME IInv, TypeOK', Notes, RestartLater
  PROVE  Notes'
<1> DEFINE h == Head(queue)
<1>1. PICK i \in DOMAIN children :
        /\ Concerns(i, TRUE)
        /\ timers' = timers \cup {[cmd |-> "RestartChild", id |-> children[i].id, by |-> h.by]}
  BY DEF RestartLater
<1>2. /\ work = Idle /\ status = "running" /\ UNCHANGED <<children, work, task>>
      /\ h.cmd = "ChildTerminated" /\ h.id = children[i].id
  BY <1>1, ReceivesType DEF RestartLater, Concerns, Position, IInv
<1>3. Watched' = Watched /\ Aside'
  BY <1>2, WatchedSame DEF Notes
<1> DEFINE r == [cmd |-> "RestartChild", id |-> children[i].id, by |-> h.by]
<1>4. r.cmd = "RestartChild" /\ r.id = h.id /\ r.by = h.by
  BY <1>2
<1>5. SetOf(queue) = {h} \cup SetOf(queue')
  BY <1>1, LettersTaken DEF Concerns, IInv
<1>6. timers' = timers \cup {r}
  BY <1>1
<1> HIDE DEF h, r
<1>7. Letters \cup {r} = {h} \cup Letters' /\ r \in Letters' /\ h \in Letters
  BY <1>5, <1>6 DEF Letters
<1>8. \A m \in Letters' \ Letters : m = r
  BY <1>7
<1>9. h.by \in DOMAIN task /\ task[h.by].id = h.id
  BY <1>2, <1>7 DEF Notes, Addressed
<1>10. ASSUME NEW c \in Watched' PROVE Unasked(c)'
  <2>1. Unasked(c)
    BY <1>2, <1>3, <1>10 DEF Notes
  <2>2. \A m \in Letters : About(m, c.task) => Reported(c.task)'
    BY <1>4, <1>7 DEF About, Reported
  <2> QED BY <1>2, <1>4, <1>8, <2>1, <2>2, UnaskedStays
<1> QED BY <1>2, <1>3, <1>4, <1>8, <1>9, <1>10, GrowsSame, NotesKept DEF IInv

\* A round begins with the child that the letter was about, or without it: it
\* is not watched any more.
LEMMA RoundNotes ==
  ASSUME IInv, TypeOK', Notes, Escalate \/ RestartNow \/ HandleRestartChild
  PROVE  Notes'
<1>1. PICK i \in DOMAIN children, name \in {"ChildTerminated", "RestartChild"} :
        /\ Receives(name) /\ Position(Head(queue).id, i)
        /\ \/ BeginRound(i)
           \/ children' = <<>> /\ work' = Begin("escalate", children)
  BY DEF Escalate, RestartNow, HandleRestartChild, Concerns
<1>2. /\ work = Idle /\ status = "running" /\ UNCHANGED <<task, timers>>
      /\ children \in Seq(Child)
  BY <1>1, ReceivesType
     DEF Escalate, RestartNow, HandleRestartChild, IInv, TypeOK, VarTypes
<1>3. Watched = SetOf(children) /\ SetOf(<<>>) = {} /\ DistinctIds(children)
  BY <1>2, WatchedAtRest, AtRest, SetOfSmall
<1> DEFINE c == children[i]
           l == SubSeq(children, 1, i - 1)
           r == SubSeq(children, i, Len(children))
<1>4. /\ SetOf(children) = SetOf(l) \cup SetOf(r) /\ c \in SetOf(r) /\ Apart(l, r)
      /\ c \in SetOf(children)
  <2>1. SetOf(children) = SetOf(l) \cup SetOf(r) /\ Apart(l, r)
    BY <1>2, <1>3, SetOfSplit, DistinctSplit
  <2>2. c \in SetOf(children)
    BY DEF SetOf
  <2>3. c \notin SetOf(l)
    <3>1. /\ i \in 1..Len(children) /\ Len(children) \in Nat
          /\ \A j \in 1..Len(children) : children[j] \in Child
      BY <1>2, LenProperties, ElementOfSeq
    <3>2. DOMAIN l = 1..(i - 1) /\ \A j \in 1..(i - 1) : l[j] = children[j]
      BY <1>2, <3>1, SubSeqProperties, LenProperties
    <3> HIDE DEF l
    <3> SUFFICES ASSUME NEW j \in 1..(i - 1), c = l[j] PROVE FALSE
      BY <3>2 DEF SetOf
    <3>3. j \in 1..Len(children) /\ j # i /\ children[j].id = children[i].id
      BY <3>1, <3>2
    <3> QED BY <1>2, <1>3, <3>1, <3>3, LenProperties DEF DistinctIds
  <2> QED BY <2>1, <2>2, <2>3
<1> HIDE DEF l, r
<1>5. Watched' \subseteq Watched /\ c \notin Watched' /\ Aside'
  <2>1. CASE children' = <<>> /\ work' = Begin("escalate", children)
    <3>1. children' = <<>> /\ work'.op = "escalate" /\ work'.back = <<>>
      BY <2>1 DEF Begin, Idle
    <3>2. Watched' = {}
      BY <1>3, <3>1 DEF Watched
    <3> QED BY <3>2 DEF Aside
  <2>2. CASE work' = Begin("one", <<c>>) /\ children' = children
    <3>1. /\ work'.op = "one" /\ work'.back = <<>> /\ work'.todo = <<c>>
          /\ SetOf(<<c>>) = {c}
      BY <2>2, SetOfSmall DEF Begin, Idle
    <3>2. Watched' = SetOf(children) \ {c}
      BY <1>3, <2>2, <3>1 DEF Watched
    <3>3. \A d \in SetOf(children) : d.id = c.id => d = c
      BY <1>3 DEF SetOf, DistinctIds
    <3> QED BY <1>3, <3>1, <3>2, <3>3 DEF Aside
  <2>3. CASE work' = Begin("all", children)
    <3>1. work'.op = "all"
      BY <2>3 DEF Begin, Idle
    <3>2. Watched' = {}
      BY <3>1 DEF Watched
    <3> QED BY <3>2 DEF Aside
  <2>4. CASE work' = Begin("from", r) /\ children' = l
    <3>1. work'.op = "from" /\ work'.back = <<>> /\ work'.todo = r
      BY <2>4 DEF Begin, Idle
    <3>2. Watched' = SetOf(l)
      BY <1>3, <2>4, <3>1 DEF Watched
    <3> QED BY <1>3, <1>4, <3>1, <3>2 DEF Aside, Apart
  <2> QED BY <1>1, <2>1, <2>2, <2>3, <2>4 DEF BeginRound, l, r
<1> HIDE DEF c
<1>6. Head(queue) \in Letters
  BY <1>1, LettersTaken DEF Letters, IInv
<1>7. ASSUME NEW d \in Watched' PROVE ~About(Head(queue), d.task)
  BY <1>1, <1>2, <1>3, <1>5, <1>6, FoundById DEF c
<1> QED BY <1>1, <1>2, <1>5, <1>7, TakingNotes

\* A child is dropped on a report that names it: no other child loses a letter,
\* and no other task is aborted.
LEMMA DropNotes ==
  ASSUME IInv, TypeOK', Notes, DropChild
  PROVE  Notes'
<1>1. PICK i \in DOMAIN children :
        /\ Concerns(i, FALSE)
        /\ children' = RemoveAt(children, i)
        /\ task' = Dropped(children[i])
  BY DEF DropChild
<1> DEFINE c == children[i]
<1>2. /\ work = Idle /\ work' = Idle /\ status = "running" /\ timers' = timers
      /\ children \in Seq(Child) /\ c \in Child /\ c \in SetOf(children)
      /\ Position(Head(queue).id, i)
  BY <1>1, ReceivesType, ChildType DEF DropChild, Concerns, SetOf, IInv, TypeOK, VarTypes
<1>3. Held = SetOf(children) /\ DistinctIds(children)
  BY <1>2, AtRest
<1>4. /\ SetOf(children) = {c} \cup SetOf(children')
      /\ \A d \in SetOf(children') : d.id # c.id
  BY <1>1, <1>2, <1>3, SetOfSplit, DistinctSplit
<1>5. Watched = SetOf(children) /\ Watched' = SetOf(children') /\ Aside'
  BY <1>2, WatchedAtRest
<1>6. c.kind = "Worker"
  BY <1>1, <1>2 DEF Concerns, ShouldRestart, PolicyForDecision, NoPolicy
<1> HIDE DEF c
<1>7. Grows
  BY <1>1, <1>2, <1>3, <1>6, DroppedLetsGo DEF c
<1>8. SetOf(queue) = {Head(queue)} \cup SetOf(queue')
  BY <1>1, LettersTaken DEF Concerns, IInv
<1>9. Letters = {Head(queue)} \cup Letters'
  BY <1>2, <1>8 DEF Letters
<1>10. ASSUME NEW d \in Watched' PROVE Unasked(d)'
  <2>1. d \in SetOf(children) /\ Unasked(d) /\ d.id # c.id
    BY <1>2, <1>4, <1>5, <1>10 DEF Notes
  <2>2. ~About(Head(queue), d.task)
    BY <1>2, <1>9, <2>1, FoundById DEF c
  <2>3. task'[d.task] = task[d.task]
    <3>1. d.task \in DOMAIN task /\ task[d.task].id = d.id /\ task[c.task].id = c.id
      BY <1>2, <1>3, <2>1 DEF IInv, HeldTasks
    <3>2. d.task # c.task
      BY <2>1, <3>1
    <3> QED BY <1>1, <3>1, <3>2 DEF Dropped, c
  <2>4. \A m \in Letters : About(m, d.task) => Reported(d.task)'
    BY <1>9, <2>2 DEF Reported
  <2> QED BY <1>9, <2>1, <2>3, <2>4, UnaskedStays
<1> QED BY <1>2, <1>5, <1>7, <1>9, <1>10, NotesKept DEF IInv

\* A task other than those in hand is changed: the children watched keep theirs.
LEMMA OthersNotes ==
  ASSUME IInv, TypeOK', Notes, status = "running", Grows, UNCHANGED <<queue, timers>>,
         Watched' \subseteq Watched, Aside',
         \A c \in Watched' : task'[c.task] = task[c.task]
  PROVE  Notes'
<1>1. Letters' = Letters
  BY DEF Letters
<1>2. ASSUME NEW c \in Watched' PROVE Unasked(c)'
  <2>1. Unasked(c)
    BY <1>2 DEF Notes
  <2>2. \A m \in Letters : About(m, c.task) => Reported(c.task)'
    BY <1>1 DEF Reported
  <2> QED BY <1>1, <1>2, <2>1, <2>2, UnaskedStays
<1> QED BY <1>1, <1>2, NotesKept DEF IInv

\* A linked start ends: the worker joins the list, or is dropped.
LEMMA LinkNotes ==
  ASSUME IInv, TypeOK', Notes, status = "running",
         LinkOk \/ \E a \in {"InitializationFailed", "InitializationTimeout"} : LinkFails(a)
  PROVE  Notes'
<1> DEFINE h == Head(work.todo)
<1>1. /\ work.op = "link" /\ work' = Idle /\ UNCHANGED <<queue, timers>>
  BY DEF LinkOk, LinkFails
<1>2. /\ work.back = <<>> /\ work.todo \in Seq(Child) /\ Len(work.todo) = 1
      /\ children \in Seq(Child) /\ SetOf(<<>>) = {}
  BY <1>1, SetOfSmall DEF IInv, TypeOK, VarTypes, Work, WorkShape
<1>3. work.todo # <<>> /\ SetOf(work.todo) = {h}
  BY <1>2, OneLeft
<1>4. h \in Child /\ h \in Held
  BY <1>2, <1>3, SetOfHead, InHand
<1>5. Watched = SetOf(children) \cup {h} /\ Watched' = SetOf(children') /\ Aside'
  BY <1>1, <1>2, <1>3, WatchedAtRest DEF Watched
<1> HIDE DEF h
<1>6. CASE LinkOk
  <2>1. children' = Append(children, h) /\ task' = task
    BY <1>6 DEF LinkOk, h
  <2>2. SetOf(Append(children, h)) = SetOf(children) \cup {h}
    BY <1>2, <1>4, SetOfAppend
  <2> QED BY <1>1, <1>5, <2>1, <2>2, GrowsSame, OthersNotes DEF IInv
<1>7. CASE ~LinkOk
  <2>1. children' = children /\ task' = Dropped(h)
    BY <1>7 DEF LinkFails, h
  <2>2. h.kind = "Worker"
    BY <1>1, <1>3 DEF IInv, Handled, RoundStops
  <2>3. Grows
    BY <1>4, <2>1, <2>2, DroppedLetsGo
  <2>4. ASSUME NEW d \in SetOf(children) PROVE task'[d.task] = task[d.task]
    <3>1. d.id # h.id
      BY <1>1, <1>3, Pieces DEF IInv, UniquePieces, Pool, Apart
    <3>2. d.task \in DOMAIN task /\ task[d.task].id = d.id /\ task[h.task].id = h.id
      BY <1>4, InHand DEF IInv, HeldTasks
    <3>3. d.task # h.task
      BY <3>1, <3>2
    <3> QED BY <2>1, <3>2, <3>3 DEF Dropped
  <2> QED BY <1>1, <1>5, <2>1, <2>3, <2>4, OthersNotes
<1> QED BY <1>6, <1>7

\* Asking a child to stop, or aborting it, touches no child that is watched.
LEMMA StopNotes ==
  ASSUME IInv, TypeOK', Notes, status = "running", BeginStop \/ StopTimesOut
  PROVE  Notes'
<1> DEFINE h == Head(work.todo)
<1>1. /\ Stopping /\ UNCHANGED <<queue, timers, children>>
      /\ work'.op = work.op /\ work'.todo = work.todo /\ work'.back = work.back
  BY DEF BeginStop, StopTimesOut, IInv, TypeOK, VarTypes, Work
<1>2. work.todo # <<>> /\ work.op # "link"
  BY <1>1 DEF BeginStop, StopTimesOut, Stopping, IInv, TypeOK, WorkShape
<1>3. h \in Held /\ h \in SetOf(work.todo) /\ h.task \in DOMAIN task /\ task[h.task].id = h.id
  BY <1>2, InHand DEF IInv, HeldTasks
<1>4. task[h.task] \in Task
  BY <1>3, ElementOfSeq, LenProperties DEF IInv, TypeOK, VarTypes
<1>5. \/ task' = task
      \/ /\ task[h.task].pc \notin Ends
         /\ \E e : /\ task' = [task EXCEPT ![h.task] = e]
                   /\ e.id = task[h.task].id /\ e.kind = task[h.task].kind
                   /\ task[h.task].signal => e.signal
                   /\ task[h.task].abort => e.abort
  <2>1. CASE BeginStop
    <3> DEFINE atonce == h.kind = "Worker" /\ ~config.patient
               e == [[task[h.task] EXCEPT !.signal = TRUE] EXCEPT !.abort = @ \/ atonce]
    <3>1. \/ task' = task
          \/ task[h.task].pc \notin Ends /\ task' = [task EXCEPT ![h.task] = e]
      BY <1>3, <2>1 DEF BeginStop, Ended
    <3>2. /\ e.id = task[h.task].id /\ e.kind = task[h.task].kind
          /\ e.signal /\ (task[h.task].abort => e.abort)
      BY <1>4 DEF Task
    <3> HIDE DEF e
    <3> QED BY <3>1, <3>2
  <2>2. CASE StopTimesOut
    <3> DEFINE e == [task[h.task] EXCEPT !.abort = TRUE]
    <3>1. task[h.task].pc \notin Ends /\ task' = [task EXCEPT ![h.task] = e]
      BY <2>2 DEF StopTimesOut, Ended
    <3>2. /\ e.id = task[h.task].id /\ e.kind = task[h.task].kind
          /\ e.signal = task[h.task].signal /\ e.abort
      BY <1>4 DEF Task
    <3> HIDE DEF e
    <3> QED BY <3>1, <3>2
  <2> QED BY <2>1, <2>2
<1>6. Watched' = Watched /\ Aside'
  BY <1>1, WatchedSame DEF Notes
<1> HIDE DEF h
<1>7. Grows
  BY <1>3, <1>5, GrowsSame, GrowsExcept DEF IInv
<1>8. ASSUME NEW d \in Watched PROVE task'[d.task] = task[d.task]
  <2>1. d.task \in DOMAIN task /\ task[d.task].id = d.id
    BY <1>8, WatchedInHand
  <2>2. d.id # h.id
    BY <1>2, <1>3, <1>8 DEF Notes, Aside
  <2>3. d.task # h.task
    BY <1>3, <2>1, <2>2
  <2> QED BY <1>5, <2>1, <2>3
<1> QED BY <1>1, <1>6, <1>7, <1>8, OthersNotes

\* The handlers that are done with a stopped child, or with all of them.
LEMMA StoppedNotes ==
  ASSUME IInv, TypeOK', Notes, status = "running",
         FinishTerminate \/ StopNext \/ DrainAll \/ EndRound
  PROVE  Notes'
<1>1. UNCHANGED <<queue, timers, task>> /\ SetOf(<<>>) = {}
  BY SetOfSmall DEF FinishTerminate, StopNext, DrainAll, EndRound
<1>2. /\ children \in Seq(Child) /\ work.todo \in Seq(Child) /\ work.back \in Seq(Child)
      /\ work.op \notin {"respawn", "from"} => work.back = <<>>
  BY DEF IInv, TypeOK, VarTypes, Work, WorkShape
<1>3. Watched' \subseteq Watched /\ Aside'
  <2>1. CASE FinishTerminate
    <3>1. work.op = "terminate" /\ work' = Idle /\ children' = children
      BY <2>1 DEF FinishTerminate
    <3>2. Watched = SetOf(children)
      BY <1>1, <1>2, <3>1 DEF Watched
    <3> QED BY <3>1, <3>2, WatchedAtRest
  <2>2. CASE StopNext
    <3>1. /\ work.op \in {"all", "shutdown", "escalate"} /\ work'.op = work.op
          /\ work'.todo = Tail(work.todo) /\ work'.back = work.back /\ children' = children
      BY <2>2 DEF StopNext, Advanced, IInv, TypeOK, VarTypes, Work
    <3>2. Watched' = Watched
      BY <3>1 DEF Watched
    <3>3. work.todo # <<>>
      BY <2>2, HeadIsStopped DEF StopNext
    <3>4. SetOf(Tail(work.todo)) \subseteq SetOf(work.todo)
      BY <1>2, <3>3, SetOfHead
    <3> QED BY <3>1, <3>2, <3>4 DEF Notes, Aside
  <2>3. CASE DrainAll
    <3>1. work'.op = "respawn" /\ work'.back = <<>> /\ children' = <<>>
      BY <2>3 DEF DrainAll, Begin, Idle
    <3>2. Watched' = {}
      BY <1>1, <3>1 DEF Watched
    <3> QED BY <3>2 DEF Aside
  <2>4. CASE EndRound
    <3>1. /\ work.op \in {"respawn", "from"} /\ work' = Idle
          /\ children' = children \o work.back
      BY <2>4 DEF EndRound
    <3>2. SetOf(children \o work.back) = SetOf(children) \cup SetOf(work.back)
      BY <1>2, SetOfConcat
    <3>3. Watched = SetOf(children) \cup SetOf(work.back)
      BY <3>1 DEF Watched
    <3> QED BY <3>1, <3>2, <3>3, WatchedAtRest
  <2> QED BY <2>1, <2>2, <2>3, <2>4
<1> QED BY <1>1, <1>3, GrowsSame, OthersNotes DEF IInv

\* A task is spawned for a child whose predecessor was stopped.
LEMMA SpawningNotes ==
  ASSUME IInv, TypeOK', Notes, status = "running", UNCHANGED <<queue, timers>>,
         NEW s, s.id \in Id, s.kind \in Kind, task' = Append(task, NewTask(s, FALSE)),
         NEW n, n.task = Len(task) + 1,
         Watched' \subseteq Watched \cup {n}, Aside'
  PROVE  Notes'
<1>1. Letters' = Letters
  BY DEF Letters
<1>2. NewTask(s, FALSE) \in Task
  BY NewTaskType
<1>3. Grows /\ task'[n.task] = NewTask(s, FALSE)
  BY <1>2, GrowsSpawned DEF IInv
<1>4. ASSUME NEW c \in Watched' PROVE Unasked(c)'
  <2>1. CASE c = n
    BY <1>1, <1>3, <2>1, NewUnasked DEF IInv
  <2>2. CASE c \in Watched
    <3>1. c.task \in DOMAIN task /\ Unasked(c)
      BY <2>2, WatchedInHand DEF Notes
    <3>2. task'[c.task] = task[c.task]
      BY <1>2, <3>1, EarlierTasks DEF IInv
    <3>3. \A m \in Letters : About(m, c.task) => Reported(c.task)'
      BY <1>1 DEF Reported
    <3> QED BY <1>1, <3>1, <3>2, <3>3, UnaskedStays
  <2> QED BY <1>4, <2>1, <2>2
<1> QED BY <1>1, <1>3, <1>4, NotesKept DEF IInv

\* The child that failed is a new task, and watched again.
LEMMA RestartOneNotes ==
  ASSUME IInv, TypeOK', Notes, status = "running", RestartOne
  PROVE  Notes'
<1> DEFINE c == Head(work.todo)
           n == WithNewTask(c)
<1>1. PICK i \in DOMAIN children :
        /\ children[i] = c
        /\ children' = [children EXCEPT ![i] = WithNewTask(@)]
        /\ task' = Append(task, NewTask(c, FALSE))
  BY DEF RestartOne, Spawned
<1>2. work.op = "one" /\ work' = Idle /\ UNCHANGED <<queue, timers>>
  BY DEF RestartOne
<1>3. /\ work.back = <<>> /\ work.todo \in Seq(Child) /\ Len(work.todo) = 1
      /\ children \in Seq(Child) /\ SetOf(<<>>) = {}
  BY <1>2, SetOfSmall DEF IInv, TypeOK, VarTypes, Work, WorkShape
<1>4. SetOf(work.todo) = {c}
  BY <1>3, OneLeft
<1>5. c \in Child /\ DistinctIds(children)
  BY <1>1, ChildType, Pieces DEF IInv, UniquePieces, TypeOK
<1>6. n \in Child /\ n.id = c.id /\ n.task = Len(task) + 1
  BY <1>5, WithNewTaskFields DEF IInv, TypeOK
<1>7. children' = ReplacedAt(children, i, n)
  BY <1>1 DEF ReplacedAt
<1>8. Watched = SetOf(children) \ {c} /\ Watched' = SetOf(children') /\ Aside'
  BY <1>2, <1>3, <1>4, WatchedAtRest DEF Watched
<1> HIDE DEF c, n
<1>9. /\ SetOf(ReplacedAt(children, i, n)) \subseteq SetOf(children) \cup {n}
      /\ \A d \in SetOf(ReplacedAt(children, i, n)) : d # n => d.id # n.id
  BY <1>1, <1>3, <1>5, <1>6, DistinctReplaced
<1>10. Watched' \subseteq Watched \cup {n}
  BY <1>6, <1>7, <1>8, <1>9
<1>11. c.id \in Id /\ c.kind \in Kind
  BY <1>5 DEF Child
<1> QED BY <1>1, <1>2, <1>6, <1>8, <1>10, <1>11, SpawningNotes

\* A stopped child leaves the round, or is put back as a new task.
LEMMA RespawnNotes ==
  ASSUME IInv, TypeOK', Notes, status = "running", RespawnHead
  PROVE  Notes'
<1> DEFINE c == Head(work.todo)
           rest == Tail(work.todo)
           n == WithNewTask(c)
<1>1. work.op \in {"respawn", "from"} /\ work.todo # <<>> /\ UNCHANGED <<queue, timers>>
  BY HeadIsStopped DEF RespawnHead
<1>2. /\ children \in Seq(Child) /\ work.todo \in Seq(Child) /\ work.back \in Seq(Child)
  BY DEF IInv, TypeOK, VarTypes, Work
<1>3. /\ c \in Child /\ rest \in Seq(Child) /\ SetOf(work.todo) = {c} \cup SetOf(rest)
  BY <1>1, <1>2, SetOfHead
<1>4. \A d \in SetOf(rest) : d.id # c.id
  <2>1. DistinctIds(work.todo)
    BY <1>1, Pieces DEF IInv, UniquePieces, Pool
  <2> QED BY <1>1, <1>2, <2>1, DistinctHead
<1>5. n \in Child /\ n.id = c.id /\ n.task = Len(task) + 1
  BY <1>3, WithNewTaskFields DEF IInv, TypeOK
<1>6. /\ children' = children /\ work'.op = work.op /\ work'.todo = rest
      /\ \/ work'.back = work.back /\ task' = task
         \/ work'.back = Append(work.back, n) /\ task' = Append(task, NewTask(c, FALSE))
  BY <1>2, <1>3 DEF RespawnHead, Advanced, Spawned, IInv, TypeOK, VarTypes, Work
<1>7. Watched = SetOf(children) \cup SetOf(work.back)
  BY <1>1 DEF Watched
<1>8. Watched' = SetOf(children) \cup SetOf(work'.back)
  BY <1>1, <1>6 DEF Watched
<1> HIDE DEF c, rest, n
<1>9. \A d \in Watched, e \in SetOf(rest) : d.id # e.id
  BY <1>1, <1>3 DEF Notes, Aside
<1>10. CASE work'.back = work.back /\ task' = task
  <2>1. Watched' = Watched /\ Aside'
    BY <1>6, <1>7, <1>8, <1>9, <1>10 DEF Aside
  <2> QED BY <1>1, <1>10, <2>1, GrowsSame, OthersNotes DEF IInv
<1>11. CASE work'.back = Append(work.back, n) /\ task' = Append(task, NewTask(c, FALSE))
  <2>1. SetOf(Append(work.back, n)) = SetOf(work.back) \cup {n}
    BY <1>2, <1>5, SetOfAppend
  <2>2. Watched' = Watched \cup {n}
    BY <1>7, <1>8, <1>11, <2>1
  <2>3. Aside'
    BY <1>4, <1>5, <1>6, <1>9, <2>2 DEF Aside
  <2>4. c.id \in Id /\ c.kind \in Kind
    BY <1>3 DEF Child
  <2> QED BY <1>1, <1>5, <1>11, <2>2, <2>3, <2>4, SpawningNotes
<1> QED BY <1>6, <1>10, <1>11

\* What a task does of its own accord: it cannot see a stop it was not asked
\* for, and reports its end.
LEMMA TaskNotes ==
  ASSUME IInv, TypeOK', Notes, status = "running", NEW t \in DOMAIN task,
         Runs(t) \/ MustRun(t)
  PROVE  Notes'
<1>1. UNCHANGED <<status, children, timers>>
  BY DEF Runs, MustRun, InitOk, InitFails, ShutdownSeen, RunReturns, HookReturns, Panic,
         Block, Unblock, NestedEscalates, ReportInitFailure, Cancelled, NestedStops
<1>2. work'.op = work.op /\ work'.todo = work.todo /\ work'.back = work.back
  <2>1. work' = work \/ \E reply \in {"Ok", "Err", "Closed"} : work' = Told(t, reply)
    BY DEF Runs, MustRun, InitOk, InitFails, ShutdownSeen, RunReturns, HookReturns, Panic,
           Block, Unblock, NestedEscalates, ReportInitFailure, Cancelled, NestedStops
  <2> QED BY <2>1, ToldType DEF IInv
<1>3. Watched' = Watched /\ Aside'
  BY <1>1, <1>2, WatchedSame DEF Notes
<1>4. task[t] \in Task /\ t \in Nat
  BY ElementOfSeq, LenProperties DEF IInv, TypeOK, VarTypes
<1>5. \A u \in DOMAIN task : u # t => task'[u] = task[u]
  BY DEF Runs, MustRun, InitOk, InitFails, ShutdownSeen, RunReturns, HookReturns, Panic,
         Block, Unblock, NestedEscalates, ReportInitFailure, Cancelled, NestedStops,
         Moves, Leaves, Reports
<1> DEFINE Say(reason) ==
      [cmd |-> "ChildTerminated", id |-> task[t].id, reason |-> reason, by |-> t]
<1>6. ASSUME NEW how, NEW reason \in Reason, Reports(t, how, reason)
      PROVE  /\ Letters' = Letters \cup {Say(reason)}
             /\ Say(reason).cmd = "ChildTerminated" /\ Say(reason).by = t
             /\ Say(reason).id = task[t].id /\ Say(reason).reason = reason
  <2>1. Say(reason) \in Command
    BY <1>4 DEF Command, Report, Task
  <2>2. queue' = Sent(Say(reason))
    BY <1>6 DEF Reports
  <2> QED BY <1>1, <2>1, <2>2, LettersSent DEF IInv
<1> HIDE DEF Say
\* Every step keeps the channel as it is, or reports the end of t.
<1>7. \/ Letters' = Letters
      \/ \E m : /\ Letters' = Letters \cup {m} /\ m.by = t /\ m.id = task[t].id
                /\ m.cmd = "ChildTerminated"
  <2>1. CASE InitOk(t) \/ InitFails(t) \/ ShutdownSeen(t) \/ RunReturns(t) \/ Panic(t)
               \/ Block(t) \/ Unblock(t) \/ Cancelled(t)
    <3>1. queue' = queue
      BY <2>1 DEF InitOk, InitFails, ShutdownSeen, RunReturns, Panic, Block, Unblock,
         Cancelled
    <3> QED BY <1>1, <3>1 DEF Letters
  <2>2. CASE HookReturns(t) \/ ReportInitFailure(t) \/ NestedStops(t) \/ NestedEscalates(t)
    <3>1. \E how, reason : reason \in Reason /\ Reports(t, how, reason)
      BY <1>4, <2>2 DEF HookReturns, ReportInitFailure, NestedStops, NestedEscalates,
         Task, Reason
    <3> QED BY <1>6, <3>1
  <2> QED BY <2>1, <2>2, Runs(t) \/ MustRun(t) DEF Runs, MustRun
<1>8. ASSUME NEW c \in Watched, c.task # t PROVE Unasked(c)'
  <2>1. Unasked(c) /\ c.task \in DOMAIN task
    BY <1>8, WatchedInHand DEF Notes
  <2>2. task'[c.task] = task[c.task]
    BY <1>5, <1>8, <2>1
  <2>3. \A m \in Letters : About(m, c.task) => Reported(c.task)'
    BY <1>7 DEF Reported
  <2>4. \A m \in Letters' \ Letters : m.by # c.task
    BY <1>7, <1>8
  <2> QED BY <2>1, <2>2, <2>3, <2>4, UnaskedStays
<1>9. ASSUME NEW c \in Watched, c.task = t PROVE Unasked(c)'
  <2>1. /\ ~task[t].signal /\ ~task[t].abort
        /\ task[t].pc = "hook" => ~IsOwnDoing(task[t].reason)
        /\ \A m \in Letters : m.cmd = "ChildTerminated" /\ m.by = t => ~IsOwnDoing(m.reason)
    BY <1>9 DEF Notes, Unasked
  <2>2. \A how : /\ EndedTask(t, how).pc = how
                 /\ ~EndedTask(t, how).signal /\ ~EndedTask(t, how).abort
    BY DEF EndedTask, NewTask
  <2>3. ~ShutdownSeen(t) /\ ~Cancelled(t) /\ ~NestedStops(t)
    BY <2>1 DEF ShutdownSeen, Cancelled, NestedStops
  <2>4. ASSUME NEW to \in {"run", "initerr", "blocked"}, NEW from, Moves(t, from, to),
               queue' = queue
        PROVE  Unasked(c)'
    <3> DEFINE e == [task[t] EXCEPT !.pc = to]
    <3>1. /\ task'[t] = e /\ e.pc = to
          /\ e.signal = task[t].signal /\ e.abort = task[t].abort
      BY <1>4, <2>4 DEF Moves, Task
    <3>2. Letters' = Letters
      BY <1>1, <2>4 DEF Letters
    <3> HIDE DEF e
    <3> QED BY <1>9, <2>1, <2>4, <3>1, <3>2 DEF Unasked, Ends
  <2>5. CASE InitOk(t) \/ InitFails(t) \/ Block(t) \/ Unblock(t)
    BY <2>4, <2>5 DEF InitOk, InitFails, Block, Unblock
  <2>6. CASE RunReturns(t)
    <3> PICK reason \in {"Normal", "Abnormal"} : Leaves(t, reason)
      BY <2>6 DEF RunReturns
    <3> DEFINE e == [[task[t] EXCEPT !.pc = "hook"] EXCEPT !.reason = reason]
    <3>1. /\ task'[t] = e /\ e.pc = "hook" /\ e.reason = reason
          /\ e.signal = task[t].signal /\ e.abort = task[t].abort
      BY <1>4 DEF Leaves, Task
    <3>2. Letters' = Letters
      BY <1>1, <2>6 DEF Letters, RunReturns
    <3> HIDE DEF e
    <3> QED BY <1>9, <2>1, <3>1, <3>2 DEF Unasked, Ends, IsOwnDoing
  <2>7. CASE Panic(t)
    <3>1. task'[t] = EndedTask(t, "panicked")
      BY <2>7 DEF Panic
    <3>2. Letters' = Letters
      BY <1>1, <2>7 DEF Letters, Panic
    <3> QED BY <1>9, <2>1, <2>2, <3>1, <3>2 DEF Unasked
  <2>8. ASSUME NEW how \in Ends, NEW reason \in Reason, ~IsOwnDoing(reason),
               Reports(t, how, reason)
        PROVE  Unasked(c)'
    <3>1. task'[t] = EndedTask(t, how)
      BY <2>8 DEF Reports
    <3>2. /\ Letters' = Letters \cup {Say(reason)}
          /\ Say(reason).cmd = "ChildTerminated" /\ Say(reason).by = t
          /\ Say(reason).reason = reason
      BY <1>6, <2>8
    <3>3. Reported(t)'
      BY <3>2 DEF Reported, About
    <3> QED BY <1>9, <2>1, <2>2, <2>8, <3>1, <3>2, <3>3 DEF Unasked, Ends
  <2>9. CASE HookReturns(t)
    BY <1>4, <2>1, <2>8, <2>9 DEF HookReturns, Task, Ends
  <2>10. CASE ReportInitFailure(t) \/ NestedEscalates(t)
    BY <2>8, <2>10 DEF ReportInitFailure, NestedEscalates, Ends, Reason, IsOwnDoing
  <2> QED BY <2>3, <2>5, <2>6, <2>7, <2>9, <2>10, Runs(t) \/ MustRun(t) DEF Runs, MustRun
<1>10. \A m \in Letters' \ Letters : m.by \in DOMAIN task /\ task[m.by].id = m.id
  BY <1>7
<1> QED BY <1>3, <1>8, <1>9, <1>10, TaskGrows, NotesKept DEF IInv

(***************************************************************************)
(* The theorem.                                                            *)
(***************************************************************************)

\* Nothing was said, and nobody was asked to stop, in an initial state.
LEMMA InitNotes == Init => Notes
<1> SUFFICES ASSUME Init PROVE Notes
  OBVIOUS
<1>1. Letters = {}
  BY SetOfSmall DEF Init, Letters
<1>2. Watched = SetOf(children) /\ Aside
  BY WatchedAtRest DEF Init
<1>3. ASSUME NEW i \in DOMAIN children
      PROVE  /\ ~task[children[i].task].signal /\ ~task[children[i].task].abort
             /\ task[children[i].task].pc \in {"init", "run"}
  <2>1. i \in DOMAIN config.children
    BY DEF Init
  <2>2. children[i].task = i /\ task[i] = NewTask(config.children[i], FALSE)
    BY <2>1 DEF Init
  <2> QED BY <2>2 DEF NewTask
<1>4. \A c \in Watched : Unasked(c)
  BY <1>1, <1>2, <1>3 DEF Unasked, SetOf, Ends
<1> QED BY <1>1, <1>2, <1>4 DEF Notes, Addressed

\* Every step keeps the notes.
LEMMA NextNotes == IInv /\ Notes /\ [Next]_vars => Notes'
<1> SUFFICES ASSUME IInv, Notes, [Next]_vars, status' = "running" PROVE Notes'
  BY DEF Notes
<1>1. TypeOK'
  BY NextType DEF IInv
<1>2. CASE UNCHANGED vars
  BY <1>2 DEF vars, Notes, Addressed, Aside, Watched, Unasked, Reported, Letters
<1>3. CASE Runtime
  <2>1. status = "running"
    BY <1>3, status' = "running"
       DEF Runtime, HandleQuery, RefuseDuplicate, HandleStartChild, RefuseUnknown,
           IgnoreReport, DropChild, Escalate, RestartNow, RestartLater, SkipRestart,
           HandleRestartChild, HandleStartChildLinked, LinkOk, LinkFails,
           HandleTerminateChild, HandleShutdown, BeginStop, StopTimesOut,
           FinishTerminate, StopNext, Exit, RestartOne, DrainAll, RespawnHead, EndRound
  <2>2. CASE \/ HandleQuery \/ RefuseDuplicate \/ RefuseUnknown
             \/ HandleTerminateChild \/ HandleShutdown
    BY <1>1, <2>2, CallsNotes
  <2>3. CASE HandleStartChild \/ HandleStartChildLinked
    BY <1>1, <2>3, StartNotes
  <2>4. CASE \/ IgnoreReport \/ SkipRestart \/ RestartLater \/ DropChild
             \/ Escalate \/ RestartNow \/ HandleRestartChild
    BY <1>1, <2>4, IgnoringNotes, DeferringNotes, DropNotes, RoundNotes
  <2>5. CASE LinkOk \/ \E a \in {"InitializationFailed", "InitializationTimeout"} : LinkFails(a)
    BY <1>1, <2>1, <2>5, LinkNotes
  <2>6. CASE BeginStop \/ StopTimesOut
    BY <1>1, <2>1, <2>6, StopNotes
  <2>7. CASE FinishTerminate \/ StopNext \/ DrainAll \/ EndRound
    BY <1>1, <2>1, <2>7, StoppedNotes
  <2>8. CASE RestartOne \/ RespawnHead
    BY <1>1, <2>1, <2>8, RestartOneNotes, RespawnNotes
  <2>9. ~Exit
    BY status' = "running" DEF Exit
  <2> QED BY <1>3, <2>2, <2>3, <2>4, <2>5, <2>6, <2>7, <2>8, <2>9 DEF Runtime
<1>4. CASE \/ \E c \in Client, k \in Calls : Call(c, k)
           \/ \E m \in timers : TimerFires(m)
  <2>1. status = "running"
    BY <1>4, status' = "running" DEF Call, TimerFires
  <2> QED BY <1>1, <1>4, <2>1, SendingNotes
<1>5. CASE \E t \in DOMAIN task : Runs(t) \/ MustRun(t)
  <2>1. status = "running"
    BY <1>5, status' = "running"
       DEF Runs, MustRun, InitOk, InitFails, ShutdownSeen, RunReturns, HookReturns, Panic,
           Block, Unblock, NestedEscalates, ReportInitFailure, Cancelled, NestedStops
  <2> QED BY <1>1, <1>5, <2>1, TaskNotes
<1> QED BY <1>2, <1>3, <1>4, <1>5 DEF Next

\* A listed child whose task has ended is never forgotten, unless it panicked:
\* its report or a deferred restart is still to come, or it is being stopped to
\* be restarted, whatever stale reports, rounds and linked starts interleave.
THEOREM NothingLost == Spec => []NoLostChild
BY Safe, InitNotes, NextNotes, NotesSuffice, PTL DEF Spec

================================================================================
