-------------------------------- MODULE TreeProofs --------------------------------
(***************************************************************************)
(* Theorems about StatefulTree, for every forest of specifications, every  *)
(* set of clients and calls, and every bound: types and the shape of the   *)
(* tree, no orphans, overlaps only once told, no dead handles, and the     *)
(* contexts.                                                               *)
(*                                                                         *)
(* A runtime is a record, so what it must satisfy is a predicate, Sound,   *)
(* on records: a step of runtime s replaces rt[s] by a record that is      *)
(* proved sound on its own.  What relates a runtime to the others is the   *)
(* second half, TreeOk.                                                    *)
(***************************************************************************)
EXTENDS StatefulTree, ChildListProofs, FiniteSetTheorems, WellFoundedInduction, TLAPS

(***************************************************************************)
(* The contexts.                                                           *)
(***************************************************************************)

\* The contexts are records, their values are those of the order of completion,
\* and an update under way started from such a value: nothing else touches an
\* entry whose lock is held.
Exact(e) ==
  /\ e = [value |-> e.value, expected |-> e.expected, holder |-> e.holder]
  /\ e.value = e.expected
  /\ e.holder # <<>> => e.holder[3] = e.expected

AllExact ==
  /\ store = [n \in DOMAIN store |-> store[n]]
  /\ \A n \in DOMAIN store : Exact(store[n])

\* One entry is replaced by another that is exact, if it was.
LEMMA StoreWithExact ==
  ASSUME AllExact, NEW s, NEW e, Exact(Ctx(s)) => Exact(e), store' = StoreWith(s, e)
  PROVE  AllExact'
<1> DEFINE n == rt[s].node
<1>1. store' = [store EXCEPT ![n] = e]
  BY DEF StoreWith
<1>2. DOMAIN store' = DOMAIN store /\ store' = [m \in DOMAIN store' |-> store'[m]]
  BY <1>1 DEF AllExact
<1>3. \A m \in DOMAIN store : Exact(store'[m])
  <2> SUFFICES ASSUME NEW m \in DOMAIN store PROVE Exact(store'[m])
    OBVIOUS
  <2>1. store'[m] = IF m = n THEN e ELSE store[m]
    BY <1>1 DEF AllExact
  <2> QED BY <2>1 DEF AllExact, Ctx
<1> QED BY <1>2, <1>3 DEF AllExact

\* The three operations on a context.
LEMMA UseExact ==
  ASSUME AllExact, NEW s, NEW t, UpdateBegins(s, t) \/ UpdateEnds(s, t) \/ SetOrDelete(s, t)
  PROVE  AllExact'
<1>1. CASE UpdateBegins(s, t)
  <2> DEFINE e == [Ctx(s) EXCEPT !.holder = <<s, t, Ctx(s).value>>]
  <2>1. Exact(Ctx(s)) => Exact(e)
    BY DEF Exact
  <2>2. store' = StoreWith(s, e)
    BY <1>1 DEF UpdateBegins
  <2> QED BY <2>1, <2>2, StoreWithExact
<1>2. CASE UpdateEnds(s, t)
  <2> DEFINE e == [value |-> Increment(Ctx(s).holder[3]),
                   expected |-> Increment(Ctx(s).expected), holder |-> <<>>]
             d == [value |-> -1, expected |-> -1, holder |-> <<>>]
  <2>1. (Exact(Ctx(s)) => Exact(e)) /\ Exact(d)
    BY <1>2 DEF Exact, UpdateEnds
  <2>2. store' = StoreWith(s, e) \/ store' = StoreWith(s, d)
    BY <1>2 DEF UpdateEnds
  <2> QED BY <2>1, <2>2, StoreWithExact
<1>3. CASE SetOrDelete(s, t)
  <2> PICK v \in {-1, 0} :
        store' = StoreWith(s, [Ctx(s) EXCEPT !.value = v, !.expected = v])
    BY <1>3 DEF SetOrDelete
  <2> DEFINE e == [Ctx(s) EXCEPT !.value = v, !.expected = v]
  <2>1. ASSUME Exact(Ctx(s)) PROVE Exact(e)
    <3>1. Ctx(s).holder = <<>>
      BY <1>3 DEF SetOrDelete
    <3>2. Ctx(s) = [value |-> Ctx(s).value, expected |-> Ctx(s).expected, holder |-> <<>>]
      BY <2>1, <3>1 DEF Exact
    <3> DEFINE f == [Ctx(s) EXCEPT !.value = v]
    <3>3. f = [value |-> v, expected |-> Ctx(s).expected, holder |-> <<>>]
      BY <3>2
    <3>4. e = [f EXCEPT !.expected = v]
      OBVIOUS
    <3> HIDE DEF f
    <3>5. e = [value |-> v, expected |-> v, holder |-> <<>>]
      BY <3>3, <3>4
    <3> HIDE DEF e
    <3> QED BY <3>5 DEF Exact
  <2> QED BY <2>1, StoreWithExact
<1> QED BY <1>1, <1>2, <1>3

\* Supervisors, timers, callers and the rest of a worker leave the contexts alone.
LEMMA ContextsUntouched ==
  ASSUME Next,
         ~\E s \in DOMAIN rt : \E t \in DOMAIN rt[s].task :
            UpdateBegins(s, t) \/ UpdateEnds(s, t) \/ SetOrDelete(s, t)
  PROVE  store' = store
<1>1. CASE \E s \in DOMAIN rt : Serves(s) \/ TimerFires(s)
  <2> PICK s \in DOMAIN rt : Serves(s) \/ TimerFires(s)
    BY <1>1
  <2>1. CASE \/ HandleQuery(s) \/ RefuseDuplicate(s) \/ HandleStartChild(s) \/ RefuseUnknown(s)
             \/ IgnoreReport(s) \/ HandleStartChildLinked(s) \/ LinkOk(s)
             \/ \E a \in {"InitializationFailed", "InitializationTimeout"} : LinkFails(s, a)
             \/ HandleTerminateChild(s) \/ HandleShutdown(s)
    BY <2>1, Zenon DEF HandleQuery, RefuseDuplicate, HandleStartChild, RefuseUnknown,
       IgnoreReport, HandleStartChildLinked, LinkOk, LinkFails, HandleTerminateChild,
       HandleShutdown
  <2>2. CASE DropChild(s) \/ Escalate(s) \/ Restart(s) \/ HandleRestartChild(s) \/ TimerFires(s)
    BY <2>2, Zenon DEF DropChild, Escalate, Restart, HandleRestartChild, TimerFires
  <2>3. CASE \/ BeginStop(s) \/ StopTimesOut(s) \/ FinishTerminate(s) \/ StopNext(s) \/ Exit(s)
             \/ RestartOne(s) \/ DrainAll(s) \/ RespawnHead(s) \/ EndRound(s)
    BY <2>3, Zenon DEF BeginStop, StopTimesOut, FinishTerminate, StopNext, Exit, RestartOne,
       DrainAll, RespawnHead, EndRound
  <2> QED BY <2>1, <2>2, <2>3 DEF Serves
<1>2. CASE \E c \in Client, k \in config.asks : Call(c, k)
  BY <1>2 DEF Call
<1>3. CASE \E s \in DOMAIN rt : \E t \in DOMAIN rt[s].task : Runs(s, t) \/ MustRun(s, t)
  BY <1>3 DEF Runs, MustRun, InitOk, InitFails, ShutdownSeen, RunReturns, HookReturns,
     Panic, ReportInitFailure, Cancelled
<1> QED BY <1>1, <1>2, <1>3 DEF Next, Scheduled

LEMMA ExactAlways == Spec => []AllExact
<1>1. Init => AllExact
  <2> SUFFICES ASSUME Init PROVE AllExact
    OBVIOUS
  <2>1. store = [n \in DOMAIN config.nodes |-> [value |-> -1, expected |-> -1, holder |-> <<>>]]
    BY DEF Init
  <2> QED BY <2>1 DEF AllExact, Exact
<1>2. AllExact /\ [Next]_vars => AllExact'
  <2> SUFFICES ASSUME AllExact, [Next]_vars PROVE AllExact'
    OBVIOUS
  <2>1. CASE \E s \in DOMAIN rt : \E t \in DOMAIN rt[s].task :
               UpdateBegins(s, t) \/ UpdateEnds(s, t) \/ SetOrDelete(s, t)
    BY <2>1, UseExact
  <2>2. CASE store' = store
    BY <2>2 DEF AllExact
  <2> QED BY <2>1, <2>2, ContextsUntouched DEF vars
<1> QED BY <1>1, <1>2, PTL DEF Spec

\* Whatever the tree, its faults and its restarts, an operation on a context takes
\* effect as a whole, in the order in which the operations finish.
THEOREM UpdatesLinearize == Spec => []ContextLinearizable
<1>1. AllExact => ContextLinearizable
  BY DEF AllExact, Exact, ContextLinearizable
<1> QED BY <1>1, ExactAlways, PTL

(***************************************************************************)
(* The invariant of one runtime, r.                                        *)
(***************************************************************************)

Stays(r) == SetOf(r.children) \cup SetOf(r.work.back)
HeldBy(r) == Stays(r) \cup SetOf(r.work.todo)

Over(t) == t.pc \in Ends
StoppedIn(r, c) ==
  \/ Over(r.task[c.task])
  \/ c.kind = "Supervisor" /\ r.task[c.task].signal

\* A child that is held has a task of its own kind and id; a nested supervisor
\* comes from the specification.
Placed(nodes, r) ==
  \A c \in HeldBy(r) :
    /\ c.task \in DOMAIN r.task
    /\ r.task[c.task].id = c.id /\ r.task[c.task].kind = c.kind
    /\ c.kind = "Supervisor" => c.id \in NestedIds(nodes, r.node)

\* No two children that are held have the same id, and only a round that has not
\* replaced anything yet names the same child twice.
Distinct(r) ==
  /\ DistinctIds(r.children) /\ DistinctIds(r.work.todo) /\ DistinctIds(r.work.back)
  /\ Apart(r.children, r.work.back) /\ Apart(r.work.todo, r.work.back)
  /\ IF r.work.op \in {"one", "all"}
     THEN SetOf(r.work.todo) \subseteq SetOf(r.children)
     ELSE Apart(r.children, r.work.todo)

\* What the work in hand says of the sequences it runs over.
Shaped(r) ==
  /\ r.status # "running" => r.work.op = "idle" /\ r.children = <<>>
  /\ r.work.op = "idle" => r.work.todo = <<>>
  /\ r.work.op \notin {"respawn", "from"} => r.work.back = <<>>
  /\ r.work.op \in {"link", "terminate", "one"} => Len(r.work.todo) = 1
  /\ r.work.op = "link" => r.work.todo[1].kind = "Worker"
  /\ r.work.op \in {"shutdown", "escalate"} => r.children = <<>>
  /\ r.work.stage # "next" => r.work.todo # <<>>

\* A child was stopped before it is replaced or forgotten.
Halted(r) ==
  /\ r.work.stage # "next" /\ Head(r.work.todo).kind = "Supervisor" =>
       StoppedIn(r, Head(r.work.todo))
  /\ r.work.op = "all" =>
       \A c \in SetOf(r.children) : c \in SetOf(r.work.todo) \/ StoppedIn(r, c)
  /\ r.work.op = "respawn" => \A c \in SetOf(r.work.todo) : StoppedIn(r, c)

\* A task that nobody told to stop and that has not ended.
Loose(t) == ~Over(t) /\ IF t.kind = "Worker" THEN ~t.abort ELSE ~t.signal

\* Such a task is the task of a child.
Controlled(r) ==
  \A t \in DOMAIN r.task :
    Loose(r.task[t]) => r.status = "running" /\ \E c \in HeldBy(r) : c.task = t

\* All but the latest of the tasks of one nested supervisor were told to stop.
Followed(r) ==
  \A t, u \in DOMAIN r.task :
    /\ t < u /\ r.task[t].id = r.task[u].id
    /\ r.task[t].kind = "Supervisor" /\ r.task[u].kind = "Supervisor"
    => ~Loose(r.task[t])

\* c is being stopped in order to be replaced.
Excused(r, c) ==
  \/ r.work.op = "one" /\ Head(r.work.todo) = c
  \/ r.work.op = "all"

Unsignalled(r) ==
  \A c \in Stays(r) : c.kind = "Supervisor" /\ r.task[c.task].signal => Excused(r, c)

About == {"ChildTerminated", "RestartChild"}

\* A letter about a task carries its id.
Addressed(r) ==
  /\ \A m \in SetOf(r.queue) :
       m.cmd \in About => m.by \in DOMAIN r.task /\ m.id = r.task[m.by].id
  /\ \A m \in r.timers : m.by \in DOMAIN r.task /\ m.id = r.task[m.by].id

\* Only a nested supervisor that was told to stop reports a shutdown.
Unasked(r) ==
  \A m \in SetOf(r.queue) : m.cmd = "ChildTerminated" /\ IsOwnDoing(m.reason) =>
    \A c \in Stays(r) : c.kind = "Supervisor" /\ c.task = m.by => Excused(r, c)

\* A nested supervisor that has ended is heard of.
Awaited(r) ==
  r.status = "running" =>
    \A c \in Stays(r) : c.kind = "Supervisor" /\ Over(r.task[c.task]) =>
      \/ \E m \in SetOf(r.queue) : m.cmd \in About /\ m.by = c.task
      \/ \E m \in r.timers : m.by = c.task
      \/ Excused(r, c)

Sound(nodes, r) ==
  /\ r.node \in DOMAIN nodes
  /\ Placed(nodes, r) /\ Distinct(r) /\ Shaped(r) /\ Halted(r) /\ Controlled(r) /\ Followed(r)
  /\ Unsignalled(r) /\ Addressed(r) /\ Unasked(r) /\ Awaited(r)

(***************************************************************************)
(* The invariant of the tree.                                              *)
(***************************************************************************)

SlotOf(u) == rt[rt[u].up].task[rt[u].slot]

\* Every task of kind Supervisor runs one runtime, and ends when it returns.
OneEach ==
  /\ \A u, v \in 2..Len(rt) : rt[u].up = rt[v].up /\ rt[u].slot = rt[v].slot => u = v
  /\ \A s \in DOMAIN rt : \A t \in DOMAIN rt[s].task :
       rt[s].task[t].kind = "Supervisor" => \E u \in 2..Len(rt) : rt[u].up = s /\ rt[u].slot = t
  /\ \A u \in 2..Len(rt) : Over(SlotOf(u)) <=> rt[u].status # "running"

\* The incarnations of one specification follow each other.
InOrder ==
  \A u, v \in 2..Len(rt) :
    u < v /\ rt[u].up = rt[v].up /\ rt[u].node = rt[v].node => rt[u].slot < rt[v].slot

HasShutdown(r) == \E m \in SetOf(r.queue) : m.cmd = "Shutdown"

\* A nested supervisor that was told to stop has the message or is at it; and
\* only its parent tells it.
Obeys ==
  \A u \in 2..Len(rt) : rt[u].status = "running" =>
    /\ SlotOf(u).signal => rt[u].work.op \in {"shutdown", "escalate"} \/ HasShutdown(rt[u])
    /\ rt[u].work.op = "shutdown" \/ HasShutdown(rt[u]) => SlotOf(u).signal

TreeOk == rt[1].up = 0 /\ TreeShape /\ OneEach /\ InOrder /\ Obeys

AllSound == \A s \in DOMAIN rt : Sound(config.nodes, rt[s])

IInv == VarTypes /\ rt # <<>> /\ AllSound /\ TreeOk
(***************************************************************************)
(* Lemmas about one runtime: r before a step, x after it.                  *)
(***************************************************************************)

\* How tasks go on: they keep their id and kind, stay ended, and stay told.
Forward(p, q) ==
  \A t \in DOMAIN p :
    /\ t \in DOMAIN q
    /\ q[t].id = p[t].id /\ q[t].kind = p[t].kind
    /\ Over(p[t]) => Over(q[t])
    /\ Loose(q[t]) => Loose(p[t])

\* Nested supervisors are left as they are.
SameNested(p, q) ==
  \A t \in DOMAIN p : p[t].kind = "Supervisor" => q[t] = p[t]

\* The work in hand, what a linked worker answered apart.
SameWork(v, w) == v.op = w.op /\ v.stage = w.stage /\ v.todo = w.todo /\ v.back = w.back

\* Nothing happened to the tasks.
LEMMA ForwardSame ==
  ASSUME NEW p
  PROVE  Forward(p, p) /\ SameNested(p, p)
BY DEF Forward, SameNested

\* A child that was stopped stays stopped.
LEMMA StoppedStays ==
  ASSUME NEW r, NEW x, Forward(r.task, x.task), NEW c, c.task \in DOMAIN r.task,
         r.task[c.task].kind = c.kind, StoppedIn(r, c)
  PROVE  StoppedIn(x, c)
<1> DEFINE p == r.task[c.task]
           q == x.task[c.task]
<1>1. q.kind = p.kind /\ (Over(p) => Over(q)) /\ (Loose(q) => Loose(p))
  BY DEF Forward
<1> HIDE DEF p, q
<1>2. Over(p) \/ (c.kind = "Supervisor" /\ p.signal)
  BY DEF StoppedIn, p
<1>3. p.kind = c.kind
  BY DEF p
<1>4. Over(q) \/ (c.kind = "Supervisor" /\ q.signal)
  BY <1>1, <1>2, <1>3 DEF Loose
<1> QED BY <1>4 DEF StoppedIn, q

\* The tasks go on, and whoever is let go was stopped.
LEMMA TasksKept ==
  ASSUME NEW nodes, NEW r, NEW x, Placed(nodes, r), Controlled(r), Followed(r),
         x.node = r.node, Forward(r.task, x.task), DOMAIN x.task = DOMAIN r.task,
         HeldBy(x) \subseteq HeldBy(r),
         \A c \in HeldBy(r) : c \in HeldBy(x) \/ ~Loose(x.task[c.task]),
         r.status = "running" => \/ x.status = "running"
                                 \/ \A t \in DOMAIN r.task : ~Loose(x.task[t])
  PROVE  Placed(nodes, x) /\ Controlled(x) /\ Followed(x)
<1>1. Placed(nodes, x)
  BY DEF Placed, Forward
<1>2. Controlled(x)
  <2> SUFFICES ASSUME NEW t \in DOMAIN x.task, Loose(x.task[t])
               PROVE  x.status = "running" /\ \E c \in HeldBy(x) : c.task = t
    BY DEF Controlled
  <2>1. t \in DOMAIN r.task /\ Loose(r.task[t])
    BY DEF Forward
  <2>2. r.status = "running" /\ \E c \in HeldBy(r) : c.task = t
    BY <2>1 DEF Controlled
  <2> QED BY <2>1, <2>2
<1>3. Followed(x)
  <2> SUFFICES ASSUME NEW t \in DOMAIN x.task, NEW u \in DOMAIN x.task, t < u,
                      x.task[t].id = x.task[u].id,
                      x.task[t].kind = "Supervisor", x.task[u].kind = "Supervisor"
               PROVE  ~Loose(x.task[t])
    BY DEF Followed
  <2>1. r.task[t].id = r.task[u].id /\ r.task[t].kind = "Supervisor"
        /\ r.task[u].kind = "Supervisor"
    BY DEF Forward
  <2>2. ~Loose(r.task[t])
    BY <2>1 DEF Followed
  <2> QED BY <2>2 DEF Forward
<1> QED BY <1>1, <1>2, <1>3

\* The letters that say something of nested supervisors: none gets lost, and none
\* but a report of an end that was asked for is about to be ignored.
LEMMA LettersKept ==
  ASSUME NEW r, NEW x, Unsignalled(r), Addressed(r), Unasked(r), Awaited(r),
         Forward(r.task, x.task),
         \* those who stay, newcomers apart
         \A c \in Stays(x) : c.kind = "Supervisor" =>
           \/ /\ c \in Stays(r) /\ c.task \in DOMAIN r.task /\ (Excused(r, c) => Excused(x, c))
              /\ \/ x.task[c.task] = r.task[c.task]
                 \/ /\ ~x.task[c.task].signal
                    /\ x.status = "running" =>
                         \E n \in SetOf(x.queue) : n.cmd \in About /\ n.by = c.task
           \/ Excused(x, c)
           \/ c.task \notin DOMAIN r.task /\ Loose(x.task[c.task])
              /\ x.task[c.task].kind = "Supervisor",
         \* what is new in the channel
         \A m \in SetOf(x.queue) :
           \/ m \in SetOf(r.queue) \/ m \in r.timers
           \/ m.cmd \notin About
           \/ /\ m.cmd = "ChildTerminated" /\ m.by \in DOMAIN r.task /\ m.id = r.task[m.by].id
              /\ \A c \in Stays(x) : c.kind = "Supervisor" /\ c.task = m.by =>
                   ~IsOwnDoing(m.reason) \/ Excused(x, c),
         \A m \in r.timers : m.cmd = "RestartChild",
         \A m \in x.timers : m \in r.timers
           \/ (m.by \in DOMAIN r.task /\ m.id = r.task[m.by].id),
         \* what is no longer there
         x.status = "running" => r.status = "running",
         \A m \in SetOf(r.queue) \cup r.timers : m.cmd \in About =>
           \/ \E n \in SetOf(x.queue) : n.cmd \in About /\ n.by = m.by
           \/ \E n \in x.timers : n.by = m.by
           \/ \A c \in Stays(x) : c.kind = "Supervisor" /\ c.task = m.by => Excused(x, c)
           \/ x.status # "running"
  PROVE  Unsignalled(x) /\ Addressed(x) /\ Unasked(x) /\ Awaited(x)
<1>1. Unsignalled(x)
  <2> SUFFICES ASSUME NEW c \in Stays(x), c.kind = "Supervisor", x.task[c.task].signal
               PROVE  Excused(x, c)
    BY DEF Unsignalled
  <2>1. CASE c \in Stays(r) /\ x.task[c.task] = r.task[c.task] /\ (Excused(r, c) => Excused(x, c))
    BY <2>1 DEF Unsignalled
  <2>2. CASE Loose(x.task[c.task]) /\ x.task[c.task].kind = "Supervisor"
    BY <2>2 DEF Loose
  <2>3. CASE Excused(x, c)
    BY <2>3
  <2> QED BY <2>1, <2>2, <2>3
<1>2. ASSUME NEW m, m \in SetOf(r.queue) \/ m \in r.timers, m.cmd \in About
      PROVE  m.by \in DOMAIN r.task /\ m.id = r.task[m.by].id
  BY <1>2 DEF Addressed
<1>3. Addressed(x)
  <2>1. ASSUME NEW m \in SetOf(x.queue), m.cmd \in About
        PROVE  m.by \in DOMAIN r.task /\ m.id = r.task[m.by].id
    BY <1>2, <2>1
  <2>2. ASSUME NEW m \in x.timers
        PROVE  m.by \in DOMAIN r.task /\ m.id = r.task[m.by].id
    BY <2>2 DEF Addressed
  <2> QED BY <2>1, <2>2 DEF Addressed, Forward
<1>4. Unasked(x)
  <2> SUFFICES ASSUME NEW m \in SetOf(x.queue), m.cmd = "ChildTerminated", IsOwnDoing(m.reason),
                      NEW c \in Stays(x), c.kind = "Supervisor", c.task = m.by
               PROVE  Excused(x, c)
    BY DEF Unasked
  <2>0. m.cmd \in About /\ m.cmd # "RestartChild"
    BY DEF About
  <2>1. m \in SetOf(r.queue) \/ Excused(x, c)
    BY <2>0
  <2>2. CASE m \in SetOf(r.queue)
    <3>1. m.by \in DOMAIN r.task
      BY <1>2, <2>0, <2>2
    <3>2. Excused(x, c) \/ (c \in Stays(r) /\ (Excused(r, c) => Excused(x, c)))
      BY <3>1
    <3> QED BY <2>2, <3>2 DEF Unasked
  <2> QED BY <2>1, <2>2
<1>5. Awaited(x)
  <2> SUFFICES ASSUME x.status = "running", NEW c \in Stays(x), c.kind = "Supervisor",
                      Over(x.task[c.task])
               PROVE  \/ \E m \in SetOf(x.queue) : m.cmd \in About /\ m.by = c.task
                      \/ \E m \in x.timers : m.by = c.task
                      \/ Excused(x, c)
    BY DEF Awaited
  <2>1. \/ /\ c \in Stays(r) /\ x.task[c.task] = r.task[c.task]
           /\ (Excused(r, c) => Excused(x, c))
        \/ \E n \in SetOf(x.queue) : n.cmd \in About /\ n.by = c.task
        \/ Excused(x, c)
    BY DEF Loose
  <2>2. CASE \/ \E n \in SetOf(x.queue) : n.cmd \in About /\ n.by = c.task
             \/ Excused(x, c)
             \/ (Excused(r, c) => Excused(x, c)) /\ Excused(r, c)
    BY <2>2
  <2>3. CASE c \in Stays(r) /\ x.task[c.task] = r.task[c.task] /\ ~Excused(r, c)
    <3>1. \/ \E m \in SetOf(r.queue) : m.cmd \in About /\ m.by = c.task
          \/ \E m \in r.timers : m.by = c.task
      BY <2>3 DEF Awaited
    <3>2. PICK m \in SetOf(r.queue) \cup r.timers : m.cmd \in About /\ m.by = c.task
      BY <3>1 DEF About
    <3> QED BY <3>2
  <2> QED BY <2>1, <2>2, <2>3
<1> QED BY <1>1, <1>3, <1>4, <1>5
(***************************************************************************)
(* Types.                                                                  *)
(***************************************************************************)

\* What a runtime is made of.
LEMMA RuntimeTypes ==
  ASSUME NEW r \in Runtime
  PROVE  /\ r.node \in Nat /\ r.up \in Nat /\ r.slot \in Nat /\ r.recent \in Nat
         /\ r.ends \in Nat /\ r.rounds \in Nat /\ r.tracked \in SUBSET Id
         /\ r.status \in {"running", "Shutdown", "Abnormal"}
         /\ r.queue \in Seq(Command) /\ r.children \in Seq(Child)
         /\ r.timers \in SUBSET [cmd : {"RestartChild"}, id : Id, by : Nat]
         /\ r.task \in Seq(Task) /\ DOMAIN r.task = 1..Len(r.task) /\ Len(r.task) \in Nat
         /\ \A t \in DOMAIN r.task : r.task[t] \in Task
         /\ r.work \in Work /\ r.work.todo \in Seq(Child) /\ r.work.back \in Seq(Child)
<1>1. r.task \in Seq(Task)
  BY DEF Runtime
<1>2. DOMAIN r.task = 1..Len(r.task) /\ Len(r.task) \in Nat
      /\ \A t \in DOMAIN r.task : r.task[t] \in Task
  BY <1>1, LenProperties, ElementOfSeq
<1>3. r.work \in Work
  BY DEF Runtime
<1>4. r.work.todo \in Seq(Child) /\ r.work.back \in Seq(Child)
  BY <1>3 DEF Work
<1> QED BY <1>1, <1>2, <1>3, <1>4 DEF Runtime

\* Replacing an element of a sequence.
LEMMA Replaced ==
  ASSUME NEW S, NEW q \in Seq(S), NEW i \in DOMAIN q, NEW e \in S
  PROVE  LET p == [q EXCEPT ![i] = e] IN
         /\ p \in Seq(S) /\ DOMAIN p = DOMAIN q /\ Len(p) = Len(q)
         /\ p[i] = e /\ \A j \in DOMAIN q : j # i => p[j] = q[j]
<1>1. DOMAIN q = 1..Len(q) /\ Len(q) \in Nat
  BY LenProperties
<1> QED BY <1>1, ExceptSeq

\* A runtime in a new state.
LEMMA PutIs ==
  ASSUME rt \in Seq(Runtime), NEW s \in DOMAIN rt, NEW x \in Runtime
  PROVE  /\ Put(s, x) \in Seq(Runtime) /\ DOMAIN Put(s, x) = DOMAIN rt
         /\ Len(Put(s, x)) = Len(rt) /\ Put(s, x) # <<>>
         /\ Put(s, x)[s] = x /\ \A u \in DOMAIN rt : u # s => Put(s, x)[u] = rt[u]
<1>1. DOMAIN rt = 1..Len(rt) /\ Len(rt) \in Nat
  BY LenProperties
<1>2. LET p == [rt EXCEPT ![s] = x] IN
         /\ p \in Seq(Runtime) /\ DOMAIN p = DOMAIN rt /\ Len(p) = Len(rt)
         /\ p[s] = x /\ \A j \in DOMAIN rt : j # s => p[j] = rt[j]
  BY Replaced
<1> QED BY <1>1, <1>2, EmptySeq DEF Put

\* A task in a new state.
LEMMA TaskPut ==
  ASSUME NEW r \in Runtime, NEW t \in DOMAIN r.task, NEW e \in Task
  PROVE  LET q == [r.task EXCEPT ![t] = e] IN
         /\ q \in Seq(Task) /\ DOMAIN q = DOMAIN r.task /\ Len(q) = Len(r.task)
         /\ q[t] = e /\ \A u \in DOMAIN r.task : u # t => q[u] = r.task[u]
BY RuntimeTypes, Replaced

\* The invariant, of one runtime.
LEMMA At1 ==
  ASSUME IInv, NEW s \in DOMAIN rt
  PROVE  rt[s] \in Runtime /\ Sound(config.nodes, rt[s])
BY ElementOfSeq, LenProperties DEF IInv, VarTypes, AllSound

\* The runtimes and their numbers.
LEMMA Numbers ==
  ASSUME IInv
  PROVE  /\ Len(rt) \in Nat \ {0} /\ DOMAIN rt = 1..Len(rt) /\ 1 \in DOMAIN rt
         /\ \A u \in 2..Len(rt) : u \in DOMAIN rt
         /\ config \in Trees /\ config \in Tree /\ WellFormed(config.nodes)
         /\ config.nodes \in Seq(Node) /\ DOMAIN config.nodes = 1..Len(config.nodes)
         /\ Len(config.nodes) \in Nat
<1>1. rt \in Seq(Runtime) /\ rt # <<>> /\ config \in Trees
  BY DEF IInv, VarTypes
<1>2. Len(rt) \in Nat /\ Len(rt) # 0 /\ DOMAIN rt = 1..Len(rt)
  BY <1>1, LenProperties, EmptySeq
<1>3. config \in Tree /\ WellFormed(config.nodes)
  BY <1>1, TreesAssumption
<1>4. config.nodes \in Seq(Node)
  BY <1>3 DEF Tree
<1> QED BY <1>1, <1>2, <1>3, <1>4, LenProperties

(***************************************************************************)
(* A step that the rest of the tree does not see.                          *)
(***************************************************************************)

Told(r) == r.work.op \in {"shutdown", "escalate"} \/ HasShutdown(r)
Asked(r) == r.work.op = "shutdown" \/ HasShutdown(r)

Inward(r, x) ==
  /\ x.up = r.up /\ x.slot = r.slot /\ x.node = r.node /\ x.status = r.status
  /\ DOMAIN x.task = DOMAIN r.task
  /\ Forward(r.task, x.task) /\ SameNested(r.task, x.task)
  /\ r.up # 0 /\ r.status = "running" => (Told(r) => Told(x)) /\ (Asked(x) => Asked(r))

\* The other variables keep their types.
RestTyped ==
  /\ store' \in [DOMAIN config.nodes -> Contexts]
  /\ answer' \in [Client -> Answer]
  /\ calls' \in 0..config.calls /\ faults' \in 0..config.faults /\ uses' \in 0..config.uses

LEMMA StepInside ==
  ASSUME IInv, NEW s \in DOMAIN rt, NEW x \in Runtime, Sound(config.nodes, x),
         Inward(rt[s], x), rt' = Put(s, x), config' = config, RestTyped
  PROVE  IInv'
<1> DEFINE r == rt[s]
<1>0. /\ rt \in Seq(Runtime) /\ Len(rt) \in Nat \ {0} /\ DOMAIN rt = 1..Len(rt)
      /\ TreeOk /\ AllSound
  BY Numbers DEF IInv, VarTypes
<1>1. /\ rt' \in Seq(Runtime) /\ DOMAIN rt' = DOMAIN rt /\ Len(rt') = Len(rt) /\ rt' # <<>>
      /\ rt'[s] = x /\ \A u \in DOMAIN rt : u # s => rt'[u] = rt[u]
  <2> DEFINE p == Put(s, x)
  <2>1. /\ p \in Seq(Runtime) /\ DOMAIN p = DOMAIN rt /\ Len(p) = Len(rt) /\ p # <<>>
        /\ p[s] = x /\ \A u \in DOMAIN rt : u # s => p[u] = rt[u]
    BY <1>0, PutIs
  <2>2. rt' = p
    OBVIOUS
  <2> HIDE DEF p
  <2> QED BY <2>1, <2>2
<1>2. VarTypes'
  BY <1>1 DEF IInv, VarTypes, RestTyped
<1>3. AllSound'
  <2> SUFFICES ASSUME NEW u \in DOMAIN rt PROVE Sound(config.nodes, rt'[u])
    BY <1>1 DEF AllSound
  <2> QED BY <1>0, <1>1 DEF AllSound
<1>4. \A u \in DOMAIN rt : /\ rt'[u].up = rt[u].up /\ rt'[u].slot = rt[u].slot
                           /\ rt'[u].node = rt[u].node /\ rt'[u].status = rt[u].status
                           /\ DOMAIN rt'[u].task = DOMAIN rt[u].task
                           /\ Forward(rt[u].task, rt'[u].task)
                           /\ SameNested(rt[u].task, rt'[u].task)
                           /\ rt[u].up # 0 /\ rt[u].status = "running" =>
                                (Told(rt[u]) => Told(rt'[u])) /\ (Asked(rt'[u]) => Asked(rt[u]))
  BY <1>1, ForwardSame DEF Inward
<1>5. \A u \in 2..Len(rt) :
        /\ u \in DOMAIN rt /\ rt[u].up \in 1..(u - 1) /\ rt[u].up \in DOMAIN rt /\ rt[u].up # 0
        /\ rt[u].slot \in DOMAIN rt[rt[u].up].task
        /\ rt[rt[u].up].task[rt[u].slot].kind = "Supervisor"
        /\ rt'[rt[u].up].task[rt[u].slot] = rt[rt[u].up].task[rt[u].slot]
  BY <1>0, <1>4 DEF TreeOk, TreeShape, SameNested
<1>6. (rt[1].up = 0)'
  BY <1>0, <1>4 DEF TreeOk
<1>7. TreeShape'
  <2> SUFFICES ASSUME NEW u \in 2..Len(rt)
               PROVE  /\ rt'[u].up \in 1..(u - 1)
                      /\ rt'[u].slot \in DOMAIN rt'[rt'[u].up].task
                      /\ rt'[rt'[u].up].task[rt'[u].slot].kind = "Supervisor"
                      /\ rt'[rt'[u].up].task[rt'[u].slot].id = config.nodes[rt'[u].node].name
    BY <1>1 DEF TreeShape, SpecOf
  <2>1. rt[rt[u].up].task[rt[u].slot].id = config.nodes[rt[u].node].name
    BY <1>0 DEF TreeOk, TreeShape, SpecOf
  <2> QED BY <1>4, <1>5, <2>1, ZenonT(40)
<1>8. OneEach'
  <2>1. \A u, v \in 2..Len(rt) : rt'[u].up = rt'[v].up /\ rt'[u].slot = rt'[v].slot => u = v
    BY <1>0, <1>4, <1>5 DEF TreeOk, OneEach
  <2>2. ASSUME NEW u \in DOMAIN rt, NEW t \in DOMAIN rt'[u].task,
               rt'[u].task[t].kind = "Supervisor"
        PROVE  \E v \in 2..Len(rt) : rt'[v].up = u /\ rt'[v].slot = t
    <3>1. t \in DOMAIN rt[u].task /\ rt[u].task[t].kind = "Supervisor"
      BY <1>4, <2>2 DEF Forward
    <3>2. PICK v \in 2..Len(rt) : rt[v].up = u /\ rt[v].slot = t
      BY <1>0, <3>1 DEF TreeOk, OneEach
    <3> QED BY <1>4, <1>5, <3>2
  <2>3. ASSUME NEW u \in 2..Len(rt)
        PROVE  Over(rt'[rt'[u].up].task[rt'[u].slot]) <=> rt'[u].status # "running"
    <3>1. Over(SlotOf(u)) <=> rt[u].status # "running"
      BY <1>0 DEF TreeOk, OneEach
    <3>2. rt'[rt'[u].up].task[rt'[u].slot] = SlotOf(u)
      BY <1>4, <1>5 DEF SlotOf
    <3> QED BY <1>4, <1>5, <3>1, <3>2
  <2> QED BY <1>1, <2>1, <2>2, <2>3 DEF OneEach, SlotOf
<1>9. InOrder'
  <2> SUFFICES ASSUME NEW u \in 2..Len(rt), NEW v \in 2..Len(rt),
                      u < v, rt'[u].up = rt'[v].up, rt'[u].node = rt'[v].node
               PROVE  rt'[u].slot < rt'[v].slot
    BY <1>1 DEF InOrder
  <2>1. rt[u].up = rt[v].up /\ rt[u].node = rt[v].node
    BY <1>4, <1>5
  <2>2. rt[u].slot < rt[v].slot
    BY <1>0, <2>1 DEF TreeOk, InOrder
  <2> QED BY <1>4, <1>5, <2>2
<1>10. Obeys'
  <2> SUFFICES ASSUME NEW u \in 2..Len(rt), rt'[u].status = "running"
               PROVE  /\ rt'[rt'[u].up].task[rt'[u].slot].signal => Told(rt'[u])
                      /\ Asked(rt'[u]) => rt'[rt'[u].up].task[rt'[u].slot].signal
    BY <1>1 DEF Obeys, SlotOf, Told, Asked, HasShutdown
  <2>1. rt[u].status = "running" /\ rt[u].up # 0
    BY <1>4, <1>5
  <2>2. (SlotOf(u).signal => Told(rt[u])) /\ (Asked(rt[u]) => SlotOf(u).signal)
    BY <1>0, <2>1 DEF TreeOk, Obeys, Told, Asked
  <2>3. rt'[rt'[u].up].task[rt'[u].slot] = SlotOf(u)
    BY <1>4, <1>5 DEF SlotOf
  <2> QED BY <1>4, <1>5, <2>1, <2>2, <2>3
<1> QED BY <1>1, <1>2, <1>3, <1>6, <1>7, <1>8, <1>9, <1>10 DEF IInv, TreeOk
(***************************************************************************)
(* Steps that leave the children and the work in hand alone.               *)
(***************************************************************************)

\* The first letter and the others.
LEMMA Queued ==
  ASSUME NEW r \in Runtime, r.queue # <<>>
  PROVE  /\ Head(r.queue) \in Command /\ Tail(r.queue) \in Seq(Command)
         /\ SetOf(r.queue) = {Head(r.queue)} \cup SetOf(Tail(r.queue))
<1>1. r.queue \in Seq(Command)
  BY RuntimeTypes
<1> QED BY <1>1, SetOfHead

LEMMA MovesSound ==
  ASSUME NEW nodes, NEW r \in Runtime, NEW x \in Runtime, Sound(nodes, r),
         x.node = r.node, x.status = r.status, x.children = r.children,
         SameWork(r.work, x.work),
         DOMAIN x.task = DOMAIN r.task, Forward(r.task, x.task), SameNested(r.task, x.task),
         \A m \in SetOf(x.queue) :
           \/ m \in SetOf(r.queue) \/ m \in r.timers
           \/ m.cmd \notin About
           \/ /\ m.cmd = "ChildTerminated" /\ m.by \in DOMAIN r.task /\ m.id = r.task[m.by].id
              /\ r.task[m.by].kind = "Worker",
         \A m \in x.timers : m \in r.timers
           \/ (m.by \in DOMAIN r.task /\ m.id = r.task[m.by].id),
         \A m \in SetOf(r.queue) \cup r.timers : m.cmd \in About =>
           \/ \E n \in SetOf(x.queue) : n.cmd \in About /\ n.by = m.by
           \/ \E n \in x.timers : n.by = m.by
           \/ \A c \in Stays(r) : c.kind = "Supervisor" /\ c.task = m.by => Excused(r, c)
           \/ r.status # "running"
  PROVE  Sound(nodes, x)
<1>1. /\ Placed(nodes, r) /\ Controlled(r) /\ Followed(r) /\ Distinct(r) /\ Shaped(r) /\ Halted(r)
      /\ Unsignalled(r) /\ Addressed(r) /\ Unasked(r) /\ Awaited(r) /\ r.node \in DOMAIN nodes
  BY DEF Sound
<1>2. HeldBy(x) = HeldBy(r) /\ Stays(x) = Stays(r)
  BY DEF HeldBy, Stays, SameWork
<1>3. Placed(nodes, x) /\ Controlled(x) /\ Followed(x)
  BY <1>1, <1>2, TasksKept
<1>4. Distinct(x) /\ Shaped(x)
  BY <1>1 DEF Distinct, Shaped, SameWork
<1>5. \A c \in HeldBy(r) : c.task \in DOMAIN r.task /\ r.task[c.task].kind = c.kind
  BY <1>1 DEF Placed
<1>6. \A c \in HeldBy(r) : StoppedIn(r, c) => StoppedIn(x, c)
  BY <1>5, StoppedStays
<1>7. Halted(x)
  <2>1. r.work.todo # <<>> => Head(r.work.todo) \in HeldBy(r)
    BY RuntimeTypes, SetOfHead DEF HeldBy
  <2>2. SetOf(r.children) \subseteq HeldBy(r) /\ SetOf(r.work.todo) \subseteq HeldBy(r)
    BY DEF HeldBy, Stays
  <2>3. r.work.stage # "next" => r.work.todo # <<>>
    BY <1>1 DEF Shaped
  <2> QED BY <1>1, <1>6, <2>1, <2>2, <2>3 DEF Halted, SameWork
<1>8. \A c : Excused(r, c) <=> Excused(x, c)
  BY DEF Excused, SameWork
<1>9. \A c \in Stays(x) : c.kind = "Supervisor" =>
        /\ c \in Stays(r) /\ c.task \in DOMAIN r.task /\ x.task[c.task] = r.task[c.task]
        /\ (Excused(r, c) => Excused(x, c))
  BY <1>2, <1>5, <1>8 DEF HeldBy, SameNested
<1>10. \A m \in r.timers : m.cmd = "RestartChild"
  BY RuntimeTypes
<1>11. \A m \in SetOf(x.queue) :
         \/ m \in SetOf(r.queue) \/ m \in r.timers
         \/ m.cmd \notin About
         \/ /\ m.cmd = "ChildTerminated" /\ m.by \in DOMAIN r.task /\ m.id = r.task[m.by].id
            /\ \A c \in Stays(x) : c.kind = "Supervisor" /\ c.task = m.by => ~IsOwnDoing(m.reason)
  BY <1>2, <1>5 DEF HeldBy
<1>12. \A m \in SetOf(r.queue) \cup r.timers : m.cmd \in About =>
         \/ \E n \in SetOf(x.queue) : n.cmd \in About /\ n.by = m.by
         \/ \E n \in x.timers : n.by = m.by
         \/ \A c \in Stays(x) : c.kind = "Supervisor" /\ c.task = m.by => Excused(x, c)
         \/ x.status # "running"
  BY <1>2, <1>8
<1>13. Unsignalled(x) /\ Addressed(x) /\ Unasked(x) /\ Awaited(x)
  BY <1>1, <1>9, <1>10, <1>11, <1>12, LettersKept
<1> QED BY <1>1, <1>3, <1>4, <1>7, <1>13 DEF Sound

\* Nobody outside sees such a step either, if no shutdown comes or goes.
LEMMA MovesInward ==
  ASSUME NEW r \in Runtime, NEW x \in Runtime,
         x.up = r.up, x.slot = r.slot, x.node = r.node, x.status = r.status,
         x.work.op = r.work.op,
         DOMAIN x.task = DOMAIN r.task, Forward(r.task, x.task), SameNested(r.task, x.task),
         r.up # 0 /\ r.status = "running" => (HasShutdown(r) <=> HasShutdown(x))
  PROVE  Inward(r, x)
BY DEF Inward, Told, Asked

(***************************************************************************)
(* Letters.                                                                *)
(***************************************************************************)

\* A letter that changes nothing is taken.
LEMMA TakenSound ==
  ASSUME IInv, NEW s \in DOMAIN rt, rt[s].queue # <<>>, First(s).cmd # "Shutdown",
         First(s).cmd \in About =>
           \A c \in Stays(rt[s]) :
             c.kind = "Supervisor" /\ c.task = First(s).by => Excused(rt[s], c)
  PROVE  Taken(s) \in Runtime /\ Sound(config.nodes, Taken(s)) /\ Inward(rt[s], Taken(s))
<1> DEFINE r == rt[s]
           x == Taken(s)
           q == Tail(r.queue)
<1>1. r \in Runtime /\ Sound(config.nodes, r)
  BY At1
<1>2. /\ q \in Seq(Command)
      /\ SetOf(r.queue) = {First(s)} \cup SetOf(q)
  BY <1>1, Queued DEF First
<1>3. /\ x \in Runtime /\ x.queue = q
      /\ x.up = r.up /\ x.slot = r.slot /\ x.node = r.node /\ x.status = r.status
      /\ x.children = r.children /\ x.work = r.work /\ x.task = r.task /\ x.timers = r.timers
  BY <1>1, <1>2 DEF Runtime, Taken
<1>4. Forward(r.task, x.task) /\ SameNested(r.task, x.task)
  BY <1>3, ForwardSame
<1>5. \A m \in SetOf(r.queue) \cup r.timers : m.cmd \in About =>
           \/ \E n \in SetOf(x.queue) : n.cmd \in About /\ n.by = m.by
           \/ \E n \in x.timers : n.by = m.by
           \/ \A c \in Stays(r) : c.kind = "Supervisor" /\ c.task = m.by => Excused(r, c)
  BY <1>2, <1>3
<1> HIDE DEF x, r, q
<1>6. SameWork(r.work, x.work)
  BY <1>3 DEF SameWork
<1>7. Sound(config.nodes, x)
  BY <1>1, <1>2, <1>3, <1>4, <1>5, <1>6, MovesSound
<1>8. HasShutdown(r) <=> HasShutdown(x)
  BY <1>2, <1>3 DEF HasShutdown
<1>9. Inward(r, x)
  BY <1>1, <1>3, <1>4, <1>8, MovesInward
<1> QED BY <1>3, <1>7, <1>9 DEF x, r
\* Between handlers a runtime holds the children listed, and no others.
LEMMA IdleHolds ==
  ASSUME NEW nodes, NEW r, Sound(nodes, r), r.work.op = "idle"
  PROVE  /\ r.work.todo = <<>> /\ r.work.back = <<>>
         /\ HeldBy(r) = SetOf(r.children) /\ Stays(r) = SetOf(r.children)
         /\ \A c : ~Excused(r, c)
<1>1. r.work.todo = <<>> /\ r.work.back = <<>>
  BY DEF Sound, Shaped
<1>2. SetOf(r.work.todo) = {} /\ SetOf(r.work.back) = {}
  BY <1>1, SetOfSmall
<1> QED BY <1>1, <1>2 DEF HeldBy, Stays, Excused

\* A handler that answers at most.
LEMMA RestStays ==
  ASSUME IInv, UNCHANGED store, UNCHANGED bounds,
         \/ UNCHANGED answer
         \/ \E clients : \E a \in Answer : answer' = Answered(clients, a)
  PROVE  RestTyped
BY DEF IInv, VarTypes, RestTyped, bounds, Answered

LEMMA ReceivesSome ==
  ASSUME NEW s, NEW name, Receives(s, name)
  PROVE  /\ rt[s].status = "running" /\ rt[s].work.op = "idle" /\ rt[s].queue # <<>>
         /\ First(s).cmd = name
BY DEF Receives, First

\* Queries, and requests that are refused.
LEMMA AnsweringStep ==
  ASSUME IInv, NEW s \in DOMAIN rt, HandleQuery(s) \/ RefuseDuplicate(s) \/ RefuseUnknown(s)
  PROVE  IInv'
<1>1. /\ rt[s].queue # <<>> /\ First(s).cmd \in CallName \ {"Shutdown"}
      /\ rt' = Put(s, Taken(s)) /\ config' = config
  BY ReceivesSome DEF HandleQuery, RefuseDuplicate, RefuseUnknown, CallName
<1>2. \E clients : \E a \in Answer : answer' = Answered(clients, a)
  <2>1. {"Ok", "ChildAlreadyExists", "ChildNotFound"} \subseteq Answer
    BY DEF Answer
  <2> QED BY <2>1 DEF HandleQuery, RefuseDuplicate, RefuseUnknown
<1>3. RestTyped
  BY <1>2, RestStays DEF HandleQuery, RefuseDuplicate, RefuseUnknown
<1>4. First(s).cmd \notin About
  BY <1>1 DEF CallName, About
<1> QED BY <1>1, <1>3, <1>4, TakenSound, StepInside

\* The child a letter is about is listed under the letter's id.
LEMMA LetterFinds ==
  ASSUME IInv, NEW s \in DOMAIN rt, rt[s].work.op = "idle",
         NEW m \in SetOf(rt[s].queue), m.cmd \in About,
         NEW c \in Stays(rt[s]), c.task = m.by
  PROVE  c \in SetOf(rt[s].children) /\ c.id = m.id /\ Listed(s, m.id)
<1>1. Sound(config.nodes, rt[s])
  BY At1
<1>2. c \in SetOf(rt[s].children) /\ c \in HeldBy(rt[s])
  BY <1>1, IdleHolds
<1>3. m.id = rt[s].task[m.by].id
  BY <1>1 DEF Sound, Addressed
<1>4. rt[s].task[c.task].id = c.id
  BY <1>1, <1>2 DEF Sound, Placed
<1> QED BY <1>2, <1>3, <1>4 DEF Listed

LEMMA FirstIsQueued ==
  ASSUME IInv, NEW s \in DOMAIN rt, rt[s].queue # <<>>
  PROVE  First(s) \in SetOf(rt[s].queue) /\ First(s) \in Command
BY At1, Queued DEF First

\* What is ignored says nothing of a child that stays.
LEMMA IgnoringStep ==
  ASSUME IInv, NEW s \in DOMAIN rt,
         \/ IgnoreReport(s)
         \/ /\ Receives(s, "RestartChild") /\ ~Listed(s, First(s).id)
            /\ rt' = Put(s, Taken(s)) /\ UNCHANGED <<config, store, answer, bounds>>
  PROVE  IInv'
<1>1. /\ rt[s].queue # <<>> /\ First(s).cmd \in About /\ rt[s].work.op = "idle"
      /\ rt' = Put(s, Taken(s)) /\ UNCHANGED <<config, store, answer, bounds>>
  BY ReceivesSome DEF IgnoreReport, About
<1>2. \/ ~Listed(s, First(s).id)
      \/ First(s).cmd = "ChildTerminated" /\ IsOwnDoing(First(s).reason)
  BY ReceivesSome DEF IgnoreReport
<1>3. First(s) \in SetOf(rt[s].queue)
  BY <1>1, FirstIsQueued
<1>4. ASSUME NEW c \in Stays(rt[s]), c.kind = "Supervisor", c.task = First(s).by
      PROVE  Excused(rt[s], c)
  <2>1. Listed(s, First(s).id)
    BY <1>1, <1>3, <1>4, LetterFinds
  <2>2. Unasked(rt[s])
    BY At1 DEF Sound
  <2> QED BY <1>2, <1>3, <1>4, <2>1, <2>2 DEF Unasked
<1>5. RestTyped
  BY <1>1, RestStays
<1>6. First(s).cmd # "Shutdown"
  BY <1>1 DEF About
<1> QED BY <1>1, <1>4, <1>5, <1>6, TakenSound, StepInside

\* A letter that arrives, if the runtime still receives.
LEMMA DeliveredIs ==
  ASSUME NEW r \in Runtime, NEW m \in Command
  PROVE  /\ Delivered(r, m) \in Runtime
         /\ Delivered(r, m).up = r.up /\ Delivered(r, m).slot = r.slot
         /\ Delivered(r, m).node = r.node /\ Delivered(r, m).status = r.status
         /\ Delivered(r, m).children = r.children /\ Delivered(r, m).work = r.work
         /\ Delivered(r, m).task = r.task /\ Delivered(r, m).timers = r.timers
         /\ SetOf(Delivered(r, m).queue) =
              IF r.status = "running" THEN SetOf(r.queue) \cup {m} ELSE SetOf(r.queue)
<1> DEFINE q == Append(r.queue, m)
<1>1. q \in Seq(Command) /\ SetOf(q) = SetOf(r.queue) \cup {m}
  BY RuntimeTypes, SetOfAppend, AppendProperties
<1> HIDE DEF q
<1>2. Delivered(r, m) = IF r.status = "running" THEN [r EXCEPT !.queue = q] ELSE r
  BY DEF Delivered, q
<1> QED BY <1>1, <1>2 DEF Runtime

\* The delay of a restart is over.
LEMMA TimerStep ==
  ASSUME IInv, NEW s \in DOMAIN rt, TimerFires(s)
  PROVE  IInv'
<1> DEFINE r == rt[s]
<1>1. r \in Runtime /\ Sound(config.nodes, r)
  BY At1
<1>2. PICK m \in r.timers : rt' = Put(s, Delivered([r EXCEPT !.timers = @ \ {m}], m))
  BY DEF TimerFires
<1> DEFINE y == [r EXCEPT !.timers = @ \ {m}]
           x == Delivered(y, m)
<1>3. m \in Command /\ m.cmd = "RestartChild"
  BY <1>1, RuntimeTypes DEF Command
<1>4. /\ y \in Runtime /\ y.timers = r.timers \ {m} /\ y.queue = r.queue
      /\ y.up = r.up /\ y.slot = r.slot /\ y.node = r.node /\ y.status = r.status
      /\ y.children = r.children /\ y.work = r.work /\ y.task = r.task
  BY <1>1 DEF Runtime
<1> HIDE DEF y
<1>5. /\ x \in Runtime
      /\ x.up = r.up /\ x.slot = r.slot /\ x.node = r.node /\ x.status = r.status
      /\ x.children = r.children /\ x.work = r.work /\ x.task = r.task
      /\ x.timers = r.timers \ {m}
      /\ SetOf(x.queue) = IF r.status = "running" THEN SetOf(r.queue) \cup {m} ELSE SetOf(r.queue)
  BY <1>3, <1>4, DeliveredIs
<1> HIDE DEF x, r
<1>6. Forward(r.task, x.task) /\ SameNested(r.task, x.task) /\ SameWork(r.work, x.work)
  BY <1>5, ForwardSame DEF SameWork
<1>7. \A n \in SetOf(r.queue) \cup r.timers : n.cmd \in About =>
           \/ \E k \in SetOf(x.queue) : k.cmd \in About /\ k.by = n.by
           \/ \E k \in x.timers : k.by = n.by
           \/ r.status # "running"
  BY <1>3, <1>5
<1>8. Sound(config.nodes, x)
  BY <1>1, <1>3, <1>5, <1>6, <1>7, MovesSound
<1>9. HasShutdown(r) <=> HasShutdown(x)
  BY <1>3, <1>5 DEF HasShutdown
<1>10. Inward(r, x)
  BY <1>1, <1>5, <1>6, <1>9, MovesInward
<1>11. config' = config /\ RestTyped
  BY RestStays DEF TimerFires
<1> QED BY <1>2, <1>5, <1>8, <1>10, <1>11, StepInside DEF x, y, r

\* A call on the root's handle.
LEMMA CallStep ==
  ASSUME IInv, NEW c \in Client, NEW k \in config.asks, Call(c, k)
  PROVE  IInv'
<1> DEFINE r == rt[1]
           m == [cmd |-> k.cmd, id |-> k.id, policy |-> k.policy, client |-> c]
           x == Delivered(r, m)
<1>1. 1 \in DOMAIN rt /\ r \in Runtime /\ Sound(config.nodes, r) /\ r.up = 0
  BY At1, Numbers DEF IInv, TreeOk
<1>2. m \in Command /\ m.cmd \in CallName
  <2>1. k \in Ask
    BY Numbers DEF Tree
  <2> QED BY <2>1 DEF Ask, Command
<1>3. /\ x \in Runtime
      /\ x.up = r.up /\ x.slot = r.slot /\ x.node = r.node /\ x.status = r.status
      /\ x.children = r.children /\ x.work = r.work /\ x.task = r.task /\ x.timers = r.timers
      /\ SetOf(x.queue) = IF r.status = "running" THEN SetOf(r.queue) \cup {m} ELSE SetOf(r.queue)
  <2> HIDE DEF m
  <2> QED BY <1>1, <1>2, DeliveredIs
<1>4. rt' = Put(1, x)
  BY DEF Call
<1>5. m.cmd \notin About
  BY <1>2 DEF CallName, About
<1> HIDE DEF x, r, m
<1>6. Forward(r.task, x.task) /\ SameNested(r.task, x.task) /\ SameWork(r.work, x.work)
  BY <1>3, ForwardSame DEF SameWork
<1>7. Sound(config.nodes, x)
  BY <1>1, <1>3, <1>5, <1>6, MovesSound
<1>8. Inward(r, x)
  BY <1>1, <1>3, <1>6 DEF Inward
<1>9. config' = config
  BY DEF Call
<1>10. RestTyped
  <2>1. answer' \in [Client -> Answer]
    BY DEF Call, Answer, IInv, VarTypes
  <2>2. calls' \in 0..config.calls
    <3>1. config.calls \in 0..MaxCalls /\ MaxCalls \in Nat
      BY Numbers, TreesAssumption DEF Tree
    <3>2. calls \in 0..config.calls /\ calls < config.calls /\ calls' = calls + 1
      BY DEF Call, IInv, VarTypes
    <3> QED BY <3>1, <3>2
  <2> QED BY <2>1, <2>2 DEF Call, IInv, VarTypes, RestTyped
<1> QED BY <1>1, <1>3, <1>4, <1>7, <1>8, <1>9, <1>10, StepInside DEF r
(***************************************************************************)
(* Workers.                                                                *)
(***************************************************************************)

\* The same worker, further on.
Onward(p, e) ==
  /\ p.kind = "Worker" /\ e.kind = p.kind /\ e.id = p.id
  /\ Over(p) => Over(e)
  /\ Over(e) \/ (p.abort => e.abort)

\* A worker moves on, and may report that it has ended.
LEMMA WorkerSound ==
  ASSUME NEW nodes, NEW r \in Runtime, NEW x \in Runtime, Sound(nodes, r),
         NEW t \in DOMAIN r.task, NEW e \in Task, Onward(r.task[t], e),
         x.task = [r.task EXCEPT ![t] = e],
         x.up = r.up, x.slot = r.slot, x.node = r.node, x.status = r.status,
         x.children = r.children, x.timers = r.timers, SameWork(r.work, x.work),
         SetOf(r.queue) \subseteq SetOf(x.queue),
         \A m \in SetOf(x.queue) : m \notin SetOf(r.queue) =>
           m.cmd = "ChildTerminated" /\ m.by = t /\ m.id = r.task[t].id
  PROVE  Sound(nodes, x) /\ Inward(r, x)
<1>1. /\ DOMAIN x.task = DOMAIN r.task /\ x.task[t] = e
      /\ \A u \in DOMAIN r.task : u # t => x.task[u] = r.task[u]
  BY TaskPut
<1>2. r.task[t].kind = "Worker" /\ (Loose(e) => Loose(r.task[t]))
  BY DEF Onward, Loose
<1>3. SameNested(r.task, x.task)
  BY <1>1, <1>2 DEF SameNested
<1>4. Forward(r.task, x.task)
  BY <1>1, <1>2 DEF Forward, Onward
<1>5. \A m \in SetOf(x.queue) :
           \/ m \in SetOf(r.queue) \/ m \in r.timers
           \/ m.cmd \notin About
           \/ /\ m.cmd = "ChildTerminated" /\ m.by \in DOMAIN r.task /\ m.id = r.task[m.by].id
              /\ r.task[m.by].kind = "Worker"
  BY <1>2
<1>6. \A m \in SetOf(r.queue) \cup r.timers : m.cmd \in About =>
           \/ \E n \in SetOf(x.queue) : n.cmd \in About /\ n.by = m.by
           \/ \E n \in x.timers : n.by = m.by
  OBVIOUS
<1>7. Sound(nodes, x)
  BY <1>1, <1>3, <1>4, <1>5, <1>6, MovesSound
<1>8. HasShutdown(r) <=> HasShutdown(x)
  BY DEF HasShutdown
<1>9. x.work.op = r.work.op
  BY DEF SameWork
<1>10. Inward(r, x)
  BY <1>1, <1>3, <1>4, <1>8, <1>9, MovesInward
<1> QED BY <1>7, <1>10

\* What a linked start is told.
LEMMA InitToldIs ==
  ASSUME NEW s, NEW t, NEW y \in Runtime, NEW reply \in {"Ok", "Err", "Closed"}
  PROVE  LET x == InitTold(s, t, y, reply) IN
         /\ x \in Runtime /\ SameWork(y.work, x.work)
         /\ x.up = y.up /\ x.slot = y.slot /\ x.node = y.node /\ x.status = y.status
         /\ x.children = y.children /\ x.timers = y.timers /\ x.queue = y.queue
         /\ x.task = y.task
<1>1. CASE y.work.op = "link" /\ Head(y.work.todo).task = t /\ y.work.reply = "-"
  <2> DEFINE w == [y.work EXCEPT !.reply = reply]
  <2>1. w \in Work /\ SameWork(y.work, w)
    BY RuntimeTypes DEF Work, SameWork
  <2>2. InitTold(s, t, y, reply) = [y EXCEPT !.work = w]
    BY <1>1 DEF InitTold
  <2> HIDE DEF w
  <2> QED BY <2>1, <2>2 DEF Runtime
<1>2. CASE ~(y.work.op = "link" /\ Head(y.work.todo).task = t /\ y.work.reply = "-")
  <2>1. InitTold(s, t, y, reply) = y
    BY <1>2 DEF InitTold
  <2> QED BY <2>1 DEF SameWork
<1> QED BY <1>1, <1>2

\* A fault is counted.
LEMMA FaultedIs ==
  ASSUME NEW y \in Runtime
  PROVE  /\ Faulted(y) \in Runtime /\ Faulted(y).work = y.work
         /\ Faulted(y).up = y.up /\ Faulted(y).slot = y.slot /\ Faulted(y).node = y.node
         /\ Faulted(y).status = y.status
         /\ Faulted(y).children = y.children /\ Faulted(y).timers = y.timers
         /\ Faulted(y).queue = y.queue /\ Faulted(y).task = y.task
<1> DEFINE n == y.ends + 1
<1>1. n \in Nat
  BY RuntimeTypes
<1>2. Faulted(y) = [y EXCEPT !.ends = n]
  BY DEF Faulted
<1> HIDE DEF n
<1> QED BY <1>1, <1>2 DEF Runtime

\* One task in another state, and nothing else.
TaskSet(r, t, e) == [r EXCEPT !.task[t] = e]

LEMMA TaskSetIs ==
  ASSUME NEW r \in Runtime, NEW t \in DOMAIN r.task, NEW e \in Task
  PROVE  LET x == TaskSet(r, t, e) IN
         /\ x \in Runtime /\ x.work = r.work
         /\ x.up = r.up /\ x.slot = r.slot /\ x.node = r.node /\ x.status = r.status
         /\ x.children = r.children /\ x.timers = r.timers /\ x.queue = r.queue
         /\ x.task = [r.task EXCEPT ![t] = e]
<1> DEFINE q == [r.task EXCEPT ![t] = e]
<1>1. q \in Seq(Task)
  BY TaskPut
<1>2. TaskSet(r, t, e) = [r EXCEPT !.task = q]
  BY DEF TaskSet, Runtime
<1> HIDE DEF q
<1>3. LET x == TaskSet(r, t, e) IN
         /\ x \in Runtime /\ x.work = r.work
         /\ x.up = r.up /\ x.slot = r.slot /\ x.node = r.node /\ x.status = r.status
         /\ x.children = r.children /\ x.timers = r.timers /\ x.queue = r.queue
         /\ x.task = q
  BY <1>1, <1>2 DEF Runtime
<1> QED BY <1>3 DEF q

\* Where a worker goes next, its mark for a shutdown, and its end.
LEMMA MovedIs ==
  ASSUME NEW s, rt[s] \in Runtime, NEW t \in DOMAIN rt[s].task, NEW pc \in Pc,
         rt[s].task[t].kind = "Worker", rt[s].task[t].pc \notin Ends
  PROVE  \E e \in Task : Moved(s, t, pc) = TaskSet(rt[s], t, e) /\ Onward(rt[s].task[t], e)
<1> DEFINE e == [rt[s].task[t] EXCEPT !.pc = pc]
<1>1. rt[s].task[t] \in Task
  BY RuntimeTypes
<1>2. e \in Task /\ Onward(rt[s].task[t], e)
  BY <1>1 DEF Task, Onward, Over
<1>3. Moved(s, t, pc) = TaskSet(rt[s], t, e)
  BY DEF Moved, TaskSet
<1> QED BY <1>2, <1>3

LEMMA HookIs ==
  ASSUME NEW s, rt[s] \in Runtime, NEW t \in DOMAIN rt[s].task, NEW reason \in Reason,
         rt[s].task[t].kind = "Worker", rt[s].task[t].pc \notin Ends
  PROVE  \E e \in Task :
           /\ [Moved(s, t, "hook") EXCEPT !.task[t].reason = reason] = TaskSet(rt[s], t, e)
           /\ Onward(rt[s].task[t], e)
<1> DEFINE r == rt[s]
           p == r.task[t]
           d == [p EXCEPT !.pc = "hook"]
           e == [d EXCEPT !.reason = reason]
           q == [r.task EXCEPT ![t] = d]
<1>1. p \in Task
  BY RuntimeTypes
<1>2. d \in Task /\ d.kind = p.kind /\ d.id = p.id /\ d.abort = p.abort
  BY <1>1 DEF Task, Pc
<1> HIDE DEF d
<1>3. e \in Task /\ Onward(p, e)
  BY <1>2 DEF Task, Onward, Over
<1> HIDE DEF e
<1>4. /\ q \in Seq(Task) /\ q[t] = d /\ t \in DOMAIN q
      /\ [q EXCEPT ![t] = e] = [r.task EXCEPT ![t] = e]
  <2>1. /\ q \in Seq(Task) /\ DOMAIN q = DOMAIN r.task /\ Len(q) = Len(r.task) /\ q[t] = d
        /\ \A u \in DOMAIN r.task : u # t => q[u] = r.task[u]
    BY <1>2, TaskPut
  <2> QED BY <2>1
<1>5. Moved(s, t, "hook") = [r EXCEPT !.task = q]
  BY DEF Moved, Runtime, d
<1> HIDE DEF q
<1> DEFINE y == [r EXCEPT !.task = q]
<1>6. y \in Runtime /\ y.task = q
  BY <1>4 DEF Runtime
<1> HIDE DEF y
<1>7. [y EXCEPT !.task[t].reason = reason] = [y EXCEPT !.task = [q EXCEPT ![t] = e]]
  BY <1>4, <1>6 DEF Runtime, e
<1>8. [y EXCEPT !.task = [q EXCEPT ![t] = e]] = TaskSet(r, t, e)
  BY <1>4 DEF y, TaskSet, Runtime
<1> QED BY <1>3, <1>5, <1>7, <1>8 DEF y

LEMMA EndedIs ==
  ASSUME NEW s, rt[s] \in Runtime, NEW t \in DOMAIN rt[s].task, NEW how \in Ends
  PROVE  /\ EndedTask(s, t, how) \in Task /\ Over(EndedTask(s, t, how))
         /\ EndedTask(s, t, how).kind = rt[s].task[t].kind
         /\ EndedTask(s, t, how).id = rt[s].task[t].id
<1>1. rt[s].task[t] \in Task
  BY RuntimeTypes
<1> QED BY <1>1 DEF EndedTask, NewTask, Task, Pc, Reason, Over
\* A fault of a worker, and a use of a context, within their bounds.
LEMMA FaultTyped ==
  ASSUME IInv, Fault, UNCHANGED <<config, store, answer>>
  PROVE  RestTyped /\ config' = config
<1>1. config.faults \in 0..MaxFaults /\ MaxFaults \in Nat
  BY Numbers, TreesAssumption DEF Tree
<1>2. faults \in 0..config.faults /\ faults < config.faults /\ faults' = faults + 1
  BY DEF Fault, IInv, VarTypes
<1>3. faults' \in 0..config.faults
  BY <1>1, <1>2
<1> QED BY <1>3 DEF Fault, IInv, VarTypes, RestTyped

LEMMA UseTyped ==
  ASSUME IInv, Use, UNCHANGED <<config, answer>>, store' \in [DOMAIN config.nodes -> Contexts]
  PROVE  RestTyped /\ config' = config
<1>1. config.uses \in Nat
  BY Numbers DEF Tree
<1>2. uses \in 0..config.uses /\ uses < config.uses /\ uses' = uses + 1
  BY DEF Use, IInv, VarTypes
<1>3. uses' \in 0..config.uses
  BY <1>1, <1>2
<1> QED BY <1>3 DEF Use, IInv, VarTypes, RestTyped

\* A worker moves on without a report, and a linked start may learn of it.
LEMMA QuietWorkerStep ==
  ASSUME IInv, NEW s \in DOMAIN rt, NEW t \in DOMAIN rt[s].task,
         NEW e \in Task, Onward(rt[s].task[t], e),
         LET y == TaskSet(rt[s], t, e) IN
           \/ rt' = Put(s, y) \/ rt' = Put(s, Faulted(y))
           \/ \E a \in {"Ok", "Err", "Closed"} :
                rt' = Put(s, InitTold(s, t, y, a)) \/ rt' = Put(s, Faulted(InitTold(s, t, y, a))),
         config' = config, RestTyped
  PROVE  IInv'
<1> DEFINE r == rt[s]
           y == TaskSet(rt[s], t, e)
<1>1. r \in Runtime /\ Sound(config.nodes, r)
  BY At1
<1> DEFINE Alike(x) ==
             /\ x \in Runtime /\ SameWork(r.work, x.work)
             /\ x.up = r.up /\ x.slot = r.slot /\ x.node = r.node /\ x.status = r.status
             /\ x.children = r.children /\ x.timers = r.timers /\ x.queue = r.queue
             /\ x.task = [r.task EXCEPT ![t] = e]
<1>2. Alike(y)
  BY <1>1, TaskSetIs DEF SameWork
<1> HIDE DEF y
<1>3. ASSUME NEW x, Alike(x) PROVE Alike(Faulted(x))
  BY <1>3, FaultedIs
<1>4. ASSUME NEW a \in {"Ok", "Err", "Closed"} PROVE Alike(InitTold(s, t, y, a))
  <2> DEFINE x == InitTold(s, t, y, a)
  <2>1. /\ x \in Runtime /\ SameWork(y.work, x.work)
        /\ x.up = y.up /\ x.slot = y.slot /\ x.node = y.node /\ x.status = y.status
        /\ x.children = y.children /\ x.timers = y.timers /\ x.queue = y.queue
        /\ x.task = y.task
    BY <1>2, InitToldIs
  <2> HIDE DEF x
  <2>2. Alike(x)
    BY <1>2, <2>1 DEF SameWork
  <2> QED BY <2>2 DEF x
<1>5. PICK x : Alike(x) /\ rt' = Put(s, x)
  <2>1. CASE rt' = Put(s, y)
    BY <1>2, <2>1
  <2>2. CASE rt' = Put(s, Faulted(y))
    BY <1>2, <1>3, <2>2
  <2>3. CASE \E a \in {"Ok", "Err", "Closed"} :
               rt' = Put(s, InitTold(s, t, y, a)) \/ rt' = Put(s, Faulted(InitTold(s, t, y, a)))
    BY <1>3, <1>4, <2>3
  <2> QED BY <2>1, <2>2, <2>3 DEF y
<1> HIDE DEF r
<1>6. Sound(config.nodes, x) /\ Inward(r, x)
  BY <1>1, <1>5, WorkerSound DEF r
<1> QED BY <1>5, <1>6, StepInside DEF r

\* A worker ends and reports.
LEMMA ReportingWorkerStep ==
  ASSUME IInv, NEW s \in DOMAIN rt, NEW t \in DOMAIN rt[s].task,
         rt[s].task[t].kind = "Worker",
         NEW how \in Ends, NEW reason \in Reason,
         rt' = Put(s, Reported(s, t, how, reason)), config' = config, RestTyped
  PROVE  IInv'
<1> DEFINE r == rt[s]
           e == EndedTask(s, t, how)
           y == TaskSet(rt[s], t, e)
           m == [cmd |-> "ChildTerminated", id |-> rt[s].task[t].id, reason |-> reason, by |-> t]
           x == Delivered(y, m)
<1>1. r \in Runtime /\ Sound(config.nodes, r)
  BY At1
<1>2. e \in Task /\ Onward(r.task[t], e)
  BY <1>1, EndedIs DEF Onward
<1>3. m \in Command /\ m.cmd = "ChildTerminated" /\ m.by = t /\ m.id = r.task[t].id
  <2>1. r.task[t] \in Task /\ t \in Nat
    BY <1>1, RuntimeTypes
  <2> QED BY <2>1 DEF Task, Command
<1>4. rt' = Put(s, x)
  BY DEF Reported, TaskSet
<1> HIDE DEF e
<1>5. /\ y \in Runtime /\ y.work = r.work
      /\ y.up = r.up /\ y.slot = r.slot /\ y.node = r.node /\ y.status = r.status
      /\ y.children = r.children /\ y.timers = r.timers /\ y.queue = r.queue
      /\ y.task = [r.task EXCEPT ![t] = e]
  BY <1>1, <1>2, TaskSetIs
<1> HIDE DEF y, m
<1>6. /\ x \in Runtime
      /\ x.up = r.up /\ x.slot = r.slot /\ x.node = r.node /\ x.status = r.status
      /\ x.children = r.children /\ SameWork(r.work, x.work) /\ x.timers = r.timers
      /\ x.task = [r.task EXCEPT ![t] = e]
      /\ SetOf(r.queue) \subseteq SetOf(x.queue)
      /\ SetOf(x.queue) \subseteq SetOf(r.queue) \cup {m}
  <2>1. /\ x \in Runtime
        /\ x.up = y.up /\ x.slot = y.slot /\ x.node = y.node /\ x.status = y.status
        /\ x.children = y.children /\ x.work = y.work /\ x.task = y.task /\ x.timers = y.timers
        /\ SetOf(x.queue) = IF y.status = "running" THEN SetOf(y.queue) \cup {m} ELSE SetOf(y.queue)
    BY <1>3, <1>5, DeliveredIs
  <2> HIDE DEF x
  <2> QED BY <1>5, <2>1 DEF SameWork
<1> HIDE DEF x, r
<1>7. Sound(config.nodes, x) /\ Inward(r, x)
  BY <1>1, <1>2, <1>3, <1>6, WorkerSound DEF r
<1> QED BY <1>4, <1>6, <1>7, StepInside DEF r

\* What run_worker does, step by step.
LEMMA WorkerStep ==
  ASSUME IInv, NEW s \in DOMAIN rt, NEW t \in DOMAIN rt[s].task,
         \/ InitOk(s, t) \/ InitFails(s, t) \/ ReportInitFailure(s, t) \/ ShutdownSeen(s, t)
         \/ RunReturns(s, t) \/ HookReturns(s, t) \/ Cancelled(s, t) \/ Panic(s, t)
  PROVE  IInv'
<1>1. rt[s] \in Runtime /\ rt[s].task[t] \in Task
  BY At1, RuntimeTypes
<1>2. ASSUME NEW pc \in Pc \ Ends, At(s, t, pc)
      PROVE  rt[s].task[t].kind = "Worker" /\ rt[s].task[t].pc \notin Ends
  BY <1>2 DEF At
<1>3. {"init", "initerr", "run", "update", "hook"} \subseteq Pc \ Ends
  BY DEF Pc, Ends
<1>4. ASSUME NEW how \in Ends, rt[s].task[t].kind = "Worker", rt[s].task[t].pc \notin Ends
      PROVE  \E e \in Task : /\ [rt[s] EXCEPT !.task[t] = EndedTask(s, t, how)] = TaskSet(rt[s], t, e)
                             /\ Onward(rt[s].task[t], e)
  BY <1>1, <1>4, EndedIs DEF TaskSet, Onward
<1>5. CASE InitOk(s, t)
  <2>1. PICK e \in Task : Moved(s, t, "run") = TaskSet(rt[s], t, e) /\ Onward(rt[s].task[t], e)
    BY <1>1, <1>2, <1>3, <1>5, MovedIs DEF InitOk
  <2>2. rt' = Put(s, InitTold(s, t, TaskSet(rt[s], t, e), "Ok"))
    BY <1>5, <2>1 DEF InitOk
  <2>3. config' = config /\ RestTyped
    BY <1>5, RestStays DEF InitOk
  <2> QED BY <2>1, <2>2, <2>3, QuietWorkerStep
<1>6. CASE InitFails(s, t)
  <2>1. PICK e \in Task : Moved(s, t, "initerr") = TaskSet(rt[s], t, e) /\ Onward(rt[s].task[t], e)
    BY <1>1, <1>2, <1>3, <1>6, MovedIs DEF InitFails
  <2>2. rt' = Put(s, Faulted(InitTold(s, t, TaskSet(rt[s], t, e), "Err")))
    BY <1>6, <2>1 DEF InitFails
  <2>3. config' = config /\ RestTyped
    BY <1>6, FaultTyped DEF InitFails
  <2> QED BY <2>1, <2>2, <2>3, QuietWorkerStep
<1>7. CASE ReportInitFailure(s, t)
  <2>1. rt[s].task[t].kind = "Worker" /\ "failed" \in Ends /\ "Abnormal" \in Reason
    BY <1>7 DEF ReportInitFailure, At, Ends, Reason
  <2>2. config' = config /\ RestTyped
    BY <1>7, RestStays DEF ReportInitFailure
  <2> QED BY <1>7, <2>1, <2>2, ReportingWorkerStep DEF ReportInitFailure
<1>8. CASE ShutdownSeen(s, t)
  <2>0. "Shutdown" \in Reason
    BY DEF Reason
  <2>1. PICK e \in Task :
          /\ [Moved(s, t, "hook") EXCEPT !.task[t].reason = "Shutdown"] = TaskSet(rt[s], t, e)
          /\ Onward(rt[s].task[t], e)
    BY <1>1, <1>2, <1>3, <1>8, <2>0, HookIs DEF ShutdownSeen
  <2>2. rt' = Put(s, TaskSet(rt[s], t, e))
    BY <1>8, <2>1 DEF ShutdownSeen
  <2>3. config' = config /\ RestTyped
    BY <1>8, RestStays DEF ShutdownSeen
  <2> QED BY <2>1, <2>2, <2>3, QuietWorkerStep
<1>9. CASE RunReturns(s, t)
  <2>0. PICK reason \in {"Normal", "Abnormal"} :
          rt' = Put(s, Faulted([Moved(s, t, "hook") EXCEPT !.task[t].reason = reason]))
    BY <1>9 DEF RunReturns
  <2>1. reason \in Reason
    BY DEF Reason
  <2>2. PICK e \in Task :
          /\ [Moved(s, t, "hook") EXCEPT !.task[t].reason = reason] = TaskSet(rt[s], t, e)
          /\ Onward(rt[s].task[t], e)
    BY <1>1, <1>2, <1>3, <1>9, <2>1, HookIs DEF RunReturns
  <2>3. rt' = Put(s, Faulted(TaskSet(rt[s], t, e)))
    BY <2>0, <2>2
  <2>4. config' = config /\ RestTyped
    BY <1>9, FaultTyped DEF RunReturns
  <2> QED BY <2>2, <2>3, <2>4, QuietWorkerStep
<1>10. CASE HookReturns(s, t)
  <2>1. rt[s].task[t].kind = "Worker" /\ "done" \in Ends /\ rt[s].task[t].reason \in Reason
    BY <1>1, <1>10 DEF HookReturns, At, Ends, Task
  <2>2. config' = config /\ RestTyped
    BY <1>10, RestStays DEF HookReturns
  <2> QED BY <1>10, <2>1, <2>2, ReportingWorkerStep DEF HookReturns
<1>11. CASE Cancelled(s, t)
  <2>1. rt[s].task[t].kind = "Worker" /\ rt[s].task[t].pc \notin Ends /\ "cancelled" \in Ends
    BY <1>2, <1>3, <1>11 DEF Cancelled, Ends
  <2>2. PICK e \in Task : /\ [rt[s] EXCEPT !.task[t] = EndedTask(s, t, "cancelled")]
                               = TaskSet(rt[s], t, e)
                          /\ Onward(rt[s].task[t], e)
    BY <1>4, <2>1
  <2>3. rt' = Put(s, TaskSet(rt[s], t, e))
    BY <1>11, <2>2 DEF Cancelled
  <2>4. config' = config /\ RestTyped
    BY <1>11, RestStays DEF Cancelled
  <2> QED BY <2>2, <2>3, <2>4, QuietWorkerStep
<1>12. CASE Panic(s, t)
  <2>1. rt[s].task[t].kind = "Worker" /\ rt[s].task[t].pc \notin Ends /\ "panicked" \in Ends
    BY <1>2, <1>3, <1>12 DEF Panic, Ends
  <2>2. PICK e \in Task : /\ [rt[s] EXCEPT !.task[t] = EndedTask(s, t, "panicked")]
                               = TaskSet(rt[s], t, e)
                          /\ Onward(rt[s].task[t], e)
    BY <1>4, <2>1
  <2>3. rt' = Put(s, Faulted(InitTold(s, t, TaskSet(rt[s], t, e), "Closed")))
    BY <1>12, <2>2 DEF Panic
  <2>4. config' = config /\ RestTyped
    BY <1>12, FaultTyped DEF Panic
  <2> QED BY <2>2, <2>3, <2>4, QuietWorkerStep
<1> QED BY <1>5, <1>6, <1>7, <1>8, <1>9, <1>10, <1>11, <1>12
\* No runtime moves.
LEMMA TreeUntouched ==
  ASSUME IInv, RestTyped, config' = config, rt' = rt
  PROVE  IInv'
<1>1. VarTypes'
  BY DEF IInv, VarTypes, RestTyped
<1>2. AllSound'
  BY DEF IInv, AllSound
<1>3. TreeShape'
  BY DEF IInv, TreeOk, TreeShape, SpecOf
<1>4. OneEach'
  BY DEF IInv, TreeOk, OneEach, SlotOf
<1>5. InOrder'
  BY DEF IInv, TreeOk, InOrder
<1>6. Obeys'
  BY DEF IInv, TreeOk, Obeys, SlotOf
<1> QED BY <1>1, <1>2, <1>3, <1>4, <1>5, <1>6 DEF IInv, TreeOk

\* A worker uses the context of its specification.
LEMMA ContextStep ==
  ASSUME IInv, AllExact, NEW s \in DOMAIN rt, NEW t \in DOMAIN rt[s].task,
         UpdateBegins(s, t) \/ UpdateEnds(s, t) \/ SetOrDelete(s, t)
  PROVE  IInv'
<1> DEFINE n == rt[s].node
<1>1. /\ rt[s] \in Runtime /\ n \in DOMAIN config.nodes
      /\ s \in Nat /\ t \in Nat
  BY At1, Numbers, RuntimeTypes DEF Sound
<1>2. store \in [DOMAIN config.nodes -> Contexts] /\ Ctx(s) \in Contexts
  BY <1>1 DEF IInv, VarTypes, Ctx
<1>3. Ctx(s).value \in Int /\ Ctx(s).expected \in Int /\ Ctx(s).holder \in Seq(Int)
  BY <1>2 DEF Contexts
<1>4. Ctx(s).holder # <<>> => Ctx(s).holder[3] \in Int
  <2>1. Exact(Ctx(s))
    BY <1>1, <1>2 DEF AllExact, Ctx
  <2> QED BY <1>3, <2>1 DEF Exact
<1>5. \A e \in Contexts : StoreWith(s, e) \in [DOMAIN config.nodes -> Contexts]
  BY <1>1, <1>2 DEF StoreWith
<1>6. \A v \in Int : Increment(v) \in Int
  BY DEF Increment
<1>7. {"run", "update"} \subseteq Pc \ Ends
  BY DEF Pc, Ends
<1>8. CASE UpdateBegins(s, t)
  <2> DEFINE h == <<s, t, Ctx(s).value>>
             e == [Ctx(s) EXCEPT !.holder = h]
  <2>1. h \in Seq(Int)
    BY <1>1, <1>3
  <2>2. e \in Contexts
    <3> HIDE DEF h
    <3> QED BY <1>2, <2>1 DEF Contexts
  <2>3. store' = StoreWith(s, e)
    BY <1>8 DEF UpdateBegins
  <2>4. store' \in [DOMAIN config.nodes -> Contexts]
    BY <1>5, <2>2, <2>3
  <2>5. RestTyped /\ config' = config
    BY <1>8, <2>4, UseTyped DEF UpdateBegins
  <2>6. rt[s].task[t].kind = "Worker" /\ rt[s].task[t].pc \notin Ends
    BY <1>7, <1>8 DEF UpdateBegins, At, Ends
  <2>7. PICK d \in Task : Moved(s, t, "update") = TaskSet(rt[s], t, d) /\ Onward(rt[s].task[t], d)
    BY <1>1, <1>7, <2>6, MovedIs
  <2>8. rt' = Put(s, TaskSet(rt[s], t, d))
    BY <1>8, <2>7 DEF UpdateBegins
  <2> QED BY <2>5, <2>7, <2>8, QuietWorkerStep
<1>9. CASE UpdateEnds(s, t)
  <2> DEFINE e == [value |-> Increment(Ctx(s).holder[3]),
                   expected |-> Increment(Ctx(s).expected), holder |-> <<>>]
             d == [value |-> -1, expected |-> -1, holder |-> <<>>]
  <2>1. Increment(Ctx(s).holder[3]) \in Int /\ Increment(Ctx(s).expected) \in Int
    BY <1>3, <1>4, <1>6, <1>9 DEF UpdateEnds
  <2>2. e \in Contexts /\ d \in Contexts
    BY <2>1 DEF Contexts
  <2>3. store' = StoreWith(s, e) \/ store' = StoreWith(s, d)
    BY <1>9 DEF UpdateEnds
  <2> HIDE DEF e, d
  <2>4. store' \in [DOMAIN config.nodes -> Contexts]
    BY <1>5, <2>2, <2>3
  <2>5. RestTyped /\ config' = config
    BY <1>9, <2>4 DEF UpdateEnds, bounds, RestTyped, IInv, VarTypes
  <2>6. rt[s].task[t].kind = "Worker" /\ rt[s].task[t].pc \notin Ends
    BY <1>7, <1>9 DEF UpdateEnds, At, Ends
  <2>7. PICK b \in Task : Moved(s, t, "run") = TaskSet(rt[s], t, b) /\ Onward(rt[s].task[t], b)
    BY <1>1, <1>7, <2>6, MovedIs
  <2>8. rt' = Put(s, TaskSet(rt[s], t, b))
    BY <1>9, <2>7 DEF UpdateEnds
  <2> QED BY <2>5, <2>7, <2>8, QuietWorkerStep
<1>10. CASE SetOrDelete(s, t)
  <2>1. PICK v \in {-1, 0} :
          store' = StoreWith(s, [Ctx(s) EXCEPT !.value = v, !.expected = v])
    BY <1>10 DEF SetOrDelete
  <2>2. [Ctx(s) EXCEPT !.value = v, !.expected = v] \in Contexts
    <3> DEFINE f == [Ctx(s) EXCEPT !.value = v]
               g == [f EXCEPT !.expected = v]
    <3>1. v \in Int
      OBVIOUS
    <3>2. f \in Contexts
      BY <1>2, <3>1 DEF Contexts
    <3>3. [Ctx(s) EXCEPT !.value = v, !.expected = v] = g
      OBVIOUS
    <3> HIDE DEF f
    <3>4. g \in Contexts
      BY <3>1, <3>2 DEF Contexts
    <3> QED BY <3>3, <3>4
  <2>3. store' \in [DOMAIN config.nodes -> Contexts]
    BY <1>5, <2>1, <2>2
  <2>4. RestTyped /\ config' = config /\ rt' = rt
    BY <1>10, <2>3, UseTyped DEF SetOrDelete
  <2> QED BY <2>4, TreeUntouched
<1> QED BY <1>8, <1>9, <1>10
(***************************************************************************)
(* Steps that change the work in hand, or the children listed.             *)
(***************************************************************************)

LEMMA ReworkedSound ==
  ASSUME NEW nodes, NEW r \in Runtime, NEW x \in Runtime, Sound(nodes, r),
         x.node = r.node, x.status = r.status,
         DOMAIN x.task = DOMAIN r.task, Forward(r.task, x.task), SameNested(r.task, x.task),
         SetOf(x.queue) \subseteq SetOf(r.queue), x.timers = r.timers,
         Distinct(x), Shaped(x), Halted(x), HeldBy(x) \subseteq HeldBy(r),
         \A c \in HeldBy(r) : c \in HeldBy(x) \/ ~Loose(x.task[c.task]),
         \A c \in Stays(x) : c.kind = "Supervisor" =>
           c \in Stays(r) /\ (Excused(r, c) => Excused(x, c)),
         \A m \in SetOf(r.queue) : m.cmd \in About =>
           \/ m \in SetOf(x.queue)
           \/ \A c \in Stays(x) : c.kind = "Supervisor" /\ c.task = m.by => Excused(x, c)
  PROVE  Sound(nodes, x)
<1>1. /\ Placed(nodes, r) /\ Controlled(r) /\ Followed(r)
      /\ Unsignalled(r) /\ Addressed(r) /\ Unasked(r) /\ Awaited(r) /\ r.node \in DOMAIN nodes
  BY DEF Sound
<1>2. Placed(nodes, x) /\ Controlled(x) /\ Followed(x)
  BY <1>1, TasksKept
<1>3. \A c \in Stays(x) : c.kind = "Supervisor" =>
        /\ c \in Stays(r) /\ c.task \in DOMAIN r.task /\ x.task[c.task] = r.task[c.task]
        /\ (Excused(r, c) => Excused(x, c))
  <2>1. \A c \in Stays(r) : c.task \in DOMAIN r.task /\ r.task[c.task].kind = c.kind
    BY <1>1 DEF Placed, HeldBy
  <2> QED BY <2>1 DEF SameNested
<1>4. \A m \in r.timers : m.cmd = "RestartChild"
  BY RuntimeTypes
<1>5. \A m \in SetOf(r.queue) \cup r.timers : m.cmd \in About =>
         \/ \E n \in SetOf(x.queue) : n.cmd \in About /\ n.by = m.by
         \/ \E n \in x.timers : n.by = m.by
         \/ \A c \in Stays(x) : c.kind = "Supervisor" /\ c.task = m.by => Excused(x, c)
  OBVIOUS
<1>6. Unsignalled(x) /\ Addressed(x) /\ Unasked(x) /\ Awaited(x)
  BY <1>1, <1>3, <1>4, <1>5, LettersKept
<1> QED BY <1>1, <1>2, <1>6 DEF Sound

\* Work begins.
LEMMA BeginIs ==
  ASSUME NEW op \in {"link", "terminate", "one", "all", "respawn", "from", "shutdown", "escalate"},
         NEW q \in Seq(Child)
  PROVE  /\ Begin(op, q) \in Work
         /\ Begin(op, q).op = op /\ Begin(op, q).stage = "next" /\ Begin(op, q).todo = q
         /\ Begin(op, q).back = <<>>
<1>1. Idle \in Work
  BY DEF Idle, Work
<1>2. <<>> \in Seq(Child)
  OBVIOUS
<1> QED BY <1>1, <1>2 DEF Begin, Idle, Work

LEMMA IdleIs ==
  Idle \in Work /\ Idle.op = "idle" /\ Idle.stage = "next" /\ Idle.todo = <<>> /\ Idle.back = <<>>
BY DEF Idle, Work

\* Nothing and one: what they hold, and that it is distinct.
LEMMA Few ==
  /\ SetOf(<<>>) = {} /\ DistinctIds(<<>>)
  /\ \A q : Apart(<<>>, q) /\ Apart(q, <<>>)
  /\ \A c : /\ SetOf(<<c>>) = {c} /\ DistinctIds(<<c>>)
            /\ <<c>>[1] = c /\ Head(<<c>>) = c /\ Len(<<c>>) = 1 /\ <<c>> # <<>>
<1>1. SetOf(<<>>) = {} /\ DistinctIds(<<>>) /\ \A c : SetOf(<<c>>) = {c} /\ DistinctIds(<<c>>)
  BY SetOfSmall, DistinctSmall
<1>2. \A q : Apart(<<>>, q) /\ Apart(q, <<>>)
  BY <1>1 DEF Apart
<1>3. \A c : <<c>>[1] = c /\ Head(<<c>>) = c /\ Len(<<c>>) = 1 /\ <<c>> # <<>>
  OBVIOUS
<1> QED BY <1>1, <1>2, <1>3

\* Between handlers: the lists of a runtime.
LEMMA IdleLists ==
  ASSUME NEW nodes, NEW r \in Runtime, Sound(nodes, r), r.work.op = "idle"
  PROVE  /\ r.children \in Seq(Child) /\ DistinctIds(r.children)
         /\ HeldBy(r) = SetOf(r.children) /\ Stays(r) = SetOf(r.children)
         /\ \A c : ~Excused(r, c)
         /\ \A i \in DOMAIN r.children : r.children[i] \in SetOf(r.children)
BY RuntimeTypes, IdleHolds, SetOfIn DEF Sound, Distinct

\* All children are taken in hand, to be stopped for good.
LEMMA ClosingStep ==
  ASSUME IInv, NEW s \in DOMAIN rt, rt[s].status = "running", rt[s].work.op = "idle",
         rt[s].queue # <<>>,
         NEW op \in {"shutdown", "escalate"}, NEW n \in Nat,
         op = "escalate" => First(s).cmd # "Shutdown",
         op = "shutdown" => First(s).cmd = "Shutdown",
         rt' = Put(s, [Taken(s) EXCEPT !.recent = n, !.children = <<>>,
                         !.work = Begin(op, rt[s].children)]),
         config' = config, RestTyped
  PROVE  IInv'
<1> DEFINE r == rt[s]
           x == [Taken(s) EXCEPT !.recent = n, !.children = <<>>,
                         !.work = Begin(op, rt[s].children)]
           q == Tail(r.queue)
           w == Begin(op, r.children)
<1>1. r \in Runtime /\ Sound(config.nodes, r)
  BY At1
<1>2. /\ q \in Seq(Command) /\ SetOf(r.queue) = {First(s)} \cup SetOf(q)
  BY <1>1, Queued DEF First
<1>3. /\ r.children \in Seq(Child) /\ DistinctIds(r.children)
      /\ HeldBy(r) = SetOf(r.children) /\ Stays(r) = SetOf(r.children)
  BY <1>1, IdleLists
<1>4. w \in Work /\ w.op = op /\ w.stage = "next" /\ w.todo = r.children /\ w.back = <<>>
  BY <1>3, BeginIs
<1> HIDE DEF w, q
<1>5. /\ x \in Runtime /\ x.queue = q /\ x.children = <<>> /\ x.work = w
      /\ x.up = r.up /\ x.slot = r.slot /\ x.node = r.node /\ x.status = r.status
      /\ x.task = r.task /\ x.timers = r.timers
  <2>1. x = [r EXCEPT !.queue = q, !.recent = n, !.children = <<>>, !.work = w]
    BY DEF Taken, q, w
  <2>2. <<>> \in Seq(Child)
    OBVIOUS
  <2> HIDE DEF x
  <2> QED BY <1>1, <1>2, <1>4, <2>1, <2>2 DEF Runtime
<1> HIDE DEF x, r
<1>6. HeldBy(x) = SetOf(r.children) /\ Stays(x) = {}
  BY <1>4, <1>5, Few DEF HeldBy, Stays
<1>7. Distinct(x)
  BY <1>3, <1>4, <1>5, Few DEF Distinct
<1>8. Shaped(x) /\ Halted(x)
  BY <1>4, <1>5 DEF Shaped, Halted, r
<1>9. Forward(r.task, x.task) /\ SameNested(r.task, x.task)
  BY <1>5, ForwardSame
<1>10. Sound(config.nodes, x)
  BY <1>1, <1>2, <1>3, <1>5, <1>6, <1>7, <1>8, <1>9, ReworkedSound
<1>11. Inward(r, x)
  <2>1. Told(x)
    BY <1>4, <1>5 DEF Told
  <2>2. HasShutdown(x) => HasShutdown(r)
    BY <1>2, <1>5 DEF HasShutdown
  <2>3. op = "shutdown" => HasShutdown(r)
    BY <1>2 DEF HasShutdown
  <2> QED BY <1>4, <1>5, <1>9, <2>1, <2>2, <2>3 DEF Inward, Asked
<1> QED BY <1>5, <1>10, <1>11, StepInside DEF x, r
\* The window of restarts.
LEMMA RecordedIs ==
  ASSUME NEW s, rt[s] \in Runtime, NEW n \in Recorded(s)
  PROVE  n \in Nat
BY RuntimeTypes DEF Recorded

LEMMA EscalateStep ==
  ASSUME IInv, NEW s \in DOMAIN rt, Escalate(s)
  PROVE  IInv'
<1>1. PICK i \in DOMAIN rt[s].children, n \in Recorded(s) :
        /\ Concerns(s, i, TRUE)
        /\ rt' = Put(s, [Taken(s) EXCEPT !.recent = n, !.children = <<>>,
                           !.work = Begin("escalate", rt[s].children)])
  BY Zenon DEF Escalate
<1>2. /\ rt[s].status = "running" /\ rt[s].work.op = "idle" /\ rt[s].queue # <<>>
      /\ First(s).cmd # "Shutdown"
  BY <1>1, ReceivesSome DEF Concerns
<1>3. n \in Nat
  BY <1>1, At1, RecordedIs
<1>4. RestTyped /\ config' = config
  BY RestStays DEF Escalate
<1> QED BY <1>1, <1>2, <1>3, <1>4, ClosingStep, Zenon

LEMMA ShutdownStep ==
  ASSUME IInv, NEW s \in DOMAIN rt, HandleShutdown(s)
  PROVE  IInv'
<1>1. /\ rt[s].status = "running" /\ rt[s].work.op = "idle" /\ rt[s].queue # <<>>
      /\ First(s).cmd = "Shutdown"
  BY ReceivesSome DEF HandleShutdown
<1>2. RestTyped /\ config' = config
  BY RestStays DEF HandleShutdown
<1>3. Taken(s) \in Runtime /\ Taken(s).recent = rt[s].recent /\ rt[s].recent \in Nat
  <2>1. rt[s] \in Runtime
    BY At1
  <2>2. Tail(rt[s].queue) \in Seq(Command)
    BY <1>1, <2>1, Queued
  <2> QED BY <2>1, <2>2 DEF Taken, Runtime
<1> DEFINE w == Begin("shutdown", rt[s].children)
           y == Taken(s)
<1>4. [y EXCEPT !.children = <<>>, !.work = w]
        = [y EXCEPT !.recent = rt[s].recent, !.children = <<>>, !.work = w]
  <2>1. y = [y EXCEPT !.recent = rt[s].recent]
    BY <1>3 DEF Runtime
  <2> QED BY <2>1
<1>5. rt' = Put(s, [y EXCEPT !.recent = rt[s].recent, !.children = <<>>, !.work = w])
  BY <1>4 DEF HandleShutdown
<1> QED BY <1>1, <1>2, <1>3, <1>5, ClosingStep, Zenon

\* The child a letter concerns.
LEMMA Located ==
  ASSUME IInv, NEW s \in DOMAIN rt, rt[s].work.op = "idle", rt[s].queue # <<>>,
         First(s).cmd \in About, NEW i \in DOMAIN rt[s].children, Position(s, First(s).id, i)
  PROVE  /\ rt[s].children[i] \in Child /\ rt[s].children[i].id = First(s).id
         /\ rt[s].children[i] \in HeldBy(rt[s])
         /\ \A c \in SetOf(rt[s].children) :
              c.kind = "Supervisor" /\ c.task = First(s).by => c = rt[s].children[i]
         /\ First(s).by \in DOMAIN rt[s].task /\ First(s).id = rt[s].task[First(s).by].id
<1>1. rt[s] \in Runtime /\ Sound(config.nodes, rt[s])
  BY At1
<1>2. /\ rt[s].children \in Seq(Child) /\ DistinctIds(rt[s].children)
      /\ HeldBy(rt[s]) = SetOf(rt[s].children) /\ Stays(rt[s]) = SetOf(rt[s].children)
  BY <1>1, IdleLists
<1>3. rt[s].children[i] \in Child /\ rt[s].children[i] \in SetOf(rt[s].children)
  BY <1>2, SetOfIn
<1>4. rt[s].children[i].id = First(s).id
  BY DEF Position
<1>5. First(s) \in SetOf(rt[s].queue)
  BY FirstIsQueued
<1>6. ASSUME NEW c \in SetOf(rt[s].children), c.task = First(s).by
      PROVE  c = rt[s].children[i]
  <2>1. c.id = First(s).id
    BY <1>2, <1>5, <1>6, LetterFinds
  <2>2. PICK j \in DOMAIN rt[s].children : c = rt[s].children[j]
    BY <1>2, SetOfIn
  <2> QED BY <1>2, <1>4, <2>1, <2>2 DEF DistinctIds
<1>7. First(s).by \in DOMAIN rt[s].task /\ First(s).id = rt[s].task[First(s).by].id
  BY <1>1, <1>5 DEF Sound, Addressed
<1> QED BY <1>2, <1>3, <1>4, <1>6, <1>7

\* A round of restarts begins, in a runtime that has read a letter and done its
\* accounts (y).
LEMMA RoundSound ==
  ASSUME IInv, NEW s \in DOMAIN rt, rt[s].work.op = "idle", rt[s].status = "running",
         rt[s].queue # <<>>, First(s).cmd \in About,
         NEW i \in DOMAIN rt[s].children, Position(s, First(s).id, i),
         NEW y \in Runtime, y.queue = Tail(rt[s].queue), y.children = rt[s].children,
         y.up = rt[s].up, y.slot = rt[s].slot, y.node = rt[s].node, y.status = rt[s].status,
         y.task = rt[s].task, y.timers = rt[s].timers,
         rt' = Put(s, RoundBegun(s, y, i)), config' = config, RestTyped
  PROVE  IInv'
<1> DEFINE r == rt[s]
           x == RoundBegun(s, y, i)
           cs == r.children
           front == SubSeq(cs, 1, i - 1)
           rear == SubSeq(cs, i, Len(cs))
           n == y.rounds + 1
           one == <<cs[i]>>
           w1 == Begin("one", one)
           w2 == Begin("all", cs)
           w3 == Begin("from", rear)
<1>1. r \in Runtime /\ Sound(config.nodes, r)
  BY At1
<1>2. /\ Tail(r.queue) \in Seq(Command) /\ SetOf(r.queue) = {First(s)} \cup SetOf(Tail(r.queue))
  BY <1>1, Queued DEF First
<1>3. /\ cs \in Seq(Child) /\ DistinctIds(cs)
      /\ HeldBy(r) = SetOf(cs) /\ Stays(r) = SetOf(cs) /\ \A c : ~Excused(r, c)
  BY <1>1, IdleLists
<1>4. /\ cs[i] \in Child /\ cs[i].id = First(s).id /\ cs[i] \in SetOf(cs)
      /\ \A c \in SetOf(cs) : c.kind = "Supervisor" /\ c.task = First(s).by => c = cs[i]
  BY <1>3, Located
<1>5. /\ SetOf(cs) = SetOf(front) \cup SetOf(rear)
      /\ DistinctIds(front) /\ DistinctIds(rear) /\ Apart(front, rear)
      /\ front \in Seq(Child) /\ rear \in Seq(Child) /\ cs[i] \in SetOf(rear)
  <2>1. /\ SetOf(cs) = SetOf(front) \cup SetOf(rear)
        /\ DistinctIds(front) /\ DistinctIds(rear) /\ Apart(front, rear)
    BY <1>3, SetOfSplit, DistinctSplit
  <2>2. front \in Seq(Child) /\ rear = <<cs[i]>> \o SubSeq(cs, i + 1, Len(cs))
        /\ SubSeq(cs, i + 1, Len(cs)) \in Seq(Child)
    BY <1>3, SplitAt
  <2>3. <<cs[i]>> \in Seq(Child) /\ SetOf(<<cs[i]>>) = {cs[i]}
    BY <1>4, Few
  <2> DEFINE q == SubSeq(cs, i + 1, Len(cs))
             m == <<cs[i]>>
  <2>4. m \in Seq(Child) /\ q \in Seq(Child) /\ rear = m \o q /\ SetOf(m) = {cs[i]}
    BY <2>2, <2>3
  <2> HIDE DEF front, rear, m, q
  <2>5. m \o q \in Seq(Child)
    BY <2>4, ConcatProperties
  <2>6. SetOf(m \o q) = SetOf(m) \cup SetOf(q)
    BY <2>4, SetOfConcat
  <2> QED BY <2>1, <2>2, <2>4, <2>5, <2>6
<1>6. one \in Seq(Child) /\ SetOf(one) = {cs[i]} /\ DistinctIds(one) /\ Len(one) = 1
      /\ Head(one) = cs[i] /\ one # <<>>
  BY <1>4, Few
<1> HIDE DEF one
<1>7. /\ w1 \in Work /\ w1.op = "one" /\ w1.stage = "next" /\ w1.todo = one /\ w1.back = <<>>
      /\ w2 \in Work /\ w2.op = "all" /\ w2.stage = "next" /\ w2.todo = cs /\ w2.back = <<>>
      /\ w3 \in Work /\ w3.op = "from" /\ w3.stage = "next" /\ w3.todo = rear /\ w3.back = <<>>
  <2> HIDE DEF cs, rear
  <2>1. w1 \in Work /\ w1.op = "one" /\ w1.stage = "next" /\ w1.todo = one /\ w1.back = <<>>
    BY <1>6, BeginIs
  <2>2. w2 \in Work /\ w2.op = "all" /\ w2.stage = "next" /\ w2.todo = cs /\ w2.back = <<>>
    BY <1>3, BeginIs
  <2>3. w3 \in Work /\ w3.op = "from" /\ w3.stage = "next" /\ w3.todo = rear /\ w3.back = <<>>
    BY <1>5, BeginIs
  <2> QED BY <2>1, <2>2, <2>3
<1>8. n \in Nat
  BY RuntimeTypes
<1>9. \/ x = [y EXCEPT !.rounds = n, !.work = w1]
      \/ x = [y EXCEPT !.rounds = n, !.work = w2]
      \/ x = [y EXCEPT !.rounds = n, !.work = w3, !.children = front]
  BY DEF RoundBegun, one
<1> HIDE DEF x, w1, w2, w3, front, rear, n, cs
<1> DEFINE Base == /\ x \in Runtime /\ x.queue = Tail(r.queue)
                   /\ x.up = r.up /\ x.slot = r.slot /\ x.node = r.node /\ x.status = r.status
                   /\ x.task = r.task /\ x.timers = r.timers
<1>10. /\ Base
       /\ \/ x.work = w1 /\ x.children = cs
          \/ x.work = w2 /\ x.children = cs
          \/ x.work = w3 /\ x.children = front
  <2>1. CASE x = [y EXCEPT !.rounds = n, !.work = w1]
    BY <1>7, <1>8, <2>1 DEF Runtime, cs
  <2>2. CASE x = [y EXCEPT !.rounds = n, !.work = w2]
    BY <1>7, <1>8, <2>2 DEF Runtime, cs
  <2>3. CASE x = [y EXCEPT !.rounds = n, !.work = w3, !.children = front]
    BY <1>5, <1>7, <1>8, <2>3 DEF Runtime
  <2> QED BY <1>9, <2>1, <2>2, <2>3
<1> HIDE DEF r
<1>11. Forward(r.task, x.task) /\ SameNested(r.task, x.task)
  BY <1>10, ForwardSame
<1>12. x.work.op \in {"one", "all", "from"}
  BY <1>7, <1>10
<1>13. Shaped(x)
  BY <1>6, <1>7, <1>10 DEF Shaped, r
<1>14. /\ Distinct(x) /\ Halted(x) /\ HeldBy(x) = SetOf(cs) /\ Stays(x) \subseteq SetOf(cs)
       /\ \A c \in Stays(x) : c.kind = "Supervisor" /\ c.task = First(s).by => Excused(x, c)
  <2>1. CASE x.work = w1 /\ x.children = cs
    <3>1. Distinct(x)
      BY <1>3, <1>4, <1>6, <1>7, <2>1, Few DEF Distinct
    <3>2. HeldBy(x) = SetOf(cs) /\ Stays(x) = SetOf(cs)
      BY <1>4, <1>6, <1>7, <2>1, Few DEF HeldBy, Stays
    <3>3. Halted(x)
      BY <1>7, <2>1 DEF Halted
    <3>4. Excused(x, cs[i])
      BY <1>6, <1>7, <2>1 DEF Excused
    <3> QED BY <1>4, <3>1, <3>2, <3>3, <3>4
  <2>2. CASE x.work = w2 /\ x.children = cs
    <3>1. Distinct(x)
      BY <1>3, <1>7, <2>2, Few DEF Distinct
    <3>2. HeldBy(x) = SetOf(cs) /\ Stays(x) = SetOf(cs)
      BY <1>7, <2>2, Few DEF HeldBy, Stays
    <3>3. Halted(x)
      BY <1>7, <2>2 DEF Halted
    <3>4. \A c : Excused(x, c)
      BY <1>7, <2>2 DEF Excused
    <3> QED BY <3>1, <3>2, <3>3, <3>4
  <2>3. CASE x.work = w3 /\ x.children = front
    <3>1. Distinct(x)
      BY <1>5, <1>7, <2>3, Few DEF Distinct
    <3>2. HeldBy(x) = SetOf(cs) /\ Stays(x) = SetOf(front)
      BY <1>5, <1>7, <2>3, Few DEF HeldBy, Stays
    <3>3. Halted(x)
      BY <1>7, <2>3 DEF Halted
    <3>4. cs[i] \notin SetOf(front)
      BY <1>5 DEF Apart
    <3> QED BY <1>4, <1>5, <3>1, <3>2, <3>3, <3>4
  <2> QED BY <1>10, <2>1, <2>2, <2>3
<1>15. Sound(config.nodes, x)
  <2>1. \A m \in SetOf(r.queue) : m.cmd \in About =>
           \/ m \in SetOf(x.queue)
           \/ \A c \in Stays(x) : c.kind = "Supervisor" /\ c.task = m.by => Excused(x, c)
    BY <1>2, <1>10, <1>14
  <2> QED BY <1>1, <1>2, <1>3, <1>10, <1>11, <1>13, <1>14, <2>1, ReworkedSound
<1>16. Inward(r, x)
  <2>1. HasShutdown(r) <=> HasShutdown(x)
    BY <1>2, <1>10 DEF HasShutdown, About
  <2>2. r.work.op = "idle"
    BY DEF r
  <2> QED BY <1>10, <1>11, <1>12, <2>1, <2>2 DEF Inward, Told, Asked
<1> QED BY <1>10, <1>15, <1>16, StepInside DEF x, r
\* A restart, at once or after its delay.
LEMMA RestartStep ==
  ASSUME IInv, NEW s \in DOMAIN rt, Restart(s)
  PROVE  IInv'
<1> DEFINE r == rt[s]
           q == Tail(r.queue)
<1>1. PICK i \in DOMAIN r.children, n \in Recorded(s) :
        /\ Concerns(s, i, TRUE)
        /\ LET id == r.children[i].id
               z  == [Taken(s) EXCEPT !.recent = n, !.tracked = @ \cup {id}]
           IN rt' = Put(s, IF SpecOf(s).delayed
                           THEN [z EXCEPT !.timers = @ \cup
                                   {[cmd |-> "RestartChild", id |-> id, by |-> First(s).by]}]
                           ELSE RoundBegun(s, z, i))
  BY Zenon DEF Restart
<1> DEFINE c == r.children[i]
           m == [cmd |-> "RestartChild", id |-> c.id, by |-> First(s).by]
           k == r.tracked \cup {c.id}
           y == [r EXCEPT !.queue = q, !.recent = n, !.tracked = k]
           d == r.timers \cup {m}
           x == [y EXCEPT !.timers = d]
<1>2. r \in Runtime /\ Sound(config.nodes, r)
  BY At1
<1>3. /\ r.status = "running" /\ r.work.op = "idle" /\ r.queue # <<>>
      /\ First(s).cmd = "ChildTerminated" /\ Position(s, First(s).id, i)
  BY <1>1, ReceivesSome DEF Concerns
<1>4. /\ c \in Child /\ c.id = First(s).id
      /\ First(s).by \in DOMAIN r.task /\ First(s).id = r.task[First(s).by].id
  <2>1. First(s).cmd \in About
    BY <1>3 DEF About
  <2> QED BY <1>3, <2>1, Located
<1>5. n \in Nat /\ k \in SUBSET Id
  BY <1>2, <1>4, RecordedIs DEF Child, Runtime
<1>6. q \in Seq(Command) /\ SetOf(r.queue) = {First(s)} \cup SetOf(q)
  BY <1>2, <1>3, Queued DEF First
<1>7. config' = config /\ RestTyped
  BY RestStays DEF Restart
<1>8. rt' = Put(s, IF SpecOf(s).delayed THEN x ELSE RoundBegun(s, y, i))
  BY <1>1 DEF Taken
<1>9. d \in SUBSET [cmd : {"RestartChild"}, id : Id, by : Nat]
  <2>1. First(s).by \in Nat
    BY <1>2, <1>4, RuntimeTypes
  <2>2. m \in [cmd : {"RestartChild"}, id : Id, by : Nat]
    BY <1>4, <2>1 DEF Child
  <2> QED BY <1>2, <2>2, RuntimeTypes
<1> HIDE DEF k, d
<1>10. /\ y \in Runtime /\ y.queue = q /\ y.children = r.children
       /\ y.up = r.up /\ y.slot = r.slot /\ y.node = r.node /\ y.status = r.status
       /\ y.task = r.task /\ y.timers = r.timers /\ y.work = r.work
  BY <1>2, <1>5, <1>6 DEF Runtime
<1> HIDE DEF y
<1>11. CASE ~SpecOf(s).delayed
  <2>1. rt' = Put(s, RoundBegun(s, y, i))
    BY <1>8, <1>11
  <2>2. First(s).cmd \in About
    BY <1>3 DEF About
  <2> QED BY <1>3, <1>7, <1>10, <2>1, <2>2, RoundSound
<1>12. CASE SpecOf(s).delayed
  <2>1. /\ x \in Runtime /\ x.queue = q /\ x.children = r.children
        /\ x.up = r.up /\ x.slot = r.slot /\ x.node = r.node /\ x.status = r.status
        /\ x.task = r.task /\ x.timers = d /\ x.work = r.work
    BY <1>9, <1>10 DEF Runtime
  <2>2. rt' = Put(s, x)
    BY <1>8, <1>12
  <2> HIDE DEF x, r, c, q
  <2>3. Forward(r.task, x.task) /\ SameNested(r.task, x.task) /\ SameWork(r.work, x.work)
    BY <2>1, ForwardSame DEF SameWork
  <2>4. m.by \in DOMAIN r.task /\ m.id = r.task[m.by].id /\ m.by = First(s).by
    BY <1>4
  <2>5. \A l \in SetOf(r.queue) \cup r.timers : l.cmd \in About =>
           \/ \E e \in SetOf(x.queue) : e.cmd \in About /\ e.by = l.by
           \/ \E e \in x.timers : e.by = l.by
    BY <1>6, <2>1, <2>4 DEF d
  <2>6. \A l \in x.timers : l \in r.timers
           \/ (l.by \in DOMAIN r.task /\ l.id = r.task[l.by].id)
    BY <2>1, <2>4 DEF d
  <2>7. Sound(config.nodes, x)
    BY <1>2, <1>6, <2>1, <2>3, <2>5, <2>6, MovesSound
  <2>8. HasShutdown(r) <=> HasShutdown(x)
    BY <1>3, <1>6, <2>1 DEF HasShutdown
  <2>9. Inward(r, x)
    BY <1>2, <2>1, <2>3, <2>8, MovesInward
  <2> QED BY <1>7, <2>1, <2>2, <2>7, <2>9, StepInside DEF r
<1> QED BY <1>11, <1>12

\* The delayed restart comes due.
LEMMA RestartChildStep ==
  ASSUME IInv, NEW s \in DOMAIN rt, HandleRestartChild(s)
  PROVE  IInv'
<1>1. CASE ~Listed(s, First(s).id) /\ rt' = Put(s, Taken(s))
  BY <1>1, IgnoringStep DEF HandleRestartChild
<1>2. ASSUME NEW i \in DOMAIN rt[s].children, Position(s, First(s).id, i),
             rt' = Put(s, RoundBegun(s, Taken(s), i))
      PROVE  IInv'
  <2> DEFINE r == rt[s]
             q == Tail(r.queue)
             y == Taken(s)
  <2>1. /\ r.status = "running" /\ r.work.op = "idle" /\ r.queue # <<>>
        /\ First(s).cmd \in About
    BY ReceivesSome DEF HandleRestartChild, About
  <2>2. r \in Runtime /\ q \in Seq(Command)
    BY <2>1, At1, Queued
  <2>3. y = [r EXCEPT !.queue = q]
    BY DEF Taken
  <2> HIDE DEF q, y
  <2>4. /\ y \in Runtime /\ y.queue = q /\ y.children = r.children
        /\ y.up = r.up /\ y.slot = r.slot /\ y.node = r.node /\ y.status = r.status
        /\ y.task = r.task /\ y.timers = r.timers
    BY <2>2, <2>3 DEF Runtime
  <2>5. config' = config /\ RestTyped
    BY RestStays DEF HandleRestartChild
  <2> QED BY <1>2, <2>1, <2>4, <2>5, RoundSound DEF q, y
<1> QED BY <1>1, <1>2 DEF HandleRestartChild
(***************************************************************************)
(* Steps within a supervisor's own lists.                                  *)
(***************************************************************************)

\* A runtime with other letters, lists, records and tasks.
Edited(r, q, cs, w, tr, ts) ==
  [r EXCEPT !.queue = q, !.children = cs, !.work = w, !.tracked = tr, !.task = ts]

LEMMA EditedIs ==
  ASSUME NEW r \in Runtime, NEW q \in Seq(Command), NEW cs \in Seq(Child), NEW w \in Work,
         NEW tr \in SUBSET Id, NEW ts \in Seq(Task)
  PROVE  LET x == Edited(r, q, cs, w, tr, ts) IN
         /\ x \in Runtime /\ x.queue = q /\ x.children = cs /\ x.work = w /\ x.task = ts
         /\ x.up = r.up /\ x.slot = r.slot /\ x.node = r.node /\ x.status = r.status
         /\ x.timers = r.timers
BY DEF Edited, Runtime

LEMMA EditStep ==
  ASSUME IInv, NEW s \in DOMAIN rt, NEW x \in Runtime,
         x.up = rt[s].up, x.slot = rt[s].slot, x.node = rt[s].node, x.status = rt[s].status,
         x.timers = rt[s].timers,
         DOMAIN x.task = DOMAIN rt[s].task, Forward(rt[s].task, x.task),
         SameNested(rt[s].task, x.task),
         SetOf(x.queue) \subseteq SetOf(rt[s].queue),
         \A m \in SetOf(rt[s].queue) : m \in SetOf(x.queue) \/ m.cmd # "Shutdown",
         x.work.op = rt[s].work.op
           \/ {x.work.op, rt[s].work.op} \cap {"shutdown", "escalate"} = {},
         Distinct(x), Shaped(x), Halted(x), HeldBy(x) \subseteq HeldBy(rt[s]),
         \A c \in HeldBy(rt[s]) : c \in HeldBy(x) \/ ~Loose(x.task[c.task]),
         \A c \in Stays(x) : c.kind = "Supervisor" =>
           c \in Stays(rt[s]) /\ (Excused(rt[s], c) => Excused(x, c)),
         \A m \in SetOf(rt[s].queue) : m.cmd \in About =>
           \/ m \in SetOf(x.queue)
           \/ \A c \in Stays(x) : c.kind = "Supervisor" /\ c.task = m.by => Excused(x, c),
         rt' = Put(s, x), config' = config, RestTyped
  PROVE  IInv'
<1> DEFINE r == rt[s]
<1>1. r \in Runtime /\ Sound(config.nodes, r)
  BY At1
<1>2. Sound(config.nodes, x)
  BY <1>1, ReworkedSound
<1>3. HasShutdown(r) <=> HasShutdown(x)
  BY DEF HasShutdown
<1>4. Inward(r, x)
  BY <1>3 DEF Inward, Told, Asked
<1> QED BY <1>2, <1>4, StepInside

\* What a sound runtime holds.
LEMMA HeldLists ==
  ASSUME NEW nodes, NEW r \in Runtime, Sound(nodes, r)
  PROVE  /\ r.work \in Work /\ r.queue \in Seq(Command) /\ r.tracked \in SUBSET Id
         /\ r.children \in Seq(Child) /\ r.work.todo \in Seq(Child) /\ r.work.back \in Seq(Child)
         /\ r.task \in Seq(Task)
         /\ \A c \in HeldBy(r) : /\ c \in Child /\ c.task \in DOMAIN r.task
                                 /\ r.task[c.task].id = c.id /\ r.task[c.task].kind = c.kind
         /\ SetOf(r.children) \subseteq Stays(r) /\ SetOf(r.work.back) \subseteq Stays(r)
         /\ SetOf(r.work.todo) \subseteq HeldBy(r) /\ Stays(r) \subseteq HeldBy(r)
         /\ r.work.todo # <<>> => Head(r.work.todo) \in SetOf(r.work.todo)
<1>1. /\ r.work \in Work /\ r.queue \in Seq(Command) /\ r.tracked \in SUBSET Id
      /\ r.children \in Seq(Child) /\ r.work.todo \in Seq(Child) /\ r.work.back \in Seq(Child)
      /\ r.task \in Seq(Task)
  BY RuntimeTypes DEF Runtime
<1>2. /\ SetOf(r.children) \subseteq Stays(r) /\ SetOf(r.work.back) \subseteq Stays(r)
      /\ SetOf(r.work.todo) \subseteq HeldBy(r) /\ Stays(r) \subseteq HeldBy(r)
  BY DEF Stays, HeldBy
<1>3. HeldBy(r) \subseteq Child
  BY <1>1, SetOfIn DEF Stays, HeldBy
<1>4. r.work.todo # <<>> => Head(r.work.todo) \in SetOf(r.work.todo)
  BY <1>1, SetOfHead
<1> QED BY <1>1, <1>2, <1>3, <1>4 DEF Sound, Placed

\* A worker is aborted unless it has ended.
LEMMA AbortIs ==
  ASSUME NEW r \in Runtime, NEW t \in DOMAIN r.task, r.task[t].kind = "Worker"
  PROVE  LET e == [r.task[t] EXCEPT !.abort = @ \/ ~Over(r.task[t])]
             q == [r.task EXCEPT ![t] = e]
         IN  /\ q \in Seq(Task) /\ DOMAIN q = DOMAIN r.task
             /\ Forward(r.task, q) /\ SameNested(r.task, q) /\ ~Loose(q[t])
<1> DEFINE p == r.task[t]
           e == [p EXCEPT !.abort = @ \/ ~Over(p)]
           q == [r.task EXCEPT ![t] = e]
<1>1. p \in Task
  BY RuntimeTypes
<1>2. /\ e \in Task /\ e.kind = p.kind /\ e.id = p.id /\ e.pc = p.pc
      /\ (Over(p) \/ e.abort) /\ (p.abort => e.abort)
  <2>1. Over(p) \in BOOLEAN
    BY DEF Over
  <2> QED BY <1>1, <2>1 DEF Task
<1> HIDE DEF e
<1>3. /\ q \in Seq(Task) /\ DOMAIN q = DOMAIN r.task /\ q[t] = e
      /\ \A u \in DOMAIN r.task : u # t => q[u] = r.task[u]
  BY <1>2, TaskPut
<1> HIDE DEF q
<1>4. Over(e) = Over(p)
  BY <1>2 DEF Over
<1>5. Forward(r.task, q)
  BY <1>2, <1>3, <1>4 DEF Forward, Loose
<1>6. SameNested(r.task, q)
  BY <1>3 DEF SameNested
<1>7. ~Loose(q[t])
  BY <1>2, <1>3, <1>4 DEF Loose
<1> QED BY <1>3, <1>5, <1>6, <1>7 DEF e, q

\* The child that was being stopped has stopped, or was told to.
LEMMA HeadGone ==
  ASSUME IInv, NEW s \in DOMAIN rt, HeadStopped(s)
  PROVE  LET h == Head(rt[s].work.todo) IN
         /\ rt[s].work.todo # <<>> /\ h \in SetOf(rt[s].work.todo) /\ h \in HeldBy(rt[s])
         /\ StoppedIn(rt[s], h) /\ ~Loose(rt[s].task[h.task])
<1> DEFINE r == rt[s]
           h == Head(r.work.todo)
<1>1. r \in Runtime /\ Sound(config.nodes, r)
  BY At1
<1>2. r.work.stage # "next" /\ (h.kind = "Worker" => Over(r.task[h.task]))
  BY DEF HeadStopped, Ended, Over
<1>3. r.work.todo # <<>>
  BY <1>1, <1>2 DEF Sound, Shaped
<1>4. h \in SetOf(r.work.todo) /\ h \in HeldBy(r) /\ h \in Child /\ r.task[h.task].kind = h.kind
  BY <1>1, <1>3, HeldLists
<1>5. StoppedIn(r, h)
  <2>1. h.kind \in {"Worker", "Supervisor"}
    BY <1>4 DEF Child, Kind
  <2>2. h.kind = "Supervisor" => StoppedIn(r, h)
    BY <1>1, <1>2 DEF Sound, Halted
  <2> QED BY <1>2, <2>1, <2>2 DEF StoppedIn
<1>6. ~Loose(r.task[h.task])
  BY <1>4, <1>5 DEF StoppedIn, Loose
<1> QED BY <1>3, <1>4, <1>5, <1>6
\* A worker that is not restarted is dropped.
LEMMA DropStep ==
  ASSUME IInv, NEW s \in DOMAIN rt, DropChild(s)
  PROVE  IInv'
<1> DEFINE r == rt[s]
<1>1. PICK i \in DOMAIN r.children :
        /\ Concerns(s, i, FALSE)
        /\ rt' = Put(s, [Taken(s) EXCEPT !.children = RemoveAt(@, i),
                           !.tracked = @ \ {r.children[i].id},
                           !.task[r.children[i].task].abort = @ \/ ~Ended(s, r.children[i].task)])
  BY Zenon DEF DropChild
<1> DEFINE c == r.children[i]
           q == Tail(r.queue)
           cs == RemoveAt(r.children, i)
           tr == r.tracked \ {c.id}
           e == [r.task[c.task] EXCEPT !.abort = @ \/ ~Over(r.task[c.task])]
           ts == [r.task EXCEPT ![c.task] = e]
           w == r.work
           x == Edited(r, q, cs, w, tr, ts)
<1>2. r \in Runtime /\ Sound(config.nodes, r)
  BY At1
<1>3. /\ r.status = "running" /\ r.work.op = "idle" /\ r.queue # <<>>
      /\ First(s).cmd = "ChildTerminated" /\ Position(s, First(s).id, i)
      /\ ~ShouldRestart(PolicyForDecision(c), First(s).reason)
  BY <1>1, ReceivesSome DEF Concerns
<1>4. /\ c \in Child /\ c \in HeldBy(r)
      /\ \A d \in SetOf(r.children) : d.kind = "Supervisor" /\ d.task = First(s).by => d = c
  BY <1>3, Located DEF About
<1>5. c.kind = "Worker" /\ c.task \in DOMAIN r.task /\ r.task[c.task].kind = "Worker"
  <2>1. c.kind = "Worker"
    BY <1>3, <1>4 DEF ShouldRestart, PolicyForDecision, Child, Kind
  <2> QED BY <1>2, <1>4, <2>1, HeldLists
<1>6. q \in Seq(Command) /\ SetOf(r.queue) = {First(s)} \cup SetOf(q)
  BY <1>2, <1>3, Queued, SMTT(30) DEF First
<1>7. /\ ts \in Seq(Task) /\ DOMAIN ts = DOMAIN r.task
      /\ Forward(r.task, ts) /\ SameNested(r.task, ts) /\ ~Loose(ts[c.task])
  BY <1>2, <1>5, AbortIs
<1>8. /\ r.children \in Seq(Child) /\ DistinctIds(r.children)
      /\ HeldBy(r) = SetOf(r.children) /\ Stays(r) = SetOf(r.children)
      /\ r.work.todo = <<>> /\ r.work.back = <<>> /\ \A d : ~Excused(r, d)
  BY <1>2, <1>3, IdleLists, IdleHolds
<1>9. /\ cs \in Seq(Child) /\ DistinctIds(cs) /\ SetOf(r.children) = {c} \cup SetOf(cs)
  BY <1>8, RemoveAtType, DistinctSplit, SetOfSplit
<1>10. \A d \in SetOf(cs) : d.id # c.id
  BY <1>8, DistinctSplit
<1>11. w \in Work /\ tr \in SUBSET Id
  BY <1>2, HeldLists, SMTT(30)
<1>12. rt' = Put(s, x)
  <2>1. [Taken(s) EXCEPT !.children = RemoveAt(@, i), !.tracked = @ \ {c.id},
                         !.task[c.task].abort = @ \/ ~Ended(s, c.task)] = x
    BY <1>2 DEF Taken, Edited, Runtime, Ended, Over
  <2> QED BY <1>1, <2>1
<1> HIDE DEF ts, cs, tr, q, w
<1>13. /\ x \in Runtime /\ x.queue = q /\ x.children = cs /\ x.work = w /\ x.task = ts
       /\ x.up = r.up /\ x.slot = r.slot /\ x.node = r.node /\ x.status = r.status
       /\ x.timers = r.timers
  BY <1>2, <1>6, <1>7, <1>9, <1>11, EditedIs
<1> HIDE DEF x, c
<1>14. HeldBy(x) = SetOf(cs) /\ Stays(x) = SetOf(cs)
  BY <1>8, <1>13, Few DEF HeldBy, Stays, w
<1>15. Distinct(x) /\ Shaped(x) /\ Halted(x)
  <2>1. Shaped(r) /\ Halted(r) /\ Distinct(r)
    BY <1>2 DEF Sound
  <2>2. Distinct(x)
    BY <1>3, <1>8, <1>9, <1>13, <2>1, Few DEF Distinct, w
  <2>3. Shaped(x)
    BY <1>3, <1>13, <2>1 DEF Shaped, w
  <2>4. Halted(x)
    BY <1>3, <1>8, <1>13, <2>1 DEF Halted, Shaped, w
  <2> QED BY <2>2, <2>3, <2>4
<1>16. \A d \in HeldBy(r) : d \in HeldBy(x) \/ ~Loose(x.task[d.task])
  BY <1>7, <1>8, <1>9, <1>13, <1>14
<1>17. \A d \in Stays(x) : d.kind = "Supervisor" => d.task # First(s).by
  BY <1>4, <1>9, <1>10, <1>14
<1>18. \A m \in SetOf(r.queue) : m.cmd \in About =>
           \/ m \in SetOf(x.queue)
           \/ \A d \in Stays(x) : d.kind = "Supervisor" /\ d.task = m.by => Excused(x, d)
  BY <1>6, <1>13, <1>17
<1>19. RestTyped /\ config' = config
  BY RestStays DEF DropChild
<1>20. x.work.op = r.work.op
  BY <1>13 DEF w
<1>21. \A d \in Stays(x) : d.kind = "Supervisor" =>
         d \in Stays(r) /\ (Excused(r, d) => Excused(x, d))
  BY <1>8, <1>9, <1>14
<1>22. /\ SetOf(x.queue) \subseteq SetOf(r.queue) /\ HeldBy(x) \subseteq HeldBy(r)
       /\ \A m \in SetOf(r.queue) : m \in SetOf(x.queue) \/ m.cmd # "Shutdown"
  BY <1>3, <1>6, <1>8, <1>9, <1>13, <1>14
<1> HIDE DEF r
<1> QED BY <1>7, <1>12, <1>13, <1>15, <1>16, <1>18, <1>19, <1>20, <1>21, <1>22, EditStep DEF r
\* What a call carries.
LEMMA CallCarries ==
  ASSUME NEW m \in Command, m.cmd \in CallName \ {"Shutdown"}
  PROVE  m.client \in Client /\ m.id \in Id /\ m.policy \in Policy
BY DEF Command, CallName

\* A child to be terminated leaves the list, and is stopped.
LEMMA TerminateStep ==
  ASSUME IInv, NEW s \in DOMAIN rt, HandleTerminateChild(s)
  PROVE  IInv'
<1> DEFINE r == rt[s]
<1>1. PICK i \in DOMAIN r.children :
        /\ Receives(s, "TerminateChild")
        /\ Position(s, First(s).id, i)
        /\ rt' = Put(s, [Taken(s) EXCEPT !.children = RemoveAt(@, i),
                           !.work = [Begin("terminate", <<r.children[i]>>)
                                       EXCEPT !.client = {First(s).client}]])
  BY Zenon DEF HandleTerminateChild
<1> DEFINE c == r.children[i]
           q == Tail(r.queue)
           cs == RemoveAt(r.children, i)
           tr == r.tracked
           ts == r.task
           one == <<c>>
           w0 == Begin("terminate", one)
           w == [w0 EXCEPT !.client = {First(s).client}]
           x == Edited(r, q, cs, w, tr, ts)
<1>2. r \in Runtime /\ Sound(config.nodes, r)
  BY At1
<1>3. /\ r.status = "running" /\ r.work.op = "idle" /\ r.queue # <<>>
      /\ First(s).cmd = "TerminateChild"
  BY <1>1, ReceivesSome
<1>4. First(s).client \in Client
  BY <1>3, FirstIsQueued, CallCarries DEF CallName
<1>5. /\ r.children \in Seq(Child) /\ DistinctIds(r.children)
      /\ HeldBy(r) = SetOf(r.children) /\ Stays(r) = SetOf(r.children)
      /\ r.work.todo = <<>> /\ r.work.back = <<>> /\ \A d : ~Excused(r, d)
  BY <1>2, <1>3, IdleLists, IdleHolds
<1>6. q \in Seq(Command) /\ SetOf(r.queue) = {First(s)} \cup SetOf(q)
  BY <1>2, <1>3, Queued DEF First
<1>7. /\ cs \in Seq(Child) /\ DistinctIds(cs) /\ SetOf(r.children) = {c} \cup SetOf(cs)
      /\ c \in Child
  BY <1>5, RemoveAtType, DistinctSplit, SetOfSplit, SetOfIn
<1>8. \A d \in SetOf(cs) : d.id # c.id
  BY <1>5, DistinctSplit
<1>9. one \in Seq(Child) /\ SetOf(one) = {c} /\ DistinctIds(one) /\ Len(one) = 1
  BY <1>7, Few
<1> HIDE DEF one
<1>10. w0 \in Work /\ w0.op = "terminate" /\ w0.stage = "next" /\ w0.todo = one /\ w0.back = <<>>
  BY <1>9, BeginIs
<1> HIDE DEF w0
<1>11. w \in Work /\ w.op = "terminate" /\ w.stage = "next" /\ w.todo = one /\ w.back = <<>>
  <2>1. {First(s).client} \in SUBSET Client
    BY <1>4
  <2> QED BY <1>10, <2>1 DEF Work
<1>12. tr \in SUBSET Id /\ ts \in Seq(Task)
  BY <1>2, HeldLists
<1>13. rt' = Put(s, x)
  <2>1. [Taken(s) EXCEPT !.children = RemoveAt(@, i), !.work = w] = x
    BY <1>2 DEF Taken, Edited, Runtime
  <2> QED BY <1>1, <2>1 DEF w0, one
<1> HIDE DEF ts, cs, tr, q, w
<1>14. /\ x \in Runtime /\ x.queue = q /\ x.children = cs /\ x.work = w /\ x.task = r.task
       /\ x.up = r.up /\ x.slot = r.slot /\ x.node = r.node /\ x.status = r.status
       /\ x.timers = r.timers
  <2>1. /\ x \in Runtime /\ x.queue = q /\ x.children = cs /\ x.work = w /\ x.task = ts
        /\ x.up = r.up /\ x.slot = r.slot /\ x.node = r.node /\ x.status = r.status
        /\ x.timers = r.timers
    BY <1>2, <1>6, <1>7, <1>11, <1>12, EditedIs
  <2> QED BY <2>1 DEF ts
<1> HIDE DEF x, c
<1>15. HeldBy(x) = HeldBy(r) /\ Stays(x) = SetOf(cs)
  BY <1>5, <1>7, <1>9, <1>11, <1>14, Few DEF HeldBy, Stays
<1>16. Distinct(x)
  <2>1. Apart(cs, one)
    BY <1>8, <1>9 DEF Apart
  <2> QED BY <1>7, <1>9, <1>11, <1>14, <2>1, Few DEF Distinct
<1>17. Shaped(x) /\ Halted(x)
  BY <1>3, <1>9, <1>11, <1>14 DEF Shaped, Halted
<1>18. Forward(r.task, x.task) /\ SameNested(r.task, x.task)
  BY <1>14, ForwardSame
<1>19. \A m \in SetOf(r.queue) : m.cmd \in About => m \in SetOf(x.queue)
  BY <1>3, <1>6, <1>14 DEF About
<1>20. \A d \in Stays(x) : d \in Stays(r) /\ (Excused(r, d) => Excused(x, d))
  BY <1>5, <1>7, <1>15
<1>21. /\ SetOf(x.queue) \subseteq SetOf(r.queue)
       /\ \A m \in SetOf(r.queue) : m \in SetOf(x.queue) \/ m.cmd # "Shutdown"
       /\ {x.work.op, r.work.op} \cap {"shutdown", "escalate"} = {}
  BY <1>3, <1>6, <1>11, <1>14
<1>22. RestTyped /\ config' = config
  BY RestStays DEF HandleTerminateChild
<1> HIDE DEF r
<1> QED BY <1>13, <1>14, <1>15, <1>16, <1>17, <1>18, <1>19, <1>20, <1>21, <1>22, EditStep DEF r
\* A linked worker has started, and is listed.
LEMMA LinkOkStep ==
  ASSUME IInv, NEW s \in DOMAIN rt, LinkOk(s)
  PROVE  IInv'
<1> DEFINE r == rt[s]
           h == Head(r.work.todo)
           cs == Append(r.children, h)
           x == Edited(r, r.queue, cs, Idle, r.tracked, r.task)
<1>1. r \in Runtime /\ Sound(config.nodes, r)
  BY At1
<1>2. r.work.op = "link"
  BY DEF LinkOk
<1>3. Distinct(r) /\ Shaped(r)
  BY <1>1 DEF Sound
<1>4. /\ r.children \in Seq(Child) /\ r.queue \in Seq(Command) /\ r.tracked \in SUBSET Id
      /\ r.task \in Seq(Task) /\ r.work.todo \in Seq(Child)
  BY <1>1, HeldLists
<1>5. /\ r.work.todo # <<>> /\ r.work.back = <<>> /\ h = r.work.todo[1] /\ h \in Child
      /\ SetOf(r.work.todo) = {h} /\ h.kind = "Worker"
  <2>1. Len(r.work.todo) = 1 /\ r.work.back = <<>> /\ r.work.todo[1].kind = "Worker"
    BY <1>2, <1>3 DEF Shaped
  <2>2. r.work.todo = <<r.work.todo[1]>> /\ r.work.todo[1] \in Child
    BY <1>4, <2>1
  <2> QED BY <2>1, <2>2, Few
<1>6. /\ cs \in Seq(Child) /\ SetOf(cs) = SetOf(r.children) \cup {h}
      /\ DistinctIds(cs)
  <2>1. Apart(r.children, r.work.todo)
    BY <1>2, <1>3 DEF Distinct
  <2>2. \A c \in SetOf(r.children) : c.id # h.id
    BY <1>5, <2>1 DEF Apart
  <2>3. DistinctIds(r.children)
    BY <1>3 DEF Distinct
  <2> HIDE DEF h
  <2> QED BY <1>4, <1>5, <2>2, <2>3, SetOfAppend, DistinctAppend, AppendProperties
<1>7. rt' = Put(s, x)
  BY <1>1 DEF LinkOk, Edited, Runtime
<1> HIDE DEF cs
<1>8. /\ x \in Runtime /\ x.queue = r.queue /\ x.children = cs /\ x.work = Idle
      /\ x.task = r.task /\ x.up = r.up /\ x.slot = r.slot /\ x.node = r.node
      /\ x.status = r.status /\ x.timers = r.timers
  BY <1>1, <1>4, <1>6, IdleIs, EditedIs
<1> HIDE DEF x, h
<1>9. HeldBy(x) = HeldBy(r) /\ Stays(x) = Stays(r) \cup {h}
  BY <1>5, <1>6, <1>8, IdleIs, Few DEF HeldBy, Stays
<1>10. Distinct(x)
  BY <1>6, <1>8, IdleIs, Few DEF Distinct
<1>11. Shaped(x) /\ Halted(x)
  BY <1>2, <1>3, <1>8, IdleIs DEF Shaped, Halted
<1>12. Forward(r.task, x.task) /\ SameNested(r.task, x.task)
  BY <1>8, ForwardSame
<1>13. \A c \in Stays(x) : c.kind = "Supervisor" =>
         c \in Stays(r) /\ (Excused(r, c) => Excused(x, c))
  BY <1>2, <1>5, <1>9 DEF Excused
<1>14. RestTyped /\ config' = config
  <2>1. "Ok" \in Answer
    BY DEF Answer
  <2> QED BY <2>1, RestStays DEF LinkOk
<1>15. {x.work.op, r.work.op} \cap {"shutdown", "escalate"} = {}
  BY <1>2, <1>8, IdleIs
<1> HIDE DEF r
<1> QED BY <1>7, <1>8, <1>9, <1>10, <1>11, <1>12, <1>13, <1>14, <1>15, EditStep DEF r

\* A linked start fails, and its worker is dropped.
LEMMA LinkFailsStep ==
  ASSUME IInv, NEW s \in DOMAIN rt,
         NEW a \in {"InitializationFailed", "InitializationTimeout"}, LinkFails(s, a)
  PROVE  IInv'
<1> DEFINE r == rt[s]
           h == Head(r.work.todo)
           e == [r.task[h.task] EXCEPT !.abort = @ \/ ~Over(r.task[h.task])]
           ts == [r.task EXCEPT ![h.task] = e]
           x == Edited(r, r.queue, r.children, Idle, r.tracked, ts)
<1>1. r \in Runtime /\ Sound(config.nodes, r)
  BY At1
<1>2. r.work.op = "link"
  BY DEF LinkFails
<1>3. Distinct(r) /\ Shaped(r)
  BY <1>1 DEF Sound
<1>4. /\ r.children \in Seq(Child) /\ r.queue \in Seq(Command) /\ r.tracked \in SUBSET Id
      /\ r.task \in Seq(Task) /\ r.work.todo \in Seq(Child)
  BY <1>1, HeldLists
<1>5. /\ r.work.back = <<>> /\ SetOf(r.work.todo) = {h} /\ h.kind = "Worker"
      /\ h.task \in DOMAIN r.task /\ r.task[h.task].kind = "Worker"
  <2>1. Len(r.work.todo) = 1 /\ r.work.back = <<>> /\ r.work.todo[1].kind = "Worker"
    BY <1>2, <1>3 DEF Shaped
  <2>2. r.work.todo = <<r.work.todo[1]>>
    BY <1>4, <2>1
  <2>3. SetOf(r.work.todo) = {h} /\ h.kind = "Worker"
    BY <2>1, <2>2, Few
  <2>4. h \in HeldBy(r)
    BY <2>3 DEF HeldBy
  <2> QED BY <1>1, <2>1, <2>3, <2>4, HeldLists
<1>6. /\ ts \in Seq(Task) /\ DOMAIN ts = DOMAIN r.task
      /\ Forward(r.task, ts) /\ SameNested(r.task, ts) /\ ~Loose(ts[h.task])
  BY <1>1, <1>5, AbortIs, ZenonT(40)
<1>7. rt' = Put(s, x)
  <2>1. [r EXCEPT !.work = Idle, !.task[h.task].abort = @ \/ ~Ended(s, h.task)] = x
    BY <1>1 DEF Edited, Runtime, Ended, Over
  <2> QED BY <2>1, Zenon DEF LinkFails
<1> HIDE DEF ts
<1>8. /\ x \in Runtime /\ x.queue = r.queue /\ x.children = r.children /\ x.work = Idle
      /\ x.task = ts /\ x.up = r.up /\ x.slot = r.slot /\ x.node = r.node
      /\ x.status = r.status /\ x.timers = r.timers
  BY <1>1, <1>4, <1>6, IdleIs, EditedIs
<1> HIDE DEF x, h
<1>9. HeldBy(r) = HeldBy(x) \cup {h} /\ Stays(x) = Stays(r)
  BY <1>5, <1>8, IdleIs, Few DEF HeldBy, Stays
<1>10. Distinct(x)
  BY <1>3, <1>8, IdleIs, Few DEF Distinct
<1>11. Shaped(x) /\ Halted(x)
  BY <1>2, <1>3, <1>8, IdleIs DEF Shaped, Halted
<1>12. \A c \in HeldBy(r) : c \in HeldBy(x) \/ ~Loose(x.task[c.task])
  BY <1>6, <1>8, <1>9
<1>13. \A c : ~Excused(r, c)
  BY <1>2 DEF Excused
<1>14. RestTyped /\ config' = config
  <2>1. a \in Answer
    BY DEF Answer
  <2> QED BY <2>1, RestStays DEF LinkFails
<1>15. {x.work.op, r.work.op} \cap {"shutdown", "escalate"} = {}
  BY <1>2, <1>8, IdleIs
<1> HIDE DEF r
<1> QED BY <1>6, <1>7, <1>8, <1>9, <1>10, <1>11, <1>12, <1>13, <1>14, <1>15, EditStep DEF r

\* A worker that takes too long to stop is aborted.
LEMMA TimesOutStep ==
  ASSUME IInv, NEW s \in DOMAIN rt, StopTimesOut(s)
  PROVE  IInv'
<1> DEFINE r == rt[s]
           h == Head(r.work.todo)
           e == [r.task[h.task] EXCEPT !.abort = @ \/ ~Over(r.task[h.task])]
           ts == [r.task EXCEPT ![h.task] = e]
           w == [r.work EXCEPT !.stage = "join"]
           x == Edited(r, r.queue, r.children, w, r.tracked, ts)
<1>1. r \in Runtime /\ Sound(config.nodes, r)
  BY At1
<1>2. r.work.stage = "wait" /\ h.kind = "Worker" /\ ~Over(r.task[h.task])
  BY DEF StopTimesOut, Ended, Over
<1>3. Distinct(r) /\ Shaped(r) /\ Halted(r)
  BY <1>1 DEF Sound
<1>4. /\ r.children \in Seq(Child) /\ r.queue \in Seq(Command) /\ r.tracked \in SUBSET Id
      /\ r.task \in Seq(Task) /\ r.work.todo \in Seq(Child) /\ r.work \in Work
  BY <1>1, HeldLists
<1>5. /\ h \in HeldBy(r) /\ h.task \in DOMAIN r.task /\ r.task[h.task].kind = "Worker"
  <2>1. r.work.todo # <<>>
    BY <1>2, <1>3 DEF Shaped
  <2> QED BY <1>1, <1>2, <2>1, HeldLists
<1>6. /\ ts \in Seq(Task) /\ DOMAIN ts = DOMAIN r.task
      /\ Forward(r.task, ts) /\ SameNested(r.task, ts)
  BY <1>1, <1>5, AbortIs, Zenon
<1>7. rt' = Put(s, x)
  <2>1. r.task[h.task] \in Task
    BY <1>1, <1>5, RuntimeTypes
  <2>2. e = [r.task[h.task] EXCEPT !.abort = TRUE]
    BY <1>2, <2>1, Zenon DEF Task
  <2>3. [r EXCEPT !.work.stage = "join", !.task[h.task].abort = TRUE]
          = [r EXCEPT !.work = w, !.task = [r.task EXCEPT ![h.task] = [@ EXCEPT !.abort = TRUE]]]
    BY <1>1 DEF Runtime
  <2>4. [r EXCEPT !.work = w, !.task = ts] = x
    BY <1>1 DEF Edited, Runtime
  <2> QED BY <2>2, <2>3, <2>4, Zenon DEF StopTimesOut
<1>8. w \in Work /\ w.op = r.work.op /\ w.stage = "join" /\ w.todo = r.work.todo /\ w.back = r.work.back
  BY <1>4 DEF Work
<1> HIDE DEF ts, w
<1>9. /\ x \in Runtime /\ x.queue = r.queue /\ x.children = r.children /\ x.work = w
      /\ x.task = ts /\ x.up = r.up /\ x.slot = r.slot /\ x.node = r.node
      /\ x.status = r.status /\ x.timers = r.timers
  BY <1>1, <1>4, <1>6, <1>8, EditedIs
<1> HIDE DEF x
<1>10. HeldBy(r) = HeldBy(x) /\ Stays(x) = Stays(r) /\ \A c : Excused(r, c) <=> Excused(x, c)
  BY <1>8, <1>9 DEF HeldBy, Stays, Excused
<1>11. Distinct(x)
  BY <1>3, <1>8, <1>9 DEF Distinct
<1>12. Shaped(x)
  BY <1>2, <1>3, <1>8, <1>9 DEF Shaped
<1>13. Halted(x)
  <2>1. \A c \in HeldBy(r) : StoppedIn(r, c) => StoppedIn(x, c)
    <3>1. \A c \in HeldBy(r) : c.task \in DOMAIN r.task /\ r.task[c.task].kind = c.kind
      BY <1>1, HeldLists
    <3> QED BY <1>6, <1>9, <3>1, StoppedStays
  <2>2. SetOf(r.children) \subseteq HeldBy(r) /\ SetOf(r.work.todo) \subseteq HeldBy(r)
    BY <1>1, HeldLists
  <2> QED BY <1>2, <1>3, <1>8, <1>9, <2>1, <2>2 DEF Halted
<1>14. RestTyped /\ config' = config
  BY RestStays DEF StopTimesOut
<1> HIDE DEF r
<1> QED BY <1>6, <1>7, <1>8, <1>9, <1>10, <1>11, <1>12, <1>13, <1>14, EditStep DEF r
\* The child is terminated.
LEMMA FinishStep ==
  ASSUME IInv, NEW s \in DOMAIN rt, FinishTerminate(s)
  PROVE  IInv'
<1> DEFINE r == rt[s]
           h == Head(r.work.todo)
           tr == r.tracked \ {h.id}
           x == Edited(r, r.queue, r.children, Idle, tr, r.task)
<1>1. r \in Runtime /\ Sound(config.nodes, r)
  BY At1
<1>2. r.work.op = "terminate" /\ HeadStopped(s)
  BY DEF FinishTerminate
<1>3. Distinct(r) /\ Shaped(r)
  BY <1>1 DEF Sound
<1>4. /\ r.children \in Seq(Child) /\ r.queue \in Seq(Command) /\ tr \in SUBSET Id
      /\ r.task \in Seq(Task) /\ r.work.todo \in Seq(Child)
  BY <1>1, HeldLists
<1>5. r.work.back = <<>> /\ SetOf(r.work.todo) = {h} /\ ~Loose(r.task[h.task])
  <2>1. Len(r.work.todo) = 1 /\ r.work.back = <<>>
    BY <1>2, <1>3 DEF Shaped
  <2>2. r.work.todo = <<r.work.todo[1]>>
    BY <1>4, <2>1
  <2>3. SetOf(r.work.todo) = {h}
    BY <2>2, Few
  <2> QED BY <1>2, <2>1, <2>3, HeadGone
<1>6. rt' = Put(s, x)
  BY <1>1 DEF FinishTerminate, Edited, Runtime
<1> HIDE DEF tr
<1>7. /\ x \in Runtime /\ x.queue = r.queue /\ x.children = r.children /\ x.work = Idle
      /\ x.task = r.task /\ x.up = r.up /\ x.slot = r.slot /\ x.node = r.node
      /\ x.status = r.status /\ x.timers = r.timers
  BY <1>1, <1>4, IdleIs, EditedIs
<1> HIDE DEF x, h
<1>8. HeldBy(r) = HeldBy(x) \cup {h} /\ Stays(x) = Stays(r)
  BY <1>5, <1>7, IdleIs, Few DEF HeldBy, Stays
<1>9. Distinct(x)
  BY <1>3, <1>7, IdleIs, Few DEF Distinct
<1>10. Shaped(x) /\ Halted(x)
  BY <1>2, <1>3, <1>7, IdleIs DEF Shaped, Halted
<1>11. Forward(r.task, x.task) /\ SameNested(r.task, x.task)
  BY <1>7, ForwardSame
<1>12. \A c \in HeldBy(r) : c \in HeldBy(x) \/ ~Loose(x.task[c.task])
  BY <1>5, <1>7, <1>8
<1>13. \A c : ~Excused(r, c)
  BY <1>2 DEF Excused
<1>14. RestTyped /\ config' = config
  <2>1. "Ok" \in Answer
    BY DEF Answer
  <2> QED BY <2>1, RestStays DEF FinishTerminate
<1>15. {x.work.op, r.work.op} \cap {"shutdown", "escalate"} = {}
  BY <1>2, <1>7, IdleIs
<1> HIDE DEF r
<1> QED BY <1>6, <1>7, <1>8, <1>9, <1>10, <1>11, <1>12, <1>13, <1>14, <1>15, EditStep DEF r

\* The next of the children to be stopped.
LEMMA StopNextStep ==
  ASSUME IInv, NEW s \in DOMAIN rt, StopNext(s)
  PROVE  IInv'
<1> DEFINE r == rt[s]
           h == Head(r.work.todo)
           l == Tail(r.work.todo)
           w == [r.work EXCEPT !.stage = "next", !.todo = l]
           x == Edited(r, r.queue, r.children, w, r.tracked, r.task)
<1>1. r \in Runtime /\ Sound(config.nodes, r)
  BY At1
<1>2. r.work.op \in {"all", "shutdown", "escalate"} /\ HeadStopped(s)
  BY DEF StopNext
<1>3. Distinct(r) /\ Shaped(r) /\ Halted(r)
  BY <1>1 DEF Sound
<1>4. /\ r.children \in Seq(Child) /\ r.queue \in Seq(Command) /\ r.tracked \in SUBSET Id
      /\ r.task \in Seq(Task) /\ r.work.todo \in Seq(Child) /\ r.work \in Work
  BY <1>1, HeldLists
<1>5. r.work.todo # <<>> /\ StoppedIn(r, h) /\ ~Loose(r.task[h.task])
  BY <1>2, HeadGone
<1>6. l \in Seq(Child) /\ SetOf(r.work.todo) = {h} \cup SetOf(l) /\ DistinctIds(l)
  <2>1. DistinctIds(r.work.todo)
    BY <1>3 DEF Distinct
  <2> QED BY <1>4, <1>5, <2>1, SetOfHead, DistinctHead
<1> HIDE DEF l
<1>7. w \in Work /\ w.op = r.work.op /\ w.stage = "next" /\ w.todo = l /\ w.back = r.work.back
  BY <1>4, <1>6 DEF Work
<1>8. rt' = Put(s, x)
  BY <1>1 DEF StopNext, Edited, Runtime, Advanced, l
<1> HIDE DEF w
<1>9. /\ x \in Runtime /\ x.queue = r.queue /\ x.children = r.children /\ x.work = w
      /\ x.task = r.task /\ x.up = r.up /\ x.slot = r.slot /\ x.node = r.node
      /\ x.status = r.status /\ x.timers = r.timers
  BY <1>1, <1>4, <1>7, EditedIs
<1> HIDE DEF x, h
<1>10. HeldBy(r) = HeldBy(x) \cup {h} /\ Stays(x) = Stays(r)
  BY <1>6, <1>7, <1>9 DEF HeldBy, Stays
<1>11. Distinct(x)
  BY <1>3, <1>6, <1>7, <1>9 DEF Distinct, Apart
<1>12. Shaped(x)
  BY <1>2, <1>3, <1>7, <1>9 DEF Shaped
<1>13. Halted(x)
  BY <1>2, <1>3, <1>5, <1>6, <1>7, <1>9 DEF Halted, StoppedIn
<1>14. Forward(r.task, x.task) /\ SameNested(r.task, x.task)
  BY <1>9, ForwardSame
<1>15. \A c \in HeldBy(r) : c \in HeldBy(x) \/ ~Loose(x.task[c.task])
  BY <1>5, <1>9, <1>10
<1>16. \A c : Excused(r, c) => Excused(x, c)
  BY <1>2, <1>7, <1>9 DEF Excused
<1>17. RestTyped /\ config' = config
  BY RestStays DEF StopNext
<1> HIDE DEF r
<1> QED BY <1>7, <1>8, <1>9, <1>10, <1>11, <1>12, <1>13, <1>14, <1>15, <1>16, <1>17, EditStep DEF r

\* All are stopped, and are drained from the list.
LEMMA DrainStep ==
  ASSUME IInv, NEW s \in DOMAIN rt, DrainAll(s)
  PROVE  IInv'
<1> DEFINE r == rt[s]
           none == <<>>
           w == Begin("respawn", r.children)
           x == Edited(r, r.queue, none, w, r.tracked, r.task)
<1>1. r \in Runtime /\ Sound(config.nodes, r)
  BY At1
<1>2. r.work.op = "all" /\ r.work.todo = <<>>
  BY DEF DrainAll
<1>3. Distinct(r) /\ Shaped(r) /\ Halted(r)
  BY <1>1 DEF Sound
<1>4. /\ r.children \in Seq(Child) /\ r.queue \in Seq(Command) /\ r.tracked \in SUBSET Id
      /\ r.task \in Seq(Task) /\ none \in Seq(Child)
  BY <1>1, HeldLists
<1>5. w \in Work /\ w.op = "respawn" /\ w.stage = "next" /\ w.todo = r.children /\ w.back = <<>>
  BY <1>4, BeginIs
<1>6. rt' = Put(s, x)
  BY <1>1 DEF DrainAll, Edited, Runtime
<1> HIDE DEF w
<1>7. none = <<>>
  OBVIOUS
<1> HIDE DEF none
<1>8. /\ x \in Runtime /\ x.queue = r.queue /\ x.children = none /\ x.work = w
      /\ x.task = r.task /\ x.up = r.up /\ x.slot = r.slot /\ x.node = r.node
      /\ x.status = r.status /\ x.timers = r.timers
  BY <1>1, <1>4, <1>5, EditedIs
<1> HIDE DEF x
<1>9. /\ HeldBy(r) = SetOf(r.children) /\ HeldBy(x) = SetOf(r.children) /\ Stays(x) = {}
  <2>1. r.work.back = <<>>
    BY <1>2, <1>3 DEF Shaped
  <2> QED BY <1>2, <1>5, <1>7, <1>8, <2>1, Few DEF HeldBy, Stays
<1>10. Distinct(x)
  BY <1>3, <1>5, <1>7, <1>8, Few DEF Distinct
<1>11. Shaped(x)
  BY <1>2, <1>3, <1>5, <1>8 DEF Shaped
<1>12. Halted(x)
  BY <1>2, <1>3, <1>5, <1>8, Few DEF Halted, StoppedIn
<1>13. Forward(r.task, x.task) /\ SameNested(r.task, x.task)
  BY <1>8, ForwardSame
<1>14. RestTyped /\ config' = config
  BY RestStays DEF DrainAll
<1>15. {x.work.op, r.work.op} \cap {"shutdown", "escalate"} = {}
  BY <1>2, <1>5, <1>8
<1> HIDE DEF r
<1> QED BY <1>6, <1>8, <1>9, <1>10, <1>11, <1>12, <1>13, <1>14, <1>15, EditStep DEF r

\* The round is over.
LEMMA EndRoundStep ==
  ASSUME IInv, NEW s \in DOMAIN rt, EndRound(s)
  PROVE  IInv'
<1> DEFINE r == rt[s]
           cs == r.children \o r.work.back
           x == Edited(r, r.queue, cs, Idle, r.tracked, r.task)
<1>1. r \in Runtime /\ Sound(config.nodes, r)
  BY At1
<1>2. r.work.op \in {"respawn", "from"} /\ r.work.todo = <<>>
  BY DEF EndRound
<1>3. Distinct(r) /\ Shaped(r)
  BY <1>1 DEF Sound
<1>4. /\ r.children \in Seq(Child) /\ r.queue \in Seq(Command) /\ r.tracked \in SUBSET Id
      /\ r.task \in Seq(Task) /\ r.work.back \in Seq(Child)
  BY <1>1, HeldLists
<1>5. cs \in Seq(Child) /\ SetOf(cs) = SetOf(r.children) \cup SetOf(r.work.back) /\ DistinctIds(cs)
  <2>1. cs \in Seq(Child)
    BY <1>4, ConcatProperties
  <2>2. SetOf(cs) = SetOf(r.children) \cup SetOf(r.work.back)
    BY <1>4, SetOfConcat
  <2>3. DistinctIds(cs)
    BY <1>3, <1>4, DistinctConcat DEF Distinct
  <2> QED BY <2>1, <2>2, <2>3
<1>6. rt' = Put(s, x)
  BY <1>1 DEF EndRound, Edited, Runtime
<1> HIDE DEF cs
<1>7. /\ x \in Runtime /\ x.queue = r.queue /\ x.children = cs /\ x.work = Idle
      /\ x.task = r.task /\ x.up = r.up /\ x.slot = r.slot /\ x.node = r.node
      /\ x.status = r.status /\ x.timers = r.timers
  BY <1>1, <1>4, <1>5, IdleIs, EditedIs
<1> HIDE DEF x
<1>8. HeldBy(r) = HeldBy(x) /\ Stays(x) = Stays(r)
  BY <1>2, <1>5, <1>7, IdleIs, Few DEF HeldBy, Stays
<1>9. Distinct(x)
  BY <1>5, <1>7, IdleIs, Few DEF Distinct
<1>10. Shaped(x) /\ Halted(x)
  BY <1>2, <1>3, <1>7, IdleIs DEF Shaped, Halted
<1>11. Forward(r.task, x.task) /\ SameNested(r.task, x.task)
  BY <1>7, ForwardSame
<1>12. \A c : ~Excused(r, c)
  BY <1>2 DEF Excused
<1>13. RestTyped /\ config' = config
  BY RestStays DEF EndRound
<1>14. {x.work.op, r.work.op} \cap {"shutdown", "escalate"} = {}
  BY <1>2, <1>7, IdleIs
<1> HIDE DEF r
<1> QED BY <1>6, <1>7, <1>8, <1>9, <1>10, <1>11, <1>12, <1>13, <1>14, EditStep DEF r
(***************************************************************************)
(* Steps of which another runtime learns.                                  *)
(***************************************************************************)

\* What the invariant says of a nested runtime and of the task it runs as.
LEMMA Slots ==
  ASSUME IInv, NEW v \in 2..Len(rt)
  PROVE  /\ v \in DOMAIN rt /\ rt[v].up \in 1..(v - 1) /\ rt[v].up \in DOMAIN rt /\ rt[v].up # v
         /\ rt[v].slot \in DOMAIN rt[rt[v].up].task
         /\ SlotOf(v) = rt[rt[v].up].task[rt[v].slot]
         /\ SlotOf(v).kind = "Supervisor" /\ SlotOf(v).id = config.nodes[rt[v].node].name
         /\ Over(SlotOf(v)) <=> rt[v].status # "running"
         /\ rt[v].status = "running" =>
              (SlotOf(v).signal => Told(rt[v])) /\ (Asked(rt[v]) => SlotOf(v).signal)
<1>1. v \in DOMAIN rt /\ Len(rt) \in Nat /\ DOMAIN rt = 1..Len(rt)
  BY Numbers
<1>2. TreeShape /\ OneEach /\ Obeys
  BY DEF IInv, TreeOk
<1>3. /\ rt[v].up \in 1..(v - 1) /\ rt[v].slot \in DOMAIN rt[rt[v].up].task
      /\ SlotOf(v).kind = "Supervisor" /\ SlotOf(v).id = config.nodes[rt[v].node].name
  BY <1>2 DEF TreeShape, SlotOf, SpecOf
<1>4. rt[v].up \in DOMAIN rt /\ rt[v].up # v
  BY <1>1, <1>3
<1>5. Over(SlotOf(v)) <=> rt[v].status # "running"
  BY <1>2 DEF OneEach
<1>6. rt[v].status = "running" =>
        (SlotOf(v).signal => Told(rt[v])) /\ (Asked(rt[v]) => SlotOf(v).signal)
  BY <1>2 DEF Obeys, Told, Asked
<1> QED BY <1>1, <1>3, <1>4, <1>5, <1>6 DEF SlotOf

\* No runtime is started, and those there are go on (q).
LEMMA TreeKept ==
  ASSUME IInv, NEW q \in Seq(Runtime), Len(q) = Len(rt), rt' = q, config' = config, RestTyped,
         \A v \in DOMAIN rt :
           /\ Sound(config.nodes, q[v])
           /\ q[v].up = rt[v].up /\ q[v].slot = rt[v].slot /\ q[v].node = rt[v].node
           /\ DOMAIN q[v].task = DOMAIN rt[v].task
           /\ \A t \in DOMAIN rt[v].task :
                q[v].task[t].kind = rt[v].task[t].kind /\ q[v].task[t].id = rt[v].task[t].id,
         \A v \in 2..Len(rt) :
           LET e == q[rt[v].up].task[rt[v].slot] IN
           /\ Over(e) <=> q[v].status # "running"
           /\ q[v].status = "running" => (e.signal => Told(q[v])) /\ (Asked(q[v]) => e.signal)
  PROVE  IInv'
<1>1. /\ Len(rt) \in Nat \ {0} /\ DOMAIN rt = 1..Len(rt) /\ DOMAIN q = DOMAIN rt /\ q # <<>>
      /\ 1 \in DOMAIN rt
  BY Numbers, LenProperties, EmptySeq
<1>2. VarTypes'
  BY DEF IInv, VarTypes, RestTyped
<1>3. AllSound'
  BY <1>1 DEF AllSound
<1>4. (rt[1].up = 0)'
  BY <1>1 DEF IInv, TreeOk
<1>5. TreeShape'
  <2> SUFFICES ASSUME NEW v \in 2..Len(rt)
               PROVE  /\ q[v].up \in 1..(v - 1)
                      /\ q[v].slot \in DOMAIN q[q[v].up].task
                      /\ q[q[v].up].task[q[v].slot].kind = "Supervisor"
                      /\ q[q[v].up].task[q[v].slot].id = config.nodes[q[v].node].name
    BY DEF TreeShape, SpecOf
  <2>1. /\ v \in DOMAIN rt /\ rt[v].up \in 1..(v - 1) /\ rt[v].up \in DOMAIN rt
        /\ rt[v].slot \in DOMAIN rt[rt[v].up].task
        /\ rt[rt[v].up].task[rt[v].slot].kind = "Supervisor"
        /\ rt[rt[v].up].task[rt[v].slot].id = config.nodes[rt[v].node].name
    BY Slots
  <2> QED BY <2>1, ZenonT(40)
<1>6. OneEach'
  <2>1. \A u, v \in 2..Len(rt) : q[u].up = q[v].up /\ q[u].slot = q[v].slot => u = v
    BY <1>1 DEF IInv, TreeOk, OneEach
  <2>2. ASSUME NEW u \in DOMAIN rt, NEW t \in DOMAIN q[u].task, q[u].task[t].kind = "Supervisor"
        PROVE  \E v \in 2..Len(rt) : q[v].up = u /\ q[v].slot = t
    <3>1. t \in DOMAIN rt[u].task /\ rt[u].task[t].kind = "Supervisor"
      BY <2>2
    <3>2. PICK v \in 2..Len(rt) : rt[v].up = u /\ rt[v].slot = t
      BY <3>1 DEF IInv, TreeOk, OneEach
    <3> QED BY <1>1, <3>2
  <2>3. \A v \in 2..Len(rt) : Over(q[q[v].up].task[q[v].slot]) <=> q[v].status # "running"
    BY <1>1
  <2> QED BY <1>1, <2>1, <2>2, <2>3 DEF OneEach, SlotOf
<1>7. InOrder'
  <2> SUFFICES ASSUME NEW u \in 2..Len(rt), NEW v \in 2..Len(rt),
                      u < v, q[u].up = q[v].up, q[u].node = q[v].node
               PROVE  q[u].slot < q[v].slot
    BY DEF InOrder
  <2> QED BY <1>1 DEF IInv, TreeOk, InOrder
<1>8. Obeys'
  <2> SUFFICES ASSUME NEW v \in 2..Len(rt), q[v].status = "running"
               PROVE  /\ q[q[v].up].task[q[v].slot].signal => Told(q[v])
                      /\ Asked(q[v]) => q[q[v].up].task[q[v].slot].signal
    BY DEF Obeys, SlotOf, Told, Asked, HasShutdown
  <2> QED BY <1>1
<1> QED BY <1>1, <1>2, <1>3, <1>4, <1>5, <1>6, <1>7, <1>8 DEF IInv, TreeOk
\* A task is told to stop, and aborted at once if its supervisor has no patience.
Signalled(p, now) == [p EXCEPT !.signal = @ \/ ~Over(p), !.abort = @ \/ (~Over(p) /\ now)]

LEMMA SignalIs ==
  ASSUME NEW r \in Runtime, NEW t \in DOMAIN r.task, NEW now \in BOOLEAN
  PROVE  LET p == r.task[t]
             e == Signalled(p, now)
             q == [r.task EXCEPT ![t] = e]
         IN  /\ q \in Seq(Task) /\ DOMAIN q = DOMAIN r.task
             /\ Forward(r.task, q)
             /\ q[t] = e /\ \A u \in DOMAIN r.task : u # t => q[u] = r.task[u]
             /\ e.kind = p.kind /\ e.id = p.id /\ (Over(e) <=> Over(p))
             /\ Over(p) => e = p
             /\ Over(e) \/ e.signal
<1> DEFINE p == r.task[t]
           e == Signalled(p, now)
           q == [r.task EXCEPT ![t] = e]
<1>1. p \in Task /\ Over(p) \in BOOLEAN
  BY RuntimeTypes DEF Over
<1>2. /\ e \in Task /\ e.kind = p.kind /\ e.id = p.id /\ e.pc = p.pc
      /\ (Over(p) \/ e.signal) /\ (p.signal => e.signal) /\ (p.abort => e.abort)
  BY <1>1 DEF Task, Signalled
<1>3. Over(p) => e = p
  BY <1>1 DEF Task, Signalled
<1> HIDE DEF e
<1>4. /\ q \in Seq(Task) /\ DOMAIN q = DOMAIN r.task /\ q[t] = e
      /\ \A u \in DOMAIN r.task : u # t => q[u] = r.task[u]
  BY <1>2, TaskPut
<1> HIDE DEF q
<1>5. Over(e) = Over(p)
  BY <1>2 DEF Over
<1>6. Forward(r.task, q)
  BY <1>2, <1>4, <1>5 DEF Forward, Loose
<1> QED BY <1>2, <1>3, <1>4, <1>5, <1>6 DEF e, q

\* The child next in line is told to stop: what that does to its supervisor.
LEMMA StopBegun ==
  ASSUME IInv, NEW s \in DOMAIN rt, Stopping(s), rt[s].work.stage = "next",
         rt[s].work.todo # <<>>,
         NEW now \in BOOLEAN,
         NEW stage \in {"wait", "join"}
  PROVE  LET r == rt[s]
             c == Head(r.work.todo)
             ts == [r.task EXCEPT ![c.task] = Signalled(r.task[c.task], now)]
             w == [r.work EXCEPT !.stage = stage]
             x == Edited(r, r.queue, r.children, w, r.tracked, ts)
         IN  /\ x \in Runtime /\ Sound(config.nodes, x)
             /\ x.queue = r.queue /\ x.work.op = r.work.op /\ x.task = ts
             /\ x.up = r.up /\ x.slot = r.slot /\ x.node = r.node /\ x.status = r.status
<1> DEFINE r == rt[s]
           c == Head(r.work.todo)
           p == r.task[c.task]
           e == Signalled(p, now)
           ts == [r.task EXCEPT ![c.task] = e]
           w == [r.work EXCEPT !.stage = stage]
           x == Edited(r, r.queue, r.children, w, r.tracked, ts)
<1>1. r \in Runtime /\ Sound(config.nodes, r)
  BY At1
<1>2. /\ Placed(config.nodes, r) /\ Controlled(r) /\ Followed(r) /\ Distinct(r) /\ Shaped(r)
      /\ Halted(r) /\ Unsignalled(r) /\ Addressed(r) /\ Unasked(r) /\ Awaited(r)
      /\ r.node \in DOMAIN config.nodes
  BY <1>1 DEF Sound
<1>3. /\ r.children \in Seq(Child) /\ r.queue \in Seq(Command) /\ r.tracked \in SUBSET Id
      /\ r.work.todo \in Seq(Child) /\ r.work \in Work
      /\ \A d \in HeldBy(r) : d \in Child /\ d.task \in DOMAIN r.task
           /\ r.task[d.task].id = d.id /\ r.task[d.task].kind = d.kind
      /\ SetOf(r.children) \subseteq Stays(r) /\ SetOf(r.work.back) \subseteq Stays(r)
      /\ SetOf(r.work.todo) \subseteq HeldBy(r) /\ Stays(r) \subseteq HeldBy(r)
  BY <1>1, HeldLists
<1>4. c \in SetOf(r.work.todo) /\ c \in HeldBy(r) /\ c.task \in DOMAIN r.task
  BY <1>1, <1>3, HeldLists
<1>5. /\ ts \in Seq(Task) /\ DOMAIN ts = DOMAIN r.task /\ Forward(r.task, ts)
      /\ ts[c.task] = e /\ \A u \in DOMAIN r.task : u # c.task => ts[u] = r.task[u]
      /\ Over(e) \/ e.signal
  BY <1>1, <1>4, SignalIs
<1>6. w \in Work /\ w.op = r.work.op /\ w.stage = stage /\ w.todo = r.work.todo /\ w.back = r.work.back
  BY <1>3 DEF Work
<1> HIDE DEF ts, w
<1>7. /\ x \in Runtime /\ x.queue = r.queue /\ x.children = r.children /\ x.work = w
      /\ x.task = ts /\ x.up = r.up /\ x.slot = r.slot /\ x.node = r.node
      /\ x.status = r.status /\ x.timers = r.timers
  BY <1>1, <1>3, <1>5, <1>6, EditedIs
<1> HIDE DEF x, e
<1>8. HeldBy(r) = HeldBy(x) /\ Stays(x) = Stays(r) /\ \A d : Excused(r, d) <=> Excused(x, d)
  BY <1>6, <1>7 DEF HeldBy, Stays, Excused
<1>9. Placed(config.nodes, x) /\ Controlled(x) /\ Followed(x)
  BY <1>2, <1>5, <1>7, <1>8, TasksKept
<1>10. Distinct(x)
  BY <1>2, <1>6, <1>7 DEF Distinct
<1>11. Shaped(x)
  BY <1>2, <1>6, <1>7 DEF Shaped
<1>12. Halted(x)
  <2>1. \A d \in HeldBy(r) : StoppedIn(r, d) => StoppedIn(x, d)
    BY <1>3, <1>5, <1>7, StoppedStays
  <2>2. c.kind = "Supervisor" => StoppedIn(x, c)
    BY <1>5, <1>7 DEF StoppedIn
  <2>3. Head(x.work.todo) = c
    BY <1>6, <1>7
  <2> HIDE DEF c
  <2> QED BY <1>2, <1>3, <1>6, <1>7, <2>1, <2>2, <2>3 DEF Halted
<1>13. ASSUME NEW d \in Stays(r), d.task = c.task
       PROVE  Excused(r, d)
  <2>1. d.id = c.id
    BY <1>3, <1>4, <1>13
  <2>2. r.work.op \in {"terminate", "one", "all", "from", "shutdown", "escalate"}
    BY DEF Stopping
  <2>3. CASE r.work.op \notin {"one", "all"}
    BY <1>2, <1>4, <1>13, <2>1, <2>3 DEF Distinct, Apart, Stays
  <2>4. CASE r.work.op = "all"
    BY <2>4 DEF Excused
  <2>5. CASE r.work.op = "one"
    <3>1. d \in SetOf(r.children) /\ c \in SetOf(r.children)
      <4>1. r.work.back = <<>>
        BY <1>2, <2>5 DEF Shaped
      <4> QED BY <1>2, <1>4, <1>13, <2>5, <4>1, Few DEF Distinct, Stays
    <3>2. PICK i \in DOMAIN r.children, j \in DOMAIN r.children :
            d = r.children[i] /\ c = r.children[j]
      BY <1>3, <3>1, SetOfIn
    <3>3. d = c
      BY <1>2, <2>1, <3>2 DEF Distinct, DistinctIds
    <3> QED BY <2>5, <3>3 DEF Excused
  <2> QED BY <2>3, <2>4, <2>5
<1>14. \A d \in Stays(x) : d.kind = "Supervisor" =>
         \/ /\ d \in Stays(r) /\ d.task \in DOMAIN r.task /\ (Excused(r, d) => Excused(x, d))
            /\ x.task[d.task] = r.task[d.task]
         \/ Excused(x, d)
  BY <1>3, <1>5, <1>7, <1>8, <1>13
<1>15. \A m \in r.timers : m.cmd = "RestartChild"
  BY <1>1, RuntimeTypes
<1>16. Unsignalled(x) /\ Addressed(x) /\ Unasked(x) /\ Awaited(x)
  BY <1>2, <1>5, <1>7, <1>14, <1>15, LettersKept, ZenonT(40)
<1>17. Sound(config.nodes, x)
  BY <1>2, <1>7, <1>9, <1>10, <1>11, <1>12, <1>16 DEF Sound
<1> QED BY <1>6, <1>7, <1>17, Zenon DEF x, w, ts, e
\* What stopping a child changes in its supervisor, one edit after the other.
ThreeEdits(r, t, g, b1, b2) ==
  [r EXCEPT !.work.stage = g, !.task[t].signal = @ \/ b1, !.task[t].abort = @ \/ b2]
AtStage(w, g) == [w EXCEPT !.stage = g]
WithTask(ts, t, e) == [ts EXCEPT ![t] = e]

LEMMA ThreeEditsAre ==
  ASSUME NEW r \in Runtime, NEW t \in DOMAIN r.task, NEW g, NEW now
  PROVE  ThreeEdits(r, t, g, ~Over(r.task[t]), ~Over(r.task[t]) /\ now)
           = Edited(r, r.queue, r.children, AtStage(r.work, g), r.tracked,
                    WithTask(r.task, t, Signalled(r.task[t], now)))
<1> DEFINE b1 == ~Over(r.task[t])
           b2 == b1 /\ now
<1> HIDE DEF b1, b2
<1> DEFINE A == [r EXCEPT !.work.stage = g]
           B == [A EXCEPT !.task[t].signal = @ \/ b1]
           C == [B EXCEPT !.task[t].abort = @ \/ b2]
           p == r.task[t]
           d == [p EXCEPT !.signal = @ \/ b1]
           e == [d EXCEPT !.abort = @ \/ b2]
           q == [r.task EXCEPT ![t] = d]
           w == [r.work EXCEPT !.stage = g]
<1>1. C = ThreeEdits(r, t, g, b1, b2)
  BY DEF ThreeEdits
<1>2. A = [r EXCEPT !.work = w]
  OBVIOUS
<1>3. A.task = r.task
  BY DEF Runtime
<1>4. B = [A EXCEPT !.task = q]
  BY <1>3
<1> HIDE DEF A
<1>5. "task" \in DOMAIN A
  BY DEF A, Runtime
<1>6. B.task = q /\ q[t] = d
  BY <1>4, <1>5
<1> HIDE DEF q
<1>7. C = [B EXCEPT !.task = [q EXCEPT ![t] = e]]
  BY <1>6
<1>8. [q EXCEPT ![t] = e] = [r.task EXCEPT ![t] = e]
  BY DEF q
<1> HIDE DEF d, e, w
<1>9. [B EXCEPT !.task = [q EXCEPT ![t] = e]] = [A EXCEPT !.task = [r.task EXCEPT ![t] = e]]
  BY <1>4, <1>8
<1>10. Edited(r, r.queue, r.children, w, r.tracked, [r.task EXCEPT ![t] = e])
         = [A EXCEPT !.task = [r.task EXCEPT ![t] = e]]
  BY <1>2 DEF Edited, Runtime
<1>11. Signalled(r.task[t], now) = e
  BY DEF e, d, Signalled, b1, b2
<1>12. WithTask(r.task, t, e) = [r.task EXCEPT ![t] = e]
  BY DEF WithTask
<1>13. AtStage(r.work, g) = w
  BY DEF AtStage, w
<1>14. C = Edited(r, r.queue, r.children, w, r.tracked, WithTask(r.task, t, e))
  BY <1>7, <1>9, <1>10, <1>12
<1> HIDE DEF C
<1> QED BY <1>1, <1>11, <1>13, <1>14 DEF b1, b2

\* The next child is told to stop; a nested supervisor is sent the message.
LEMMA BeginStopStep ==
  ASSUME IInv, NEW s \in DOMAIN rt, BeginStop(s)
  PROVE  IInv'
<1> DEFINE r == rt[s]
           c == Head(r.work.todo)
           p == r.task[c.task]
           now == c.kind = "Worker" /\ ~SpecOf(s).patient
           stage == IF now THEN "join" ELSE "wait"
           e == Signalled(p, now)
           ts == [r.task EXCEPT ![c.task] = e]
           w == [r.work EXCEPT !.stage = stage]
           x == Edited(r, r.queue, r.children, w, r.tracked, ts)
<1>1. r \in Runtime /\ Sound(config.nodes, r)
  BY At1
<1>2. Stopping(s) /\ r.work.stage = "next" /\ r.work.todo # <<>>
  BY DEF BeginStop
<1>3. now \in BOOLEAN /\ stage \in {"wait", "join"}
  <2>1. config.nodes[r.node].patient \in BOOLEAN
    <3>1. config.nodes[r.node] \in Node
      BY <1>1, Numbers, ElementOfSeq DEF Sound
    <3> QED BY <3>1 DEF Node
  <2> QED BY <2>1 DEF SpecOf
<1>4. c \in HeldBy(r) /\ c.task \in DOMAIN r.task /\ p.kind = c.kind
  BY <1>1, <1>2, HeldLists
<1>5. p \in Task /\ (Ended(s, c.task) <=> Over(p))
  BY <1>1, <1>4, RuntimeTypes DEF Ended, Over
<1>6. /\ x \in Runtime /\ Sound(config.nodes, x)
      /\ x.queue = r.queue /\ x.work.op = r.work.op /\ x.task = ts
      /\ x.up = r.up /\ x.slot = r.slot /\ x.node = r.node /\ x.status = r.status
  BY <1>2, <1>3, StopBegun, Zenon
<1>7. /\ DOMAIN ts = DOMAIN r.task
      /\ ts[c.task] = e /\ \A u \in DOMAIN r.task : u # c.task => ts[u] = r.task[u]
      /\ e.kind = p.kind /\ e.id = p.id /\ (Over(e) <=> Over(p))
      /\ (Over(p) => e = p) /\ (Over(e) \/ e.signal)
  BY <1>1, <1>3, <1>4, SignalIs, Zenon
<1>8. rt' = Tell(Put(s, x), s, c)
  <2>1. Ended(s, c.task) = Over(p)
    BY DEF Ended, Over
  <2>2. ThreeEdits(r, c.task, stage, ~Over(p), ~Over(p) /\ now)
          = Edited(r, r.queue, r.children, AtStage(r.work, stage), r.tracked,
                   WithTask(r.task, c.task, Signalled(p, now)))
    <3>1. r \in Runtime /\ c.task \in DOMAIN r.task
      BY <1>1, <1>4
    <3> HIDE DEF r, c, now, stage
    <3> QED BY <3>1, ThreeEditsAre
  <2>3. x = ThreeEdits(r, c.task, stage, ~Over(p), ~Over(p) /\ now)
    BY <2>2, SMTT(30) DEF AtStage, WithTask
  <2> HIDE DEF x
  <2> QED BY <2>1, <2>3, Zenon DEF BeginStop, ThreeEdits
<1>9. config' = config /\ RestTyped
  BY RestStays DEF BeginStop
<1> DEFINE q == Put(s, x)
           u == Nested(s, c.task)
           m == [cmd |-> "Shutdown"]
           y == Delivered(rt[u], m)
           told == c.kind = "Supervisor" /\ ~Over(p)
           f == IF told THEN [q EXCEPT ![u] = y] ELSE q
<1> HIDE DEF x, e, ts, w, now, stage
<1>10. /\ q \in Seq(Runtime) /\ DOMAIN q = DOMAIN rt /\ Len(q) = Len(rt)
       /\ q[s] = x /\ \A v \in DOMAIN rt : v # s => q[v] = rt[v]
  BY <1>6, PutIs DEF IInv, VarTypes
<1> HIDE DEF q
<1>11. ASSUME told
       PROVE  u \in 2..Len(rt) /\ u # s /\ rt[u].up = s /\ rt[u].slot = c.task
              /\ rt[u].status = "running"
  <2>1. r.task[c.task].kind = "Supervisor"
    BY <1>4, <1>11
  <2>2. PICK v \in 2..Len(rt) : rt[v].up = s /\ rt[v].slot = c.task
    BY <1>4, <2>1 DEF IInv, TreeOk, OneEach
  <2>3. u \in DOMAIN rt /\ rt[u].up = s /\ rt[u].slot = c.task
    BY <2>2, Slots DEF Nested
  <2>4. u # 1
    BY <2>3, Numbers DEF IInv, TreeOk
  <2>5. u \in 2..Len(rt)
    BY <2>3, <2>4, Numbers
  <2> HIDE DEF u
  <2>6. u # s /\ (Over(SlotOf(u)) <=> rt[u].status # "running") /\ SlotOf(u) = p
    BY <2>3, <2>5, Slots
  <2> QED BY <1>11, <2>3, <2>5, <2>6
<1> HIDE DEF u
<1>12. m \in Command
  BY DEF Command
<1>13. ASSUME told
       PROVE  /\ y \in Runtime /\ Sound(config.nodes, y) /\ HasShutdown(y)
              /\ y.up = rt[u].up /\ y.slot = rt[u].slot /\ y.node = rt[u].node
              /\ y.status = rt[u].status /\ y.task = rt[u].task
  <2>1. u \in DOMAIN rt /\ rt[u].status = "running"
    BY <1>11, <1>13, Numbers
  <2>2. rt[u] \in Runtime /\ Sound(config.nodes, rt[u])
    BY <2>1, At1
  <2> HIDE DEF m
  <2>3. /\ y \in Runtime
        /\ y.up = rt[u].up /\ y.slot = rt[u].slot /\ y.node = rt[u].node
        /\ y.status = rt[u].status /\ y.children = rt[u].children /\ y.work = rt[u].work
        /\ y.task = rt[u].task /\ y.timers = rt[u].timers
        /\ SetOf(y.queue) = SetOf(rt[u].queue) \cup {m}
    BY <1>12, <2>1, <2>2, DeliveredIs
  <2>4. m.cmd = "Shutdown"
    BY DEF m
  <2>5. Forward(rt[u].task, y.task) /\ SameNested(rt[u].task, y.task)
        /\ SameWork(rt[u].work, y.work)
    BY <2>3, ForwardSame DEF SameWork
  <2> HIDE DEF y
  <2>6. Sound(config.nodes, y)
    BY <2>2, <2>3, <2>4, <2>5, MovesSound DEF About
  <2> QED BY <2>3, <2>4, <2>6 DEF HasShutdown
<1>14. rt' = f
  <2>1. ASSUME told PROVE q[u] = rt[u]
    BY <1>10, <1>11, <2>1, Numbers
  <2>2. rt' = IF c.kind = "Supervisor" /\ ~Ended(s, c.task)
              THEN [q EXCEPT ![u] = Delivered(@, [cmd |-> "Shutdown"])] ELSE q
    BY <1>8 DEF Tell, q, u
  <2>3. CASE told
    BY <1>5, <2>1, <2>2, <2>3
  <2>4. CASE ~told
    BY <1>5, <2>2, <2>4
  <2> QED BY <2>3, <2>4
<1> HIDE DEF y, m
<1>15. /\ f \in Seq(Runtime) /\ Len(f) = Len(rt) /\ f[s] = x
       /\ told => f[u] = y
       /\ \A v \in DOMAIN rt : v # s /\ (told => v # u) => f[v] = rt[v]
  <2>1. CASE told
    <3>1. u \in DOMAIN rt /\ u # s
      BY <1>11, <2>1, Numbers
    <3>2. LET g == [q EXCEPT ![u] = y] IN
          /\ g \in Seq(Runtime) /\ DOMAIN g = DOMAIN q /\ Len(g) = Len(q)
          /\ g[u] = y /\ \A v \in DOMAIN q : v # u => g[v] = q[v]
      BY <1>10, <1>13, <2>1, <3>1, Replaced
    <3> HIDE DEF told
    <3> QED BY <1>10, <2>1, <3>1, <3>2
  <2>2. CASE ~told
    BY <1>10, <2>2
  <2> QED BY <2>1, <2>2
<1> HIDE DEF f, told
<1>16. ASSUME NEW v \in DOMAIN rt
       PROVE  /\ Sound(config.nodes, f[v])
              /\ f[v].up = rt[v].up /\ f[v].slot = rt[v].slot /\ f[v].node = rt[v].node
              /\ f[v].status = rt[v].status
              /\ DOMAIN f[v].task = DOMAIN rt[v].task
              /\ \A t \in DOMAIN rt[v].task :
                   /\ f[v].task[t].kind = rt[v].task[t].kind
                   /\ f[v].task[t].id = rt[v].task[t].id
                   /\ Over(f[v].task[t]) <=> Over(rt[v].task[t])
                   /\ f[v].task[t] = rt[v].task[t] \/ (v = s /\ t = c.task)
              /\ Told(rt[v]) => Told(f[v])
              /\ Asked(f[v]) => Asked(rt[v]) \/ (told /\ v = u)
  <2>1. CASE v = s
    BY <1>6, <1>7, <1>15, <2>1 DEF Told, Asked, HasShutdown
  <2>2. CASE told /\ v = u
    BY <1>13, <1>15, <2>2 DEF Told
  <2>3. CASE v # s /\ (told => v # u)
    BY <1>15, <2>3, At1
  <2> QED BY <2>1, <2>2, <2>3, SMTT(30)
<1>17. ASSUME NEW v \in 2..Len(rt)
       PROVE  LET d == f[rt[v].up].task[rt[v].slot] IN
              /\ Over(d) <=> f[v].status # "running"
              /\ f[v].status = "running" => (d.signal => Told(f[v])) /\ (Asked(f[v]) => d.signal)
  <2>1. /\ v \in DOMAIN rt /\ rt[v].up \in DOMAIN rt /\ rt[v].slot \in DOMAIN rt[rt[v].up].task
        /\ SlotOf(v) = rt[rt[v].up].task[rt[v].slot] /\ SlotOf(v).kind = "Supervisor"
        /\ Over(SlotOf(v)) <=> rt[v].status # "running"
        /\ rt[v].status = "running" =>
             (SlotOf(v).signal => Told(rt[v])) /\ (Asked(rt[v]) => SlotOf(v).signal)
    BY Slots
  <2>2. CASE f[rt[v].up].task[rt[v].slot] = SlotOf(v) /\ ~(told /\ v = u)
    BY <1>16, <2>1, <2>2
  <2>3. CASE rt[v].up = s /\ rt[v].slot = c.task
    <3>1. c.kind = "Supervisor" /\ SlotOf(v) = p
      BY <1>4, <2>1, <2>3
    <3>2. CASE told
      <4>1. v = u
        BY <1>11, <2>3, <3>2, SMTT(30) DEF IInv, TreeOk, OneEach
      <4>2. f[rt[v].up].task[rt[v].slot] = e /\ e.signal /\ ~Over(e)
        BY <1>6, <1>7, <1>15, <2>3, <3>2 DEF told
      <4>3. Told(f[v])
        BY <1>13, <1>15, <3>2, <4>1 DEF Told
      <4>4. f[v].status = "running"
        BY <1>11, <1>13, <1>15, <3>2, <4>1
      <4> QED BY <4>2, <4>3, <4>4
    <3>3. CASE ~told
      <4>1. Over(p)
        BY <3>1, <3>3, SMTT(30) DEF told
      <4>2. rt[v].status # "running"
        BY <2>1, <3>1, <4>1
      <4>3. f[rt[v].up].task[rt[v].slot] = SlotOf(v)
        BY <1>6, <1>7, <1>15, <2>3, <3>1, <4>1, Zenon
      <4> QED BY <1>16, <2>1, <4>2, <4>3
    <3> QED BY <3>2, <3>3
  <2>4. CASE told /\ v = u
    BY <1>11, <2>3, <2>4
  <2> QED BY <1>16, <2>1, <2>2, <2>3, <2>4
<1> QED BY <1>9, <1>14, <1>15, <1>16, <1>17, TreeKept, SMTT(30)
\* A nested runtime returns: what that does to its parent.
LEMMA ParentTold ==
  ASSUME IInv, NEW s \in 2..Len(rt), NEW reason \in {"Shutdown", "Abnormal"},
         reason = "Shutdown" => SlotOf(s).signal
  PROVE  LET r == rt[rt[s].up]
             z == ReportedUp(s, reason)
         IN  /\ z \in Runtime /\ Sound(config.nodes, z)
             /\ z.up = r.up /\ z.slot = r.slot /\ z.node = r.node /\ z.status = r.status
             /\ z.work = r.work /\ (HasShutdown(z) <=> HasShutdown(r))
             /\ z.task = [r.task EXCEPT ![rt[s].slot] = EndedTask(rt[s].up, rt[s].slot, "done")]
<1> DEFINE p == rt[s].up
           t == rt[s].slot
           r == rt[p]
           e == EndedTask(p, t, "done")
           m == [cmd |-> "ChildTerminated", id |-> rt[p].task[t].id, reason |-> reason, by |-> t]
           g == TaskSet(r, t, e)
           y == Delivered(g, m)
           z == ReportedUp(s, reason)
<1>1. /\ p \in DOMAIN rt /\ t \in DOMAIN r.task /\ SlotOf(s) = r.task[t]
      /\ r.task[t].kind = "Supervisor"
  BY Slots
<1>2. r \in Runtime /\ Sound(config.nodes, r)
  BY <1>1, At1
<1>3. e \in Task /\ Over(e) /\ e.kind = r.task[t].kind /\ e.id = r.task[t].id /\ ~e.signal
  <2>1. e \in Task /\ Over(e) /\ e.kind = r.task[t].kind /\ e.id = r.task[t].id
    <3>1. "done" \in Ends
      BY DEF Ends
    <3> QED BY <1>1, <1>2, <3>1, EndedIs
  <2>2. ~e.signal
    BY DEF EndedTask, NewTask
  <2> QED BY <2>1, <2>2
<1>4. m \in Command
  <2>1. r.task[t] \in Task /\ t \in Nat
    BY <1>1, <1>2, RuntimeTypes
  <2>2. r.task[t].id \in Id /\ reason \in Reason
    BY <2>1 DEF Task, Reason
  <2> QED BY <2>1, <2>2 DEF Command
<1>5. m.cmd = "ChildTerminated" /\ m.by = t /\ m.id = r.task[t].id /\ m.reason = reason
  OBVIOUS
<1>6. z = y \/ z = Faulted(y)
  BY Zenon DEF ReportedUp, Reported, Faulted, TaskSet
<1> HIDE DEF e
<1>7. /\ g \in Runtime /\ g.work = r.work
      /\ g.up = r.up /\ g.slot = r.slot /\ g.node = r.node /\ g.status = r.status
      /\ g.children = r.children /\ g.timers = r.timers /\ g.queue = r.queue
      /\ g.task = [r.task EXCEPT ![t] = e]
  BY <1>1, <1>2, <1>3, TaskSetIs
<1> HIDE DEF g, m
<1>8. /\ y \in Runtime /\ y.work = r.work
      /\ y.up = r.up /\ y.slot = r.slot /\ y.node = r.node /\ y.status = r.status
      /\ y.children = r.children /\ y.timers = r.timers
      /\ y.task = [r.task EXCEPT ![t] = e]
      /\ SetOf(y.queue) = IF r.status = "running" THEN SetOf(r.queue) \cup {m} ELSE SetOf(r.queue)
  <2>1. /\ y \in Runtime
        /\ y.up = g.up /\ y.slot = g.slot /\ y.node = g.node /\ y.status = g.status
        /\ y.children = g.children /\ y.work = g.work /\ y.task = g.task /\ y.timers = g.timers
        /\ SetOf(y.queue) = IF g.status = "running" THEN SetOf(g.queue) \cup {m} ELSE SetOf(g.queue)
    BY <1>4, <1>7, DeliveredIs
  <2> HIDE DEF y
  <2> QED BY <1>7, <2>1
<1> HIDE DEF y
<1>9. /\ z \in Runtime /\ z.work = r.work
      /\ z.up = r.up /\ z.slot = r.slot /\ z.node = r.node /\ z.status = r.status
      /\ z.children = r.children /\ z.timers = r.timers
      /\ z.task = [r.task EXCEPT ![t] = e]
      /\ SetOf(z.queue) = IF r.status = "running" THEN SetOf(r.queue) \cup {m} ELSE SetOf(r.queue)
  BY <1>6, <1>8, FaultedIs
<1> HIDE DEF z, r, t, p
<1>10. /\ DOMAIN z.task = DOMAIN r.task /\ z.task[t] = e
       /\ \A u \in DOMAIN r.task : u # t => z.task[u] = r.task[u]
  BY <1>1, <1>2, <1>3, <1>9, TaskPut
<1>11. Forward(r.task, z.task)
  BY <1>3, <1>10 DEF Forward, Loose
<1>12. /\ Placed(config.nodes, r) /\ Controlled(r) /\ Followed(r) /\ Distinct(r) /\ Shaped(r)
       /\ Halted(r) /\ Unsignalled(r) /\ Addressed(r) /\ Unasked(r) /\ Awaited(r)
       /\ r.node \in DOMAIN config.nodes
  BY <1>2 DEF Sound
<1>13. /\ HeldBy(z) = HeldBy(r) /\ Stays(z) = Stays(r)
       /\ \A d : Excused(r, d) <=> Excused(z, d)
  BY <1>9 DEF HeldBy, Stays, Excused
<1>14. Placed(config.nodes, z) /\ Controlled(z) /\ Followed(z)
  BY <1>9, <1>10, <1>11, <1>12, <1>13, TasksKept
<1>15. Distinct(z) /\ Shaped(z)
  BY <1>9, <1>12 DEF Distinct, Shaped
<1>16. /\ \A d \in HeldBy(r) : d.task \in DOMAIN r.task /\ r.task[d.task].kind = d.kind
       /\ SetOf(r.children) \subseteq HeldBy(r) /\ SetOf(r.work.todo) \subseteq HeldBy(r)
       /\ Stays(r) \subseteq HeldBy(r)
       /\ r.work.todo # <<>> => Head(r.work.todo) \in HeldBy(r)
  BY <1>2, HeldLists
<1>17. Halted(z)
  <2>1. \A d \in HeldBy(r) : StoppedIn(r, d) => StoppedIn(z, d)
    BY <1>11, <1>16, StoppedStays
  <2>2. r.work.stage # "next" => r.work.todo # <<>>
    BY <1>12 DEF Shaped
  <2> QED BY <1>9, <1>12, <1>16, <2>1, <2>2 DEF Halted
<1>18. Unsignalled(z) /\ Addressed(z) /\ Unasked(z) /\ Awaited(z)
  <2>1. \A d \in Stays(z) : d.kind = "Supervisor" =>
           /\ d \in Stays(r) /\ d.task \in DOMAIN r.task /\ (Excused(r, d) => Excused(z, d))
           /\ \/ z.task[d.task] = r.task[d.task]
              \/ /\ ~z.task[d.task].signal
                 /\ z.status = "running" =>
                      \E n \in SetOf(z.queue) : n.cmd \in About /\ n.by = d.task
    <3> SUFFICES ASSUME NEW d \in Stays(r), d.kind = "Supervisor"
                 PROVE  \/ z.task[d.task] = r.task[d.task]
                        \/ /\ ~z.task[d.task].signal
                           /\ z.status = "running" =>
                                \E n \in SetOf(z.queue) : n.cmd \in About /\ n.by = d.task
      BY <1>13, <1>16
    <3>1. d.task \in DOMAIN r.task
      BY <1>16
    <3>2. CASE d.task = t
      <4>1. ~z.task[d.task].signal
        BY <1>3, <1>10, <3>2
      <4>2. z.status = "running" => m \in SetOf(z.queue)
        BY <1>9
      <4> QED BY <1>5, <3>2, <4>1, <4>2 DEF About
    <3> QED BY <1>10, <3>1, <3>2
  <2>2. \A d \in Stays(z) : d.kind = "Supervisor" /\ d.task = t =>
          ~IsOwnDoing(reason) \/ Excused(z, d)
    <3>1. reason = "Shutdown" => r.task[t].signal
      BY <1>1
    <3> QED BY <1>12, <1>13, <3>1 DEF Unsignalled, IsOwnDoing
  <2>3. \A n \in SetOf(z.queue) :
           \/ n \in SetOf(r.queue)
           \/ /\ n.cmd = "ChildTerminated" /\ n.by \in DOMAIN r.task /\ n.id = r.task[n.by].id
              /\ \A d \in Stays(z) : d.kind = "Supervisor" /\ d.task = n.by =>
                   ~IsOwnDoing(n.reason) \/ Excused(z, d)
    BY <1>1, <1>5, <1>9, <2>2
  <2>4. \A n \in r.timers : n.cmd = "RestartChild"
    BY <1>2, RuntimeTypes
  <2>5. \A n \in SetOf(r.queue) \cup r.timers : n.cmd \in About =>
           \/ \E k \in SetOf(z.queue) : k.cmd \in About /\ k.by = n.by
           \/ \E k \in z.timers : k.by = n.by
    BY <1>9
  <2>6. \A n \in z.timers : n \in r.timers
    BY <1>9
  <2>7. z.status = "running" => r.status = "running"
    BY <1>9
  <2> QED BY <1>11, <1>12, <2>1, <2>3, <2>4, <2>5, <2>6, <2>7, LettersKept
<1>19. Sound(config.nodes, z)
  BY <1>9, <1>12, <1>14, <1>15, <1>17, <1>18 DEF Sound
<1>20. HasShutdown(z) <=> HasShutdown(r)
  BY <1>5, <1>9 DEF HasShutdown
<1> QED BY <1>9, <1>19, <1>20 DEF z, e, r, t, p
\* A runtime that has stopped all its children.
LEMMA StoppedSound ==
  ASSUME IInv, NEW s \in DOMAIN rt, rt[s].work.op \in {"shutdown", "escalate"},
         rt[s].work.todo = <<>>, NEW reason \in {"Shutdown", "Abnormal"}
  PROVE  LET x == [rt[s] EXCEPT !.status = reason, !.queue = <<>>, !.work = Idle] IN
         /\ x \in Runtime /\ Sound(config.nodes, x)
         /\ x.up = rt[s].up /\ x.slot = rt[s].slot /\ x.node = rt[s].node /\ x.status = reason
         /\ x.task = rt[s].task
<1> DEFINE r == rt[s]
           x == [r EXCEPT !.status = reason, !.queue = <<>>, !.work = Idle]
<1>1. r \in Runtime /\ Sound(config.nodes, r)
  BY At1
<1>2. r.children = <<>> /\ r.work.back = <<>>
  BY <1>1 DEF Sound, Shaped
<1>3. /\ x \in Runtime /\ x.queue = <<>> /\ x.children = <<>> /\ x.work = Idle
      /\ x.task = r.task /\ x.timers = r.timers
      /\ x.up = r.up /\ x.slot = r.slot /\ x.node = r.node /\ x.status = reason
  <2>1. <<>> \in Seq(Command) /\ Idle \in Work
    BY IdleIs
  <2> QED BY <1>1, <1>2, <2>1 DEF Runtime
<1> HIDE DEF x
<1>4. HeldBy(r) = {} /\ HeldBy(x) = {} /\ Stays(x) = {} /\ SetOf(x.queue) = {}
  BY <1>2, <1>3, IdleIs, Few DEF HeldBy, Stays
<1>5. \A t \in DOMAIN r.task : ~Loose(r.task[t])
  BY <1>1, <1>4 DEF Sound, Controlled
<1>6. Placed(config.nodes, x) /\ Controlled(x) /\ Followed(x)
  BY <1>3, <1>4, <1>5 DEF Placed, Controlled, Followed
<1>7. Distinct(x) /\ Shaped(x) /\ Halted(x)
  BY <1>3, IdleIs, Few DEF Distinct, Shaped, Halted
<1>8. Unsignalled(x) /\ Unasked(x) /\ Awaited(x)
  BY <1>4 DEF Unsignalled, Unasked, Awaited
<1>9. Addressed(x)
  BY <1>1, <1>3, <1>4 DEF Sound, Addressed
<1>10. Sound(config.nodes, x)
  BY <1>1, <1>3, <1>6, <1>7, <1>8, <1>9 DEF Sound
<1> QED BY <1>3, <1>10 DEF x

\* A runtime returns, and its parent is told why.
LEMMA ExitStep ==
  ASSUME IInv, NEW s \in DOMAIN rt, Exit(s)
  PROVE  IInv'
<1> DEFINE r == rt[s]
           reason == IF r.work.op = "shutdown" THEN "Shutdown" ELSE "Abnormal"
           x == [r EXCEPT !.status = reason, !.queue = <<>>, !.work = Idle]
           z == ReportedUp(s, reason)
           q == Put(s, x)
           f == IF r.up = 0 THEN q ELSE [q EXCEPT ![r.up] = z]
<1>1. r.work.op \in {"shutdown", "escalate"} /\ r.work.todo = <<>>
  BY DEF Exit
<1>2. /\ x \in Runtime /\ Sound(config.nodes, x)
      /\ x.up = r.up /\ x.slot = r.slot /\ x.node = r.node /\ x.status = reason
      /\ x.task = r.task
  BY <1>1, StoppedSound, Zenon
<1>3. rt' = f
  BY DEF Exit
<1>4. config' = config /\ RestTyped
  <2>1. "ShuttingDown" \in Answer
    BY DEF Answer
  <2>2. /\ config' = config /\ UNCHANGED store /\ UNCHANGED bounds
        /\ UNCHANGED answer \/ \E clients : answer' = Answered(clients, "ShuttingDown")
    BY DEF Exit
  <2> QED BY <2>1, <2>2, RestStays
<1>5. r.status = "running"
  <2>1. r \in Runtime /\ Shaped(r)
    BY At1 DEF Sound
  <2> QED BY <1>1, <2>1 DEF Shaped
<1> HIDE DEF x
<1>6. /\ q \in Seq(Runtime) /\ DOMAIN q = DOMAIN rt /\ Len(q) = Len(rt)
      /\ q[s] = x /\ \A v \in DOMAIN rt : v # s => q[v] = rt[v]
  BY <1>2, PutIs DEF IInv, VarTypes
<1> HIDE DEF q
<1>7. reason \in {"Shutdown", "Abnormal"}
  OBVIOUS
<1>8. CASE r.up = 0
  <2>1. s = 1
    <3>1. s \notin 2..Len(rt)
      BY <1>8, Slots
    <3> QED BY <3>1, Numbers
  <2>2. f = q
    BY <1>8
  <2> HIDE DEF f, r, reason
  <2>3. ASSUME NEW v \in DOMAIN rt
        PROVE  /\ Sound(config.nodes, q[v])
               /\ q[v].up = rt[v].up /\ q[v].slot = rt[v].slot /\ q[v].node = rt[v].node
               /\ q[v].task = rt[v].task
    <3>1. CASE v = s
      BY <1>2, <1>6, <3>1 DEF r
    <3>2. CASE v # s
      BY <1>6, <3>2, At1
    <3> QED BY <3>1, <3>2
  <2>4. ASSUME NEW v \in 2..Len(rt)
        PROVE  LET e == q[rt[v].up].task[rt[v].slot] IN
               /\ Over(e) <=> q[v].status # "running"
               /\ q[v].status = "running" => (e.signal => Told(q[v])) /\ (Asked(q[v]) => e.signal)
    <3>1. v \in DOMAIN rt /\ rt[v].up \in DOMAIN rt /\ v # s
      BY <2>1, Slots
    <3>2. q[v] = rt[v] /\ q[rt[v].up].task = rt[rt[v].up].task
      BY <1>6, <2>3, <3>1
    <3>3. /\ SlotOf(v) = rt[rt[v].up].task[rt[v].slot]
          /\ Over(SlotOf(v)) <=> rt[v].status # "running"
          /\ rt[v].status = "running" =>
               (SlotOf(v).signal => Told(rt[v])) /\ (Asked(rt[v]) => SlotOf(v).signal)
      BY Slots
    <3> QED BY <3>2, <3>3
  <2> QED BY <1>3, <1>4, <1>6, <2>2, <2>3, <2>4, TreeKept
<1>9. CASE r.up # 0
  <2> DEFINE p == r.up
             e == EndedTask(p, r.slot, "done")
  <2>1. s \in 2..Len(rt)
    <3>1. s # 1
      BY <1>9 DEF IInv, TreeOk
    <3> QED BY <3>1, Numbers
  <2>2. /\ p \in DOMAIN rt /\ p # s /\ r.slot \in DOMAIN rt[p].task
        /\ SlotOf(s) = rt[p].task[r.slot] /\ SlotOf(s).kind = "Supervisor"
        /\ Asked(r) => SlotOf(s).signal
    BY <1>5, <2>1, Slots
  <2>3. /\ z \in Runtime /\ Sound(config.nodes, z)
        /\ z.up = rt[p].up /\ z.slot = rt[p].slot /\ z.node = rt[p].node
        /\ z.status = rt[p].status
        /\ z.work = rt[p].work /\ (HasShutdown(z) <=> HasShutdown(rt[p]))
        /\ z.task = [rt[p].task EXCEPT ![r.slot] = e]
    <3>1. reason = "Shutdown" => SlotOf(s).signal
      BY <1>1, <2>2 DEF Asked
    <3> QED BY <1>7, <2>1, <3>1, ParentTold
  <2>4. /\ e \in Task /\ Over(e) /\ e.kind = rt[p].task[r.slot].kind
        /\ e.id = rt[p].task[r.slot].id
    <3>1. "done" \in Ends
      BY DEF Ends
    <3> QED BY <2>2, <3>1, At1, EndedIs
  <2>5. f = [q EXCEPT ![p] = z]
    BY <1>9
  <2> HIDE DEF z, e, reason
  <2>6. /\ DOMAIN z.task = DOMAIN rt[p].task /\ z.task[r.slot] = e
        /\ \A t \in DOMAIN rt[p].task : t # r.slot => z.task[t] = rt[p].task[t]
    BY <2>2, <2>3, <2>4, At1, TaskPut
  <2> HIDE DEF f
  <2>7. /\ f \in Seq(Runtime) /\ Len(f) = Len(rt) /\ f[s] = x /\ f[p] = z
        /\ \A v \in DOMAIN rt : v # s /\ v # p => f[v] = rt[v]
    <3>1. LET g == [q EXCEPT ![p] = z] IN
          /\ g \in Seq(Runtime) /\ DOMAIN g = DOMAIN q /\ Len(g) = Len(q)
          /\ g[p] = z /\ \A v \in DOMAIN q : v # p => g[v] = q[v]
      BY <1>6, <2>2, <2>3, Replaced
    <3> QED BY <1>6, <2>2, <2>5, <3>1
  <2>8. ASSUME NEW v \in DOMAIN rt
        PROVE  /\ Sound(config.nodes, f[v])
               /\ f[v].up = rt[v].up /\ f[v].slot = rt[v].slot /\ f[v].node = rt[v].node
               /\ DOMAIN f[v].task = DOMAIN rt[v].task
               /\ \A t \in DOMAIN rt[v].task :
                    /\ f[v].task[t].kind = rt[v].task[t].kind
                    /\ f[v].task[t].id = rt[v].task[t].id
                    /\ f[v].task[t] = rt[v].task[t] \/ (v = p /\ t = r.slot)
               /\ v # s => /\ f[v].status = rt[v].status
                           /\ Told(rt[v]) <=> Told(f[v])
                           /\ Asked(f[v]) <=> Asked(rt[v])
    <3>1. CASE v = s
      BY <1>2, <2>7, <3>1
    <3>2. CASE v = p
      BY <2>3, <2>4, <2>6, <2>7, <3>2 DEF Told, Asked
    <3>3. CASE v # s /\ v # p
      BY <2>7, <3>3, At1
    <3> QED BY <3>1, <3>2, <3>3
  <2>9. ASSUME NEW v \in 2..Len(rt)
        PROVE  LET d == f[rt[v].up].task[rt[v].slot] IN
               /\ Over(d) <=> f[v].status # "running"
               /\ f[v].status = "running" => (d.signal => Told(f[v])) /\ (Asked(f[v]) => d.signal)
    <3>1. /\ v \in DOMAIN rt /\ rt[v].up \in DOMAIN rt /\ rt[v].slot \in DOMAIN rt[rt[v].up].task
          /\ SlotOf(v) = rt[rt[v].up].task[rt[v].slot]
          /\ Over(SlotOf(v)) <=> rt[v].status # "running"
          /\ rt[v].status = "running" =>
               (SlotOf(v).signal => Told(rt[v])) /\ (Asked(rt[v]) => SlotOf(v).signal)
      BY Slots
    <3>2. CASE v = s
      <4>1. f[rt[v].up].task[rt[v].slot] = e
        BY <2>6, <2>7, <3>2
      <4>2. f[v].status # "running"
        BY <1>2, <1>7, <2>7, <3>2
      <4> QED BY <2>4, <4>1, <4>2
    <3>3. CASE v # s
      <4>1. ~(rt[v].up = p /\ rt[v].slot = r.slot)
        BY <2>1, <3>3 DEF IInv, TreeOk, OneEach
      <4>2. f[rt[v].up].task[rt[v].slot] = SlotOf(v)
        BY <2>8, <3>1, <4>1
      <4> QED BY <2>8, <3>1, <3>3, <4>2
    <3> QED BY <3>2, <3>3
  <2> QED BY <1>3, <1>4, <2>7, <2>8, <2>9, TreeKept
<1> QED BY <1>8, <1>9

(***************************************************************************)
(* Starting: a task that is spawned, and the subtree of runtimes it runs.  *)
(***************************************************************************)

\* A task that is started.
LEMMA NewTaskIs ==
  ASSUME NEW c, c.id \in Id, c.kind \in Kind, NEW linked \in BOOLEAN
  PROVE  LET e == NewTask(c, linked) IN
         /\ e \in Task /\ e.id = c.id /\ e.kind = c.kind
         /\ ~e.signal /\ ~Over(e) /\ Loose(e)
<1> DEFINE e == NewTask(c, linked)
<1>1. /\ e.id = c.id /\ e.kind = c.kind /\ e.linked = linked
      /\ e.pc = IF c.kind = "Worker" THEN "init" ELSE "run"
      /\ e.signal = FALSE /\ e.abort = FALSE /\ e.reason = "Normal"
  BY DEF NewTask
<1>2. e \in Task
  BY DEF NewTask, Task, Pc, Reason
<1> HIDE DEF e
<1>3. ~Over(e)
  BY <1>1 DEF Over, Ends
<1> QED BY <1>1, <1>2, <1>3 DEF Loose, e

\* One more task.
LEMMA OneMore ==
  ASSUME NEW p \in Seq(Task), NEW e \in Task
  PROVE  LET q == Append(p, e) IN
         /\ q \in Seq(Task) /\ Len(p) \in Nat /\ DOMAIN p = 1..Len(p)
         /\ DOMAIN q = 1..(Len(p) + 1)
         /\ q[Len(p) + 1] = e /\ \A t \in DOMAIN p : t \in DOMAIN q /\ q[t] = p[t]
         /\ Forward(p, q) /\ SameNested(p, q)
<1> DEFINE q == Append(p, e)
<1>1. /\ q \in Seq(Task) /\ Len(p) \in Nat /\ DOMAIN p = 1..Len(p)
      /\ Len(q) = Len(p) + 1 /\ DOMAIN q = 1..Len(q)
      /\ q[Len(p) + 1] = e /\ \A t \in 1..Len(p) : q[t] = p[t]
  BY AppendProperties, LenProperties
<1> HIDE DEF q
<1>2. \A t \in DOMAIN p : t \in DOMAIN q /\ q[t] = p[t]
  BY <1>1
<1>3. Forward(p, q) /\ SameNested(p, q)
  BY <1>2 DEF Forward, SameNested
<1> QED BY <1>1, <1>2, <1>3 DEF q

\* A child c is started by r, which from then on holds it as d: the other tasks
\* of that id are those of a child that was stopped.
LEMMA SpawnSound ==
  ASSUME NEW nodes, NEW r \in Runtime, NEW x \in Runtime, Sound(nodes, r),
         NEW e \in Task, Loose(e), NEW d,
         r.status = "running", x.status = r.status, x.node = r.node, x.timers = r.timers,
         x.task = Append(r.task, e), d.task = Len(r.task) + 1, d.id = e.id, d.kind = e.kind,
         Distinct(x), Shaped(x), Halted(x),
         d \in HeldBy(x), HeldBy(x) \subseteq HeldBy(r) \cup {d},
         \A b \in HeldBy(r) : b \in HeldBy(x) \/ ~Loose(r.task[b.task]),
         e.kind = "Supervisor" =>
           /\ e.id \in NestedIds(nodes, r.node)
           /\ \A b \in HeldBy(r) : b.id = e.id => ~Loose(r.task[b.task]),
         SetOf(x.queue) \subseteq SetOf(r.queue),
         \A m \in SetOf(r.queue) : m.cmd \in About => m \in SetOf(x.queue),
         \A b \in Stays(x) : b.kind = "Supervisor" =>
           b = d \/ (b \in Stays(r) /\ (Excused(r, b) => Excused(x, b)))
  PROVE  Sound(nodes, x)
<1> DEFINE n == Len(r.task)
<1>1. /\ Placed(nodes, r) /\ Controlled(r) /\ Followed(r)
      /\ Unsignalled(r) /\ Addressed(r) /\ Unasked(r) /\ Awaited(r) /\ r.node \in DOMAIN nodes
  BY DEF Sound
<1>2. /\ n \in Nat /\ DOMAIN r.task = 1..n /\ DOMAIN x.task = 1..(n + 1)
      /\ x.task[n + 1] = e
      /\ \A t \in DOMAIN r.task : t \in DOMAIN x.task /\ x.task[t] = r.task[t]
      /\ Forward(r.task, x.task) /\ SameNested(r.task, x.task)
  <2>1. r.task \in Seq(Task)
    BY RuntimeTypes
  <2> QED BY <2>1, OneMore
<1> HIDE DEF n
<1>3. d.task = n + 1 /\ d.task \in DOMAIN x.task /\ d.task \notin DOMAIN r.task
  BY <1>2 DEF n
<1>4. Placed(nodes, x)
  BY <1>1, <1>2, <1>3 DEF Placed
<1>5. Controlled(x)
  <2> SUFFICES ASSUME NEW t \in DOMAIN x.task, Loose(x.task[t])
               PROVE  \E b \in HeldBy(x) : b.task = t
    BY DEF Controlled
  <2>1. CASE t = n + 1
    BY <1>3, <2>1
  <2>2. CASE t # n + 1
    <3>1. t \in DOMAIN r.task /\ Loose(r.task[t])
      BY <1>2, <2>2
    <3> QED BY <1>1, <3>1 DEF Controlled
  <2> QED BY <2>1, <2>2
<1>6. Followed(x)
  <2> SUFFICES ASSUME NEW t \in DOMAIN x.task, NEW u \in DOMAIN x.task, t < u,
                      x.task[t].id = x.task[u].id,
                      x.task[t].kind = "Supervisor", x.task[u].kind = "Supervisor",
                      Loose(x.task[t])
               PROVE  FALSE
    BY DEF Followed
  <2>1. t \in DOMAIN r.task
    BY <1>2
  <2>2. x.task[t] = r.task[t]
    BY <1>2, <2>1
  <2>3. CASE u \in DOMAIN r.task
    <3>1. x.task[u] = r.task[u]
      BY <1>2, <2>3
    <3> QED BY <1>1, <2>1, <2>2, <2>3, <3>1 DEF Followed
  <2>4. CASE u \notin DOMAIN r.task
    <3>1. u = n + 1
      BY <1>2, <2>4
    <3>2. PICK b \in HeldBy(r) : b.task = t
      BY <1>1, <2>1, <2>2 DEF Controlled
    <3>3. b.id = e.id
      BY <1>1, <1>2, <2>1, <2>2, <3>1, <3>2 DEF Placed
    <3> QED BY <1>2, <2>2, <3>1, <3>2, <3>3
  <2> QED BY <2>3, <2>4
<1>7. \A b \in Stays(x) : b.kind = "Supervisor" =>
        \/ /\ b \in Stays(r) /\ b.task \in DOMAIN r.task /\ (Excused(r, b) => Excused(x, b))
           /\ x.task[b.task] = r.task[b.task]
        \/ b.task \notin DOMAIN r.task /\ Loose(x.task[b.task])
              /\ x.task[b.task].kind = "Supervisor"
  <2>1. \A b \in Stays(r) : b.task \in DOMAIN r.task
    BY <1>1 DEF Placed, HeldBy
  <2> QED BY <1>2, <1>3, <2>1
<1>8. \A m \in r.timers : m.cmd = "RestartChild"
  BY RuntimeTypes
<1>9. \A m \in SetOf(r.queue) \cup r.timers : m.cmd \in About =>
         \/ \E k \in SetOf(x.queue) : k.cmd \in About /\ k.by = m.by
         \/ \E k \in x.timers : k.by = m.by
  OBVIOUS
<1>10. Unsignalled(x) /\ Addressed(x) /\ Unasked(x) /\ Awaited(x)
  BY <1>1, <1>2, <1>7, <1>8, <1>9, LettersKept, ZenonT(40)
<1> QED BY <1>1, <1>4, <1>5, <1>6, <1>10 DEF Sound

(***************************************************************************)
(* A subtree that is started (Subtree): q, of n, by task `slot` of runtime *)
(* `up`, when `before` runtimes were started earlier.                      *)
(***************************************************************************)

\* A runtime that has just started its children.
Fresh(nodes, r) ==
  /\ r \in Runtime /\ Sound(nodes, r) /\ r.status = "running"
  /\ r.queue = <<>> /\ r.work.op = "idle"
  /\ \A t \in DOMAIN r.task : ~Over(r.task[t]) /\ ~r.task[t].signal

Branch(nodes, q, n, up, slot, before) ==
  /\ q \in Seq(Runtime) /\ q # <<>>
  /\ q[1].up = up /\ q[1].slot = slot
  /\ \A k \in DOMAIN q : Fresh(nodes, q[k]) /\ q[k].node = n + k - 1
  /\ \A k \in 2..Len(q) : \E j \in 1..(k - 1) :
       /\ q[k].up = before + j /\ q[k].slot \in DOMAIN q[j].task
       /\ q[j].task[q[k].slot].kind = "Supervisor"
       /\ q[j].task[q[k].slot].id = nodes[q[k].node].name
  /\ \A j \in DOMAIN q : \A t \in DOMAIN q[j].task : q[j].task[t].kind = "Supervisor" =>
       \E k \in 2..Len(q) : q[k].up = before + j /\ q[k].slot = t

\* What an element of a nested record is.
LEMMA NodeTypes ==
  ASSUME NEW tree \in Tree, NEW n \in DOMAIN tree.nodes
  PROVE  /\ tree.nodes[n].children \in Seq(ChildSpec)
         /\ LET cs == tree.nodes[n].children IN
            /\ Len(cs) \in Nat /\ DOMAIN cs = 1..Len(cs)
            /\ \A i \in DOMAIN cs : cs[i].id \in Id /\ cs[i].kind \in Kind /\ cs[i].policy \in Policy
<1>1. tree.nodes \in Seq(Node)
  BY DEF Tree
<1>2. tree.nodes[n] \in Node
  BY <1>1, ElementOfSeq, LenProperties
<1>3. tree.nodes[n].children \in Seq(ChildSpec)
  BY <1>2 DEF Node
<1> DEFINE cs == tree.nodes[n].children
<1>4. Len(cs) \in Nat /\ DOMAIN cs = 1..Len(cs) /\ \A i \in DOMAIN cs : cs[i] \in ChildSpec
  BY <1>3, ElementOfSeq, LenProperties
<1> QED BY <1>3, <1>4 DEF ChildSpec

\* A runtime is sound when it has just started its children.
LEMMA NewRuntimeIs ==
  ASSUME NEW tree \in Tree, WellFormed(tree.nodes), NEW n \in DOMAIN tree.nodes,
         NEW up \in Nat, NEW slot \in Nat
  PROVE  LET r == NewRuntime(tree, n, up, slot)
             cs == tree.nodes[n].children
         IN  /\ Fresh(tree.nodes, r) /\ r.node = n /\ r.up = up /\ r.slot = slot
             /\ DOMAIN r.task = DOMAIN cs
             /\ \A t \in DOMAIN cs : r.task[t].id = cs[t].id /\ r.task[t].kind = cs[t].kind
<1> DEFINE r == NewRuntime(tree, n, up, slot)
           cs == tree.nodes[n].children
           l == [i \in DOMAIN cs |-> [id |-> cs[i].id, kind |-> cs[i].kind,
                                      policy |-> cs[i].policy, task |-> i]]
           ts == [i \in DOMAIN cs |-> NewTask(cs[i], FALSE)]
<1>1. /\ Len(cs) \in Nat /\ DOMAIN cs = 1..Len(cs)
      /\ \A i \in DOMAIN cs : cs[i].id \in Id /\ cs[i].kind \in Kind /\ cs[i].policy \in Policy
  BY NodeTypes
<1>2. DistinctIds(cs)
  BY DEF WellFormed
<1>3. \A i \in DOMAIN cs : cs[i].kind = "Supervisor" => cs[i].id \in NestedIds(tree.nodes, n)
  BY DEF NestedIds
<1> DEFINE m == Len(cs)
<1> HIDE DEF cs
<1>4. /\ l \in Seq(Child) /\ DOMAIN l = 1..m
      /\ \A i \in 1..m : l[i].id = cs[i].id /\ l[i].kind = cs[i].kind /\ l[i].task = i
  <2>1. \A i \in 1..m : [id |-> cs[i].id, kind |-> cs[i].kind,
                         policy |-> cs[i].policy, task |-> i] \in Child
    BY <1>1 DEF Child
  <2>2. l = [i \in 1..m |-> [id |-> cs[i].id, kind |-> cs[i].kind,
                             policy |-> cs[i].policy, task |-> i]]
    BY <1>1
  <2>3. l \in Seq(Child)
    BY <1>1, <2>1, <2>2
  <2> QED BY <1>1, <2>2, <2>3
<1>5. \A i \in 1..m : /\ NewTask(cs[i], FALSE) \in Task /\ NewTask(cs[i], FALSE).id = cs[i].id
                      /\ NewTask(cs[i], FALSE).kind = cs[i].kind
                      /\ ~NewTask(cs[i], FALSE).signal /\ ~Over(NewTask(cs[i], FALSE))
  BY <1>1, NewTaskIs
<1>6. /\ ts \in Seq(Task) /\ DOMAIN ts = 1..m
      /\ \A i \in 1..m : /\ ts[i].id = cs[i].id /\ ts[i].kind = cs[i].kind
                         /\ ~ts[i].signal /\ ~Over(ts[i])
  <2>1. ts = [i \in 1..m |-> NewTask(cs[i], FALSE)]
    BY <1>1
  <2>2. ts \in [1..m -> Task]
    BY <1>5, <2>1
  <2> HIDE DEF ts
  <2>3. ts \in Seq(Task)
    BY <1>1, <2>2, SeqDef DEF m
  <2> QED BY <1>5, <2>1, <2>2, <2>3
<1>7. /\ r.node = n /\ r.up = up /\ r.slot = slot /\ r.status = "running" /\ r.queue = <<>>
      /\ r.children = l /\ r.work = Idle /\ r.timers = {} /\ r.task = ts
  BY DEF NewRuntime, cs
<1>8. r \in Runtime
  <2>1. n \in Nat
    BY LenProperties DEF Tree
  <2>2. r = [node |-> n, up |-> up, slot |-> slot, status |-> "running", queue |-> <<>>,
             children |-> l, work |-> Idle, recent |-> 0, tracked |-> {}, timers |-> {},
             task |-> ts, ends |-> 0, rounds |-> 0]
    BY DEF NewRuntime, cs
  <2>3. <<>> \in Seq(Command)
    OBVIOUS
  <2> HIDE DEF l, ts, r
  <2> QED BY <1>4, <1>6, <2>1, <2>2, <2>3, IdleIs DEF Runtime
<1> HIDE DEF l, ts, m, r
<1>9. HeldBy(r) = SetOf(l) /\ Stays(r) = SetOf(l)
  BY <1>7, IdleIs, Few DEF HeldBy, Stays
<1>10. \A c \in SetOf(l) : \E i \in 1..m : c = l[i]
  BY <1>4 DEF SetOf
<1>11. Placed(tree.nodes, r)
  BY <1>3, <1>4, <1>6, <1>1, <1>7, <1>9, <1>10 DEF Placed, m
<1>12. DistinctIds(l)
  BY <1>1, <1>2, <1>4 DEF DistinctIds, m
<1>13. Distinct(r)
  BY <1>7, <1>12, IdleIs, Few DEF Distinct
<1>14. Shaped(r) /\ Halted(r)
  BY <1>7, IdleIs DEF Shaped, Halted
<1>15. Controlled(r)
  BY <1>4, <1>6, <1>7, <1>9 DEF Controlled, SetOf
<1>16. Followed(r)
  <2> SUFFICES ASSUME NEW t \in 1..m, NEW u \in 1..m, t < u, ts[t].id = ts[u].id
               PROVE  FALSE
    BY <1>6, <1>7 DEF Followed
  <2>1. t = u
    BY <1>1, <1>2, <1>6 DEF DistinctIds, m
  <2> QED BY <1>1, <2>1 DEF m
<1>17. SetOf(r.queue) = {}
  BY <1>7, Few
<1>18. \A c \in Stays(r) : ~r.task[c.task].signal /\ ~Over(r.task[c.task])
  BY <1>4, <1>6, <1>7, <1>9, <1>10
<1>19. Unsignalled(r) /\ Addressed(r) /\ Unasked(r) /\ Awaited(r)
  BY <1>7, <1>17, <1>18 DEF Unsignalled, Addressed, Unasked, Awaited
<1>20. Sound(tree.nodes, r)
  BY <1>7, <1>11, <1>13, <1>14, <1>15, <1>16, <1>19 DEF Sound
<1>21. Fresh(tree.nodes, r)
  BY <1>6, <1>7, <1>8, <1>20, IdleIs DEF Fresh
<1> QED BY <1>1, <1>6, <1>7, <1>21 DEF r, cs, m

\* A set of numbers that is not empty has a least element.
LEMMA Least ==
  ASSUME NEW S \in SUBSET Nat, S # {}
  PROVE  \E m \in S : \A k \in S : m <= k
<1> DEFINE Below(k) == S \cap (0..k)
           T == {Below(k) : k \in S}
           R == StrictSubsetOrdering(Nat)
<1>1. IsWellFoundedOn(R, FiniteSubsetsOf(Nat))
  BY FS_StrictSubsetOrderingWellFounded
<1>2. T \subseteq FiniteSubsetsOf(Nat)
  <2> SUFFICES ASSUME NEW k \in S PROVE Below(k) \in FiniteSubsetsOf(Nat)
    OBVIOUS
  <2>1. IsFiniteSet(0..k)
    BY FS_Interval
  <2>2. IsFiniteSet(Below(k))
    BY <2>1, FS_Subset
  <2> QED BY <2>2 DEF FiniteSubsetsOf
<1>3. T # {}
  OBVIOUS
<1>4. \A y \in T : \E k \in S : y = Below(k)
  OBVIOUS
<1>5. \A k \in S : Below(k) \in T
  OBVIOUS
<1> HIDE DEF T, R
<1>6. PICK x \in T : \A y \in T : ~(<<y, x>> \in R)
  BY <1>1, <1>2, <1>3, WFMin
<1>7. PICK m \in S : x = Below(m)
  BY <1>4
<1>8. ASSUME NEW k \in S, k < m PROVE FALSE
  <2>1. Below(k) \subseteq Below(m) /\ Below(k) # Below(m)
    BY <1>8
  <2>2. <<Below(k), Below(m)>> \in R
    BY <2>1 DEF R, StrictSubsetOrdering
  <2> QED BY <1>5, <1>6, <1>7, <2>2
<1> QED BY <1>8

\* Where a nested specification is listed.
LEMMA AboveIs ==
  ASSUME NEW tree \in Tree, WellFormed(tree.nodes), NEW m \in 2..Len(tree.nodes)
  PROVE  /\ Above(tree, m) \in 1..(m - 1) /\ Above(tree, m) \in DOMAIN tree.nodes
         /\ tree.nodes[m].name \in NestedIds(tree.nodes, Above(tree, m))
         /\ \A p \in DOMAIN tree.nodes :
              tree.nodes[m].name \in NestedIds(tree.nodes, p) => p = Above(tree, m)
         /\ LET cs == tree.nodes[Above(tree, m)].children
                i == PlaceIn(tree, m)
            IN  i \in DOMAIN cs /\ cs[i].id = tree.nodes[m].name /\ cs[i].kind = "Supervisor"
<1> DEFINE nodes == tree.nodes
           a == Above(tree, m)
           cs == nodes[a].children
           i == PlaceIn(tree, m)
<1>1. DOMAIN nodes = 1..Len(nodes) /\ Len(nodes) \in Nat /\ m \in DOMAIN nodes /\ m > 1
  BY LenProperties DEF Tree
<1>2. PICK p \in 1..(m - 1) : nodes[m].name \in NestedIds(nodes, p)
  BY <1>1 DEF WellFormed
<1>3. p \in DOMAIN nodes
  BY <1>1
<1>4. \A q \in DOMAIN nodes : nodes[m].name \in NestedIds(nodes, q) => q = p
  BY <1>2, <1>3 DEF WellFormed
<1>5. a \in DOMAIN nodes /\ nodes[m].name \in NestedIds(nodes, a)
  BY <1>2, <1>3 DEF Above
<1>6. a = p
  BY <1>4, <1>5
<1>7. PICK j \in DOMAIN cs : cs[j].id = nodes[m].name /\ cs[j].kind = "Supervisor"
  BY <1>5 DEF NestedIds
<1>8. DistinctIds(cs)
  BY <1>5 DEF WellFormed
<1>9. i \in DOMAIN cs /\ cs[i].id = nodes[m].name
  BY <1>7 DEF PlaceIn
<1> HIDE DEF cs, i
<1>10. i = j
  BY <1>7, <1>8, <1>9 DEF DistinctIds
<1> HIDE DEF a, nodes
<1> QED BY <1>2, <1>4, <1>5, <1>6, <1>7, <1>9, <1>10 DEF a, nodes, cs, i

\* Where a subtree ends.
LEMMA LastIs ==
  ASSUME NEW tree \in Tree, WellFormed(tree.nodes), NEW n \in DOMAIN tree.nodes
  PROVE  LET l == LastOf(tree, n) IN
         /\ l \in n..Len(tree.nodes)
         /\ \A k \in (n + 1)..l : Above(tree, k) >= n
         /\ l < Len(tree.nodes) => Above(tree, l + 1) < n
<1> DEFINE size == Len(tree.nodes)
           S == {m \in n..size : m < size => Above(tree, m + 1) < n}
<1>1. size \in Nat /\ n \in 1..size
  BY LenProperties DEF Tree
<1> HIDE DEF size
<1>2. size \in S
  BY <1>1
<1>3. S \in SUBSET Nat
  BY <1>1
<1>4. \A m : m \in S <=> m \in n..size /\ (m < size => Above(tree, m + 1) < n)
  OBVIOUS
<1> HIDE DEF S
<1>5. PICK l \in S : \A k \in S : l <= k
  BY <1>2, <1>3, Least
<1>6. \A k \in 2..size : Above(tree, k) \in 1..(k - 1)
  BY AboveIs DEF size
<1>7. ASSUME NEW k \in (n + 1)..l PROVE Above(tree, k) >= n
  <2>1. l \in n..size
    BY <1>4
  <2>2. k - 1 \in n..size /\ k - 1 < size /\ k - 1 < l /\ (k - 1) + 1 = k /\ k \in 2..size
    BY <1>1, <2>1
  <2>3. k - 1 \notin S
    BY <1>1, <1>5, <2>1, <2>2
  <2>4. ~(Above(tree, k) < n)
    BY <1>4, <2>2, <2>3
  <2> QED BY <1>1, <1>6, <2>2, <2>4
<1>8. \E m \in n..size :
        /\ \A k \in (n + 1)..m : Above(tree, k) >= n
        /\ m < size => Above(tree, m + 1) < n
  BY <1>4, <1>7
<1> QED BY <1>8 DEF LastOf, size

\* What start_inner starts is a branch.
LEMMA SubtreeIs ==
  ASSUME NEW tree \in Tree, WellFormed(tree.nodes), NEW n \in DOMAIN tree.nodes,
         NEW up \in Nat, NEW slot \in Nat, NEW before \in Nat
  PROVE  Branch(tree.nodes, Subtree(tree, n, up, slot, before), n, up, slot, before)
<1> DEFINE nodes == tree.nodes
           q == Subtree(tree, n, up, slot, before)
           l == LastOf(tree, n)
           size == l - n + 1
           U(k) == IF k = 1 THEN up ELSE before + Above(tree, n + k - 1) - n + 1
           P(k) == IF k = 1 THEN slot ELSE PlaceIn(tree, n + k - 1)
<1>1. /\ Len(nodes) \in Nat /\ DOMAIN nodes = 1..Len(nodes) /\ n \in 1..Len(nodes)
      /\ l \in n..Len(nodes) /\ size \in Nat \ {0}
      /\ \A k \in (n + 1)..l : Above(tree, k) >= n
      /\ l < Len(nodes) => Above(tree, l + 1) < n
  BY LastIs, LenProperties DEF Tree
<1> HIDE DEF l
<1>2. \A m \in (n + 1)..l :
        /\ m \in 2..Len(nodes) /\ Above(tree, m) \in n..(m - 1)
        /\ LET cs == nodes[Above(tree, m)].children
               i == PlaceIn(tree, m)
           IN  i \in DOMAIN cs /\ cs[i].id = nodes[m].name /\ cs[i].kind = "Supervisor"
  <2> TAKE m \in (n + 1)..l
  <2>1. m \in 2..Len(nodes)
    BY <1>1
  <2> QED BY <1>1, <2>1, AboveIs, SMTT(30)
<1>3. \A k \in 1..size : /\ n + k - 1 \in DOMAIN nodes /\ U(k) \in Nat /\ P(k) \in Nat
                         /\ k # 1 => n + k - 1 \in (n + 1)..l
  <2> TAKE k \in 1..size
  <2>1. CASE k = 1
    BY <1>1, <2>1
  <2>2. CASE k # 1
    <3>1. n + k - 1 \in (n + 1)..l
      BY <1>1, <2>2
    <3>2. /\ Above(tree, n + k - 1) \in n..(n + k - 1 - 1)
          /\ PlaceIn(tree, n + k - 1) \in DOMAIN nodes[Above(tree, n + k - 1)].children
      BY <1>2, <3>1
    <3>3. Above(tree, n + k - 1) \in DOMAIN nodes
      BY <1>1, <3>1, <3>2
    <3>4. DOMAIN nodes[Above(tree, n + k - 1)].children \subseteq Nat
      BY <3>3, NodeTypes
    <3> DEFINE a == Above(tree, n + k - 1)
               i == PlaceIn(tree, n + k - 1)
    <3>5. U(k) = before + a - n + 1 /\ P(k) = i /\ i \in Nat
      BY <2>2, <3>2, <3>4
    <3>6. a \in Nat /\ a >= n /\ n \in Nat
      BY <1>1, <3>2, <3>3
    <3> HIDE DEF a, i, U, P
    <3>7. before + a - n + 1 \in Nat
      BY <3>6
    <3> QED BY <1>1, <3>1, <3>5, <3>7
  <2> QED BY <2>1, <2>2
<1>4. \A k \in 1..size :
        LET r == NewRuntime(tree, n + k - 1, U(k), P(k)) IN
        /\ Fresh(nodes, r) /\ r.node = n + k - 1 /\ r.up = U(k) /\ r.slot = P(k)
        /\ DOMAIN r.task = DOMAIN nodes[n + k - 1].children
        /\ \A t \in DOMAIN nodes[n + k - 1].children :
             /\ r.task[t].id = nodes[n + k - 1].children[t].id
             /\ r.task[t].kind = nodes[n + k - 1].children[t].kind
  <2> TAKE k \in 1..size
  <2>1. n + k - 1 \in DOMAIN nodes /\ U(k) \in Nat /\ P(k) \in Nat
    BY <1>3
  <2> HIDE DEF U, P
  <2> QED BY <2>1, NewRuntimeIs
<1>5. q = [k \in 1..size |-> NewRuntime(tree, n + k - 1, U(k), P(k))]
  BY <1>1 DEF Subtree, l
<1> HIDE DEF q, U, P
<1>6. /\ DOMAIN q = 1..size
      /\ \A k \in 1..size :
        /\ Fresh(nodes, q[k]) /\ q[k].node = n + k - 1 /\ q[k].up = U(k) /\ q[k].slot = P(k)
        /\ DOMAIN q[k].task = DOMAIN nodes[n + k - 1].children
        /\ \A t \in DOMAIN nodes[n + k - 1].children :
             /\ q[k].task[t].id = nodes[n + k - 1].children[t].id
             /\ q[k].task[t].kind = nodes[n + k - 1].children[t].kind
  BY <1>4, <1>5
<1>7. q \in Seq(Runtime) /\ Len(q) = size /\ q # <<>>
  <2>1. q \in [1..size -> Runtime]
    BY <1>4, <1>5 DEF Fresh
  <2>2. q \in Seq(Runtime)
    BY <1>1, <2>1, SeqDef
  <2> QED BY <1>1, <1>6, <2>2, LenProperties, EmptySeq
<1>8. q[1].up = up /\ q[1].slot = slot
  BY <1>1, <1>6 DEF U, P
<1>9. ASSUME NEW k \in 2..size
      PROVE  \E j \in 1..(k - 1) :
               /\ q[k].up = before + j /\ q[k].slot \in DOMAIN q[j].task
               /\ q[j].task[q[k].slot].kind = "Supervisor"
               /\ q[j].task[q[k].slot].id = nodes[q[k].node].name
  <2> DEFINE m == n + k - 1
             a == Above(tree, m)
             j == a - n + 1
  <2>1. m \in (n + 1)..l /\ k \in 1..size /\ k # 1
    BY <1>1
  <2>2. /\ a \in n..(m - 1)
        /\ LET cs == nodes[a].children
               i == PlaceIn(tree, m)
           IN  i \in DOMAIN cs /\ cs[i].id = nodes[m].name /\ cs[i].kind = "Supervisor"
    BY <1>2, <2>1
  <2>3. q[k].node = m /\ q[k].up = before + a - n + 1 /\ q[k].slot = PlaceIn(tree, m)
    BY <1>6, <2>1 DEF U, P
  <2> HIDE DEF a
  <2>4. j \in 1..(k - 1) /\ j \in 1..size /\ n + j - 1 = a /\ q[k].up = before + j
    <3>1. a \in Int /\ n <= a /\ a <= n + k - 2 /\ n \in Nat /\ k <= size /\ k \in Nat
          /\ size \in Nat
      BY <1>1, <2>2
    <3>2. q[k].up = before + a - n + 1
      BY <2>3
    <3> HIDE DEF size, m
    <3> QED BY <3>1, <3>2
  <2> HIDE DEF j, m
  <2>5. /\ DOMAIN q[j].task = DOMAIN nodes[a].children
        /\ \A t \in DOMAIN nodes[a].children :
             /\ q[j].task[t].id = nodes[a].children[t].id
             /\ q[j].task[t].kind = nodes[a].children[t].kind
    BY <1>6, <2>4
  <2> QED BY <2>2, <2>3, <2>4, <2>5
<1>10. ASSUME NEW j \in 1..size, NEW t \in DOMAIN q[j].task, q[j].task[t].kind = "Supervisor"
       PROVE  \E k \in 2..size : q[k].up = before + j /\ q[k].slot = t
  <2> DEFINE p == n + j - 1
             cs == nodes[p].children
  <2>1. p \in DOMAIN nodes /\ p \in n..l
    BY <1>1, <1>3
  <2>2. t \in DOMAIN cs /\ cs[t].kind = "Supervisor"
    BY <1>6, <1>10
  <2>3. cs[t].id \in NestedIds(nodes, p)
    BY <2>2 DEF NestedIds
  <2>4. PICK m \in DOMAIN nodes : p < m /\ nodes[m].name = cs[t].id
    BY <2>1, <2>3 DEF WellFormed
  <2> HIDE DEF p
  <2>5. m \in 2..Len(nodes)
    BY <1>1, <2>1, <2>4
  <2>6. p = Above(tree, m)
    BY <2>1, <2>3, <2>4, <2>5, AboveIs
  <2>7. m <= l
    <3> SUFFICES ASSUME m > l PROVE FALSE
      BY <1>1, <2>5
    <3>1. l < Len(nodes) /\ l + 1 \in 2..Len(nodes)
      BY <1>1, <2>5
    <3>2. /\ Above(tree, l + 1) \in DOMAIN nodes
          /\ nodes[l + 1].name \in NestedIds(nodes, Above(tree, l + 1))
      BY <3>1, AboveIs
    <3>3. Above(tree, l + 1) < n
      BY <1>1, <3>1
    <3>4. l + 1 \in DOMAIN nodes /\ p < l + 1 /\ l + 1 <= m
      BY <1>1, <2>1, <2>5, <3>1
    <3>5. p <= Above(tree, l + 1)
      BY <2>1, <2>3, <2>4, <3>2, <3>4 DEF WellFormed
    <3> QED BY <1>1, <2>1, <3>2, <3>3, <3>5
  <2> DEFINE k == m - n + 1
  <2>8. k \in 2..size /\ k \in 1..size /\ k # 1 /\ n + k - 1 = m
    <3>1. l \in Int /\ n \in Nat /\ m \in Int /\ p \in Int /\ n <= p /\ p < m /\ m <= l
      BY <1>1, <2>1, <2>4, <2>5, <2>7
    <3> QED BY <3>1
  <2>9. q[k].up = before + p - n + 1 /\ q[k].slot = PlaceIn(tree, m)
    BY <1>6, <2>6, <2>8 DEF U, P
  <2>10. before + p - n + 1 = before + j
    BY <1>1 DEF p
  <2>11. PlaceIn(tree, m) = t
    <3>1. PlaceIn(tree, m) \in DOMAIN cs /\ cs[PlaceIn(tree, m)].id = cs[t].id
      BY <2>4, <2>5, <2>6, AboveIs
    <3>2. DistinctIds(cs)
      BY <2>1 DEF WellFormed
    <3> QED BY <2>2, <3>1, <3>2 DEF DistinctIds
  <2> QED BY <2>8, <2>9, <2>10, <2>11
<1>11. \A k \in DOMAIN q : Fresh(nodes, q[k]) /\ q[k].node = n + k - 1
  BY <1>6
<1>12. DOMAIN q = 1..size /\ Len(q) = size
  BY <1>6, <1>7
<1> HIDE DEF size, nodes
<1> QED BY <1>7, <1>8, <1>9, <1>10, <1>11, <1>12 DEF Branch, nodes, q

(***************************************************************************)
(* Steps that start a child, and the runtimes of its subtree.              *)
(***************************************************************************)

\* Runtime s, now in state x, has one task more, e; if that is a nested
\* supervisor, the branch q is started.
LEMMA Grown ==
  ASSUME IInv, NEW s \in DOMAIN rt, NEW x \in Runtime, Sound(config.nodes, x),
         x.up = rt[s].up, x.slot = rt[s].slot, x.node = rt[s].node, x.status = rt[s].status,
         NEW e \in Task, x.task = Append(rt[s].task, e), ~Over(e), ~e.signal,
         (Told(rt[s]) => Told(x)) /\ (Asked(x) => Asked(rt[s])),
         NEW q \in Seq(Runtime), rt' = Put(s, x) \o q, config' = config, RestTyped,
         \/ q = <<>> /\ e.kind = "Worker"
         \/ /\ e.kind = "Supervisor"
            /\ \E n \in DOMAIN config.nodes :
                 /\ config.nodes[n].name = e.id
                 /\ Branch(config.nodes, q, n, s, Len(rt[s].task) + 1, Len(rt))
  PROVE  IInv'
<1> DEFINE r == rt[s]
           p == Put(s, x)
           size == Len(rt)
           width == Len(q)
           next == Len(r.task) + 1
           nodes == config.nodes
<1>1. /\ size \in Nat \ {0} /\ DOMAIN rt = 1..size /\ s \in 1..size
      /\ width \in Nat /\ DOMAIN q = 1..width /\ rt \in Seq(Runtime)
  BY Numbers, LenProperties DEF IInv, VarTypes
<1>2. /\ p \in Seq(Runtime) /\ Len(p) = size
      /\ p[s] = x /\ \A v \in DOMAIN rt : v # s => p[v] = rt[v]
  BY <1>1, PutIs
<1> HIDE DEF p
<1>3. /\ rt' \in Seq(Runtime) /\ Len(rt') = size + width
      /\ DOMAIN rt' = 1..(size + width) /\ rt' # <<>>
      /\ \A v \in DOMAIN rt : rt'[v] = p[v]
      /\ \A k \in DOMAIN q : size + k \in DOMAIN rt' /\ rt'[size + k] = q[k]
  <2>1. /\ rt' \in Seq(Runtime) /\ Len(rt') = size + width
        /\ \A v \in 1..(size + width) : rt'[v] = IF v <= size THEN p[v] ELSE q[v - size]
    <3> HIDE DEF size, width
    <3>1. /\ p \o q \in Seq(Runtime) /\ Len(p \o q) = Len(p) + Len(q)
          /\ \A v \in 1..(Len(p) + Len(q)) :
               (p \o q)[v] = IF v <= Len(p) THEN p[v] ELSE q[v - Len(p)]
      BY <1>2, ConcatProperties
    <3>2. rt' = p \o q
      BY DEF p
    <3>3. Len(q) = width
      BY DEF width
    <3> QED BY <1>2, <3>1, <3>2, <3>3
  <2> HIDE DEF size, width
  <2>2. DOMAIN rt' = 1..(size + width) /\ rt' # <<>>
    BY <1>1, <2>1, LenProperties, EmptySeq
  <2>3. \A v \in DOMAIN rt : rt'[v] = p[v]
    BY <1>1, <2>1
  <2>4. ASSUME NEW k \in DOMAIN q PROVE size + k \in DOMAIN rt' /\ rt'[size + k] = q[k]
    <3>1. size + k \in 1..(size + width) /\ ~(size + k <= size) /\ (size + k) - size = k
      BY <1>1
    <3> QED BY <2>1, <2>2, <3>1
  <2> QED BY <2>1, <2>2, <2>3, <2>4
<1>4. /\ r \in Runtime /\ next \in Nat /\ DOMAIN r.task = 1..(next - 1)
      /\ DOMAIN x.task = 1..next /\ x.task[next] = e
      /\ \A t \in DOMAIN r.task : t \in DOMAIN x.task /\ x.task[t] = r.task[t]
  <2>1. r \in Runtime
    BY At1
  <2>2. r.task \in Seq(Task)
    BY <2>1, RuntimeTypes
  <2> QED BY <2>1, <2>2, OneMore
<1>5. rt'[s] = x /\ \A v \in DOMAIN rt : v # s => rt'[v] = rt[v]
  BY <1>2, <1>3
\* the runtimes there were
<1>6. \A v \in DOMAIN rt :
        /\ Sound(nodes, rt'[v])
        /\ rt'[v].up = rt[v].up /\ rt'[v].slot = rt[v].slot /\ rt'[v].node = rt[v].node
        /\ rt'[v].status = rt[v].status
        /\ (Told(rt[v]) => Told(rt'[v])) /\ (Asked(rt'[v]) => Asked(rt[v]))
        /\ \A t \in DOMAIN rt[v].task : t \in DOMAIN rt'[v].task /\ rt'[v].task[t] = rt[v].task[t]
  <2> TAKE v \in DOMAIN rt
  <2>1. CASE v = s
    BY <1>4, <1>5, <2>1
  <2>2. CASE v # s
    <3>1. Sound(nodes, rt[v])
      BY At1, SMTT(30)
    <3> QED BY <1>5, <2>2, <3>1
  <2> QED BY <2>1, <2>2
<1>7. \A v \in 2..size :
        /\ v \in DOMAIN rt /\ rt[v].up \in 1..(v - 1) /\ rt[v].up \in DOMAIN rt
        /\ rt[v].slot \in DOMAIN rt[rt[v].up].task
        /\ SlotOf(v) = rt[rt[v].up].task[rt[v].slot]
        /\ rt'[rt'[v].up].task[rt'[v].slot] = SlotOf(v)
        /\ SlotOf(v).kind = "Supervisor" /\ SlotOf(v).id = nodes[rt[v].node].name
        /\ Over(SlotOf(v)) <=> rt[v].status # "running"
        /\ rt[v].status = "running" =>
             (SlotOf(v).signal => Told(rt[v])) /\ (Asked(rt[v]) => SlotOf(v).signal)
  <2> TAKE v \in 2..size
  <2>1. /\ v \in DOMAIN rt /\ rt[v].up \in 1..(v - 1) /\ rt[v].up \in DOMAIN rt
        /\ rt[v].slot \in DOMAIN rt[rt[v].up].task
        /\ SlotOf(v) = rt[rt[v].up].task[rt[v].slot]
        /\ SlotOf(v).kind = "Supervisor" /\ SlotOf(v).id = nodes[rt[v].node].name
        /\ Over(SlotOf(v)) <=> rt[v].status # "running"
        /\ rt[v].status = "running" =>
             (SlotOf(v).signal => Told(rt[v])) /\ (Asked(rt[v]) => SlotOf(v).signal)
    BY Slots
  <2>2. rt'[rt'[v].up].task[rt'[v].slot] = SlotOf(v)
    BY <1>6, <2>1, ZenonT(40)
  <2> QED BY <2>1, <2>2
\* the runtimes that are new
<1>8. \A v \in DOMAIN rt' : v \in DOMAIN rt \/ \E k \in DOMAIN q : v = size + k
  <2> TAKE v \in DOMAIN rt'
  <2> SUFFICES ASSUME v \notin DOMAIN rt PROVE v - size \in DOMAIN q /\ v = size + (v - size)
    OBVIOUS
  <2> HIDE DEF size, width
  <2> QED BY <1>1, <1>3
<1>19. PICK n \in Nat : q # <<>> =>
         e.kind = "Supervisor" /\ nodes[n].name = e.id /\ Branch(nodes, q, n, s, next, size)
  BY Numbers
<1>9. /\ \A k \in DOMAIN q : Fresh(nodes, q[k]) /\ q[k].node = n + k - 1
      /\ q # <<>> => q[1].up = s /\ q[1].slot = next /\ nodes[n].name = e.id
                     /\ e.kind = "Supervisor" /\ 1 \in DOMAIN q
      /\ \A k \in 2..width : \E j \in 1..(k - 1) :
           /\ q[k].up = size + j /\ q[k].slot \in DOMAIN q[j].task
           /\ q[j].task[q[k].slot].kind = "Supervisor"
           /\ q[j].task[q[k].slot].id = nodes[q[k].node].name
      /\ \A j \in DOMAIN q : \A t \in DOMAIN q[j].task : q[j].task[t].kind = "Supervisor" =>
           \E k \in 2..width : q[k].up = size + j /\ q[k].slot = t
  <2>1. CASE q = <<>>
    BY <1>1, <2>1, EmptySeq
  <2>2. CASE q # <<>>
    <3>1. 1 \in DOMAIN q
      BY <1>1, <2>2, EmptySeq
    <3> HIDE DEF size, next, nodes
    <3> QED BY <1>19, <2>2, <3>1, Zenon DEF Branch
  <2> QED BY <2>1, <2>2
<1>20. \A k \in DOMAIN q : ~Asked(q[k]) /\ q[k].status = "running" /\ Sound(nodes, q[k])
  <2> TAKE k \in DOMAIN q
  <2>1. Fresh(nodes, q[k])
    BY <1>9
  <2>2. SetOf(q[k].queue) = {}
    BY <2>1, Few DEF Fresh
  <2> QED BY <2>1, <2>2 DEF Fresh, Asked, HasShutdown
<1>21. \A j, k \in DOMAIN q : q[j].node = q[k].node => j = k
  <2>1. \A j \in DOMAIN q : q[j].node = n + j - 1
    BY <1>9
  <2> HIDE DEF width
  <2> QED BY <1>1, <2>1, SMTT(30)
\* the task that runs the k-th of them
<1>10. \A k \in DOMAIN q :
         LET a == q[k].up
             f == rt'[a].task[q[k].slot]
         IN  /\ a \in 1..(size + k - 1) /\ a \in DOMAIN rt' /\ q[k].slot \in DOMAIN rt'[a].task
             /\ f.kind = "Supervisor" /\ f.id = nodes[q[k].node].name
             /\ ~Over(f) /\ ~f.signal
             /\ \/ k = 1 /\ a = s /\ q[k].slot = next
                \/ a > size
  <2> TAKE k \in DOMAIN q
  <2> HIDE DEF size, width, next, nodes
  <2>1. q # <<>>
    BY <1>1, EmptySeq
  <2>2. CASE k = 1
    <3>1. q[1].up = s /\ q[1].slot = next /\ q[1].node = n
      BY <1>9, <2>1, <2>2
    <3>2. s \in 1..(size + k - 1) /\ s \in DOMAIN rt'
      BY <1>1, <1>3, <2>2
    <3>3. next \in DOMAIN rt'[s].task /\ rt'[s].task[next] = e
      BY <1>4, <1>5, SMTT(30)
    <3>4. e.kind = "Supervisor" /\ e.id = nodes[n].name
      BY <1>9, <2>1
    <3> QED BY <2>2, <3>1, <3>2, <3>3, <3>4
  <2>3. CASE k # 1
    <3>1. k \in 2..width
      BY <1>1, <2>3
    <3>2. PICK j \in 1..(k - 1) :
            /\ q[k].up = size + j /\ q[k].slot \in DOMAIN q[j].task
            /\ q[j].task[q[k].slot].kind = "Supervisor"
            /\ q[j].task[q[k].slot].id = nodes[q[k].node].name
      BY <1>9, <3>1
    <3>3. j \in DOMAIN q /\ size + j \in 1..(size + k - 1) /\ size + j > size
      BY <1>1, <3>1
    <3>4. rt'[size + j] = q[j] /\ size + j \in DOMAIN rt'
      BY <1>3, <3>3
    <3>5. Fresh(nodes, q[j])
      BY <1>9, <3>3
    <3>6. ~Over(q[j].task[q[k].slot]) /\ ~q[j].task[q[k].slot].signal
      BY <3>2, <3>5 DEF Fresh
    <3> QED BY <3>2, <3>3, <3>4, <3>6
  <2> QED BY <2>2, <2>3
<1>11. VarTypes'
  BY <1>3 DEF IInv, VarTypes, RestTyped
<1>12. AllSound'
  <2> SUFFICES ASSUME NEW v \in DOMAIN rt' PROVE Sound(nodes, rt'[v])
    BY DEF AllSound
  <2>1. CASE v \in DOMAIN rt
    BY <1>6, <2>1
  <2>2. ASSUME NEW k \in DOMAIN q, v = size + k PROVE Sound(nodes, rt'[v])
    BY <1>3, <1>20, <2>2
  <2> QED BY <1>8, <2>1, <2>2
<1>13. (rt[1].up = 0)'
  <2>1. rt[1].up = 0
    BY DEF IInv, TreeOk
  <2>2. 1 \in DOMAIN rt
    BY Numbers
  <2>3. rt'[1].up = rt[1].up
    BY <1>6, <2>2
  <2> QED BY <2>1, <2>3
\* a runtime of either kind, and where it is
<1>14. \A v \in 2..(size + width) :
         \/ v \in 2..size /\ v \in DOMAIN rt
         \/ v \notin 2..size /\ \E k \in DOMAIN q : v = size + k
  <2> TAKE v \in 2..(size + width)
  <2>1. v \in DOMAIN rt'
    BY <1>1, <1>3
  <2>2. v \in DOMAIN rt => v \in 2..size
    BY <1>1
  <2>3. \A k \in DOMAIN q : size + k \notin 2..size
    BY <1>1
  <2> HIDE DEF size, width
  <2> QED BY <1>8, <2>1, <2>2, <2>3
<1>15. TreeShape'
  <2> SUFFICES ASSUME NEW v \in 2..(size + width)
               PROVE  /\ rt'[v].up \in 1..(v - 1)
                      /\ rt'[v].slot \in DOMAIN rt'[rt'[v].up].task
                      /\ rt'[rt'[v].up].task[rt'[v].slot].kind = "Supervisor"
                      /\ rt'[rt'[v].up].task[rt'[v].slot].id = nodes[rt'[v].node].name
    BY <1>3, ZenonT(40) DEF TreeShape, SpecOf
  <2>1. CASE v \in 2..size /\ v \in DOMAIN rt
    <3>1. rt'[v].slot \in DOMAIN rt'[rt'[v].up].task
      BY <1>6, <1>7, <2>1
    <3> QED BY <1>6, <1>7, <2>1, <3>1, ZenonT(40)
  <2>2. ASSUME NEW k \in DOMAIN q, v = size + k
        PROVE  /\ rt'[v].up \in 1..(v - 1)
               /\ rt'[v].slot \in DOMAIN rt'[rt'[v].up].task
               /\ rt'[rt'[v].up].task[rt'[v].slot].kind = "Supervisor"
               /\ rt'[rt'[v].up].task[rt'[v].slot].id = nodes[rt'[v].node].name
    <3>1. rt'[v] = q[k]
      BY <1>3, <2>2
    <3>2. q[k].up \in 1..(v - 1)
      BY <1>10, <2>2
    <3>3. /\ q[k].slot \in DOMAIN rt'[q[k].up].task
          /\ rt'[q[k].up].task[q[k].slot].kind = "Supervisor"
          /\ rt'[q[k].up].task[q[k].slot].id = nodes[q[k].node].name
      BY <1>10, Zenon
    <3> QED BY <3>1, <3>2, <3>3
  <2> QED BY <1>14, <2>1, <2>2, ZenonT(40)
<1>16. OneEach'
  <2>1. ASSUME NEW u \in 2..(size + width), NEW v \in 2..(size + width),
               rt'[u].up = rt'[v].up, rt'[u].slot = rt'[v].slot
        PROVE  u = v
    <3>1. CASE u \in 2..size /\ v \in 2..size
      <4>1. \A i, j \in 2..size : rt[i].up = rt[j].up /\ rt[i].slot = rt[j].slot => i = j
        BY SMTT(30) DEF IInv, TreeOk, OneEach
      <4>2. /\ rt'[u].up = rt[u].up /\ rt'[u].slot = rt[u].slot
            /\ rt'[v].up = rt[v].up /\ rt'[v].slot = rt[v].slot
        BY <1>6, <1>7, <3>1
      <4> QED BY <2>1, <3>1, <4>1, <4>2
    <3>2. ASSUME NEW i \in 2..size, NEW k \in DOMAIN q, rt'[i].up = rt'[size + k].up,
                 rt'[i].slot = rt'[size + k].slot
          PROVE  FALSE
      <4>1. i \in DOMAIN rt /\ rt'[i].up \in 1..(i - 1) /\ rt'[i].up = rt[i].up
            /\ rt'[i].slot = rt[i].slot /\ rt[i].slot \in DOMAIN rt[rt[i].up].task
        BY <1>6, <1>7
      <4>2. rt'[size + k] = q[k]
        BY <1>3
      <4>3. \/ q[k].up = s /\ q[k].slot = next
            \/ q[k].up > size
        BY <1>10
      <4>4. ~(q[k].up > size)
        <5>1. q[k].up \in 1..(i - 1) /\ size \in Nat
          BY <1>1, <3>2, <4>1, <4>2
        <5> HIDE DEF size
        <5> QED BY <5>1
      <4>5. next \in DOMAIN r.task
        BY <3>2, <4>1, <4>2, <4>3, <4>4
      <4> HIDE DEF next
      <4> QED BY <1>4, <4>5
    <3>3. ASSUME NEW k \in DOMAIN q, u = size + k, NEW j \in DOMAIN q, v = size + j
          PROVE  u = v
      <4>1. rt'[u] = q[k] /\ rt'[v] = q[j]
        BY <1>3, <3>3
      <4>2. nodes[q[k].node].name = nodes[q[j].node].name
        <5>1. q[k].up = q[j].up /\ q[k].slot = q[j].slot
          BY <2>1, <4>1
        <5>2. /\ rt'[q[k].up].task[q[k].slot].id = nodes[q[k].node].name
              /\ rt'[q[j].up].task[q[j].slot].id = nodes[q[j].node].name
          BY <1>10
        <5> QED BY <5>1, <5>2
      <4>3. q[k].node \in DOMAIN nodes /\ q[j].node \in DOMAIN nodes
        BY <1>20 DEF Sound
      <4>4. WellFormed(nodes)
        BY Numbers
      <4>5. q[k].node = q[j].node
        <5> HIDE DEF nodes
        <5> QED BY <4>2, <4>3, <4>4 DEF WellFormed
      <4> QED BY <1>21, <3>3, <4>5
    <3> HIDE DEF size, width, next, nodes
    <3> QED BY <1>14, <2>1, <3>1, <3>2, <3>3
  <2>2. ASSUME NEW u \in DOMAIN rt', NEW t \in DOMAIN rt'[u].task,
               rt'[u].task[t].kind = "Supervisor"
        PROVE  \E v \in 2..(size + width) : rt'[v].up = u /\ rt'[v].slot = t
    <3>1. CASE u \in DOMAIN rt /\ t \in DOMAIN rt[u].task
      <4>1. rt[u].task[t].kind = "Supervisor"
        BY <1>6, <2>2, <3>1
      <4>2. PICK v \in 2..size : rt[v].up = u /\ rt[v].slot = t
        BY <3>1, <4>1 DEF IInv, TreeOk, OneEach
      <4>3. v \in 2..(size + width)
        BY <1>1
      <4> QED BY <1>6, <1>7, <4>2, <4>3, Zenon
    <3>2. CASE u \in DOMAIN rt /\ t \notin DOMAIN rt[u].task
      <4>1. u = s
        BY <1>5, <3>2
      <4>2. t = next /\ e.kind = "Supervisor"
        <5>1. rt'[s] = x /\ t \in DOMAIN x.task /\ t \notin DOMAIN r.task
          BY <1>5, <2>2, <3>2, <4>1
        <5>2. t = next
          <6> HIDE DEF next
          <6> QED BY <1>4, <5>1
        <5>3. x.task[t].kind = "Supervisor"
          BY <2>2, <4>1, <5>1
        <5> HIDE DEF next
        <5> QED BY <1>4, <5>2, <5>3
      <4>3. q # <<>>
        <5>1. "Supervisor" # "Worker"
          OBVIOUS
        <5>2. q = <<>> => e.kind = "Worker"
          BY <4>2 DEF Branch
        <5> QED BY <4>2, <5>1, <5>2
      <4>4. 1 \in DOMAIN q
        BY <1>1, <4>3, EmptySeq
      <4>5. rt'[size + 1].up = s /\ rt'[size + 1].slot = next
        BY <1>3, <1>9, <4>3, <4>4
      <4>6. size + 1 \in 2..(size + width)
        BY <1>1, <4>4
      <4> QED BY <4>1, <4>2, <4>5, <4>6
    <3>3. ASSUME NEW j \in DOMAIN q, u = size + j
          PROVE  \E v \in 2..(size + width) : rt'[v].up = u /\ rt'[v].slot = t
      <4>3. rt'[u] = q[j]
        BY <1>3, <3>3
      <4>4. PICK k \in 2..width : q[k].up = size + j /\ q[k].slot = t
        BY <1>9, <2>2, <4>3, ZenonT(40)
      <4>5. k \in DOMAIN q /\ size + k \in 2..(size + width)
        BY <1>1
      <4>6. rt'[size + k] = q[k]
        BY <1>3, <4>5
      <4> QED BY <3>3, <4>4, <4>5, <4>6
    <3> QED BY <1>8, <3>1, <3>2, <3>3, Zenon
  <2>3. ASSUME NEW v \in 2..(size + width)
        PROVE  Over(rt'[rt'[v].up].task[rt'[v].slot]) <=> rt'[v].status # "running"
    <3>1. CASE v \in 2..size /\ v \in DOMAIN rt
      BY <1>6, <1>7, <3>1, Zenon
    <3>2. ASSUME NEW k \in DOMAIN q, v = size + k
          PROVE  Over(rt'[rt'[v].up].task[rt'[v].slot]) <=> rt'[v].status # "running"
      <4>1. rt'[v] = q[k] /\ rt'[v].status = "running"
        BY <1>3, <1>20, <3>2
      <4> QED BY <1>10, <4>1
    <3> QED BY <1>14, <3>1, <3>2, ZenonT(40)
  <2>4. 2..Len(rt') = 2..(size + width)
    BY <1>3
  <2>5. \A u, v \in 2..Len(rt') : rt'[u].up = rt'[v].up /\ rt'[u].slot = rt'[v].slot => u = v
    BY <2>1, <2>4, ZenonT(40)
  <2>6. \A u \in DOMAIN rt' : \A t \in DOMAIN rt'[u].task :
          rt'[u].task[t].kind = "Supervisor" =>
            \E v \in 2..Len(rt') : rt'[v].up = u /\ rt'[v].slot = t
    <3> SUFFICES ASSUME NEW u \in DOMAIN rt', NEW t \in DOMAIN rt'[u].task,
                        rt'[u].task[t].kind = "Supervisor"
                 PROVE  \E v \in 2..Len(rt') : rt'[v].up = u /\ rt'[v].slot = t
      OBVIOUS
    <3>1. PICK v \in 2..(size + width) : rt'[v].up = u /\ rt'[v].slot = t
      BY <2>2
    <3>2. v \in 2..Len(rt')
      BY <2>4
    <3> QED BY <3>1, <3>2
  <2>7. \A v \in 2..Len(rt') :
          Over(rt'[rt'[v].up].task[rt'[v].slot]) <=> rt'[v].status # "running"
    BY <2>3, <2>4, Zenon
  <2> QED BY <2>5, <2>6, <2>7, Zenon DEF OneEach, SlotOf
<1>17. InOrder'
  <2> SUFFICES ASSUME NEW u \in 2..(size + width), NEW v \in 2..(size + width),
                      u < v, rt'[u].up = rt'[v].up, rt'[u].node = rt'[v].node
               PROVE  rt'[u].slot < rt'[v].slot
    BY <1>3, Zenon DEF InOrder
  <2>1. CASE u \in 2..size /\ v \in 2..size
    BY <1>6, <1>7, <2>1, ZenonT(40) DEF IInv, TreeOk, InOrder
  <2>2. ASSUME NEW k \in DOMAIN q, u = size + k, NEW j \in DOMAIN q, v = size + j
        PROVE  FALSE
    <3>1. rt'[u] = q[k] /\ rt'[v] = q[j]
      BY <1>3, <2>2
    <3>2. k = j
      BY <1>21, <3>1
    <3> QED BY <1>1, <2>2, <3>2
  <2>3. ASSUME u \in 2..size, NEW k \in DOMAIN q, v = size + k
        PROVE  rt'[u].slot < rt'[v].slot
    <3>1. u \in DOMAIN rt /\ rt'[u].up \in 1..(u - 1) /\ rt'[u].up = rt[u].up
          /\ rt'[u].slot = rt[u].slot /\ rt[u].slot \in DOMAIN rt[rt[u].up].task
      BY <1>6, <1>7, <2>3, Zenon
    <3>2. rt'[v] = q[k]
      BY <1>3, <2>3, SMTT(30)
    <3>3. \/ q[k].up = s /\ q[k].slot = next
          \/ q[k].up > size
      BY <1>10
    <3>4. ~(q[k].up > size)
      <4>1. q[k].up \in 1..(u - 1) /\ u \in 2..size /\ size \in Nat
        BY <1>1, <2>3, <3>1, <3>2
      <4> HIDE DEF size
      <4> QED BY <4>1
    <3>5. rt'[u].slot \in DOMAIN r.task
      BY <3>1, <3>2, <3>3, <3>4
    <3>6. rt'[v].slot = next
      BY <3>2, <3>3, <3>4
    <3> HIDE DEF next
    <3>7. rt'[u].slot \in 1..(next - 1) /\ next \in Nat
      BY <1>4, <3>5
    <3>8. \A i \in 1..(next - 1) : i < next
      BY <3>7
    <3>9. rt'[u].slot < next
      BY <3>7, <3>8
    <3> QED BY <3>6, <3>9
  <2>4. ASSUME NEW k \in DOMAIN q, u = size + k, v \in 2..size PROVE FALSE
    BY <1>1, <2>4
  <2> HIDE DEF size, width
  <2> QED BY <1>14, <2>1, <2>2, <2>3, <2>4
<1>18. Obeys'
  <2> SUFFICES ASSUME NEW v \in 2..(size + width), rt'[v].status = "running"
               PROVE  /\ rt'[rt'[v].up].task[rt'[v].slot].signal => Told(rt'[v])
                      /\ Asked(rt'[v]) => rt'[rt'[v].up].task[rt'[v].slot].signal
    BY <1>3, Zenon DEF Obeys, SlotOf, Told, Asked, HasShutdown
  <2>1. CASE v \in 2..size /\ v \in DOMAIN rt
    BY <1>6, <1>7, <2>1, Zenon
  <2>2. ASSUME NEW k \in DOMAIN q, v = size + k
        PROVE  ~rt'[rt'[v].up].task[rt'[v].slot].signal /\ ~Asked(rt'[v])
    <3>1. rt'[v] = q[k]
      BY <1>3, <2>2
    <3> QED BY <1>10, <1>20, <3>1
  <2> QED BY <1>14, <2>1, <2>2, ZenonT(40)
<1> QED BY <1>3, <1>11, <1>12, <1>13, <1>15, <1>16, <1>17, <1>18 DEF IInv, TreeOk

\* A child c is started by runtime s, which holds it as d from then on (y: what
\* else became of the runtime): the other tasks of that id are those of a child
\* that was stopped.
LEMMA StartStep ==
  ASSUME IInv, NEW s \in DOMAIN rt, NEW y \in Runtime, rt[s].status = "running",
         y.up = rt[s].up, y.slot = rt[s].slot, y.node = rt[s].node, y.status = rt[s].status,
         y.timers = rt[s].timers, y.task = rt[s].task,
         NEW c, c.id \in Id, c.kind \in Kind, NEW linked \in BOOLEAN,
         NEW d, d.task = Len(rt[s].task) + 1, d.id = c.id, d.kind = c.kind,
         SetOf(y.queue) \subseteq SetOf(rt[s].queue),
         \A m \in SetOf(rt[s].queue) : m \in SetOf(y.queue) \/ m.cmd \notin About \cup {"Shutdown"},
         {y.work.op, rt[s].work.op} \cap {"shutdown", "escalate"} = {},
         Distinct(y), Shaped(y), y.work.stage = "next", y.work.op # "all",
         y.work.op = "respawn" =>
           \A b \in SetOf(y.work.todo) : b \in HeldBy(rt[s]) /\ StoppedIn(rt[s], b),
         d \in HeldBy(y), HeldBy(y) \subseteq HeldBy(rt[s]) \cup {d},
         \A b \in HeldBy(rt[s]) : b \in HeldBy(y) \/ ~Loose(rt[s].task[b.task]),
         c.kind = "Supervisor" =>
           /\ c.id \in NestedIds(config.nodes, rt[s].node)
           /\ \A b \in HeldBy(rt[s]) : b.id = c.id => ~Loose(rt[s].task[b.task]),
         \A b \in Stays(y) : b.kind = "Supervisor" =>
           b = d \/ (b \in Stays(rt[s]) /\ (Excused(rt[s], b) => Excused(y, b))),
         rt' = Started(s, y, c, linked), config' = config, RestTyped
  PROVE  IInv'
<1> DEFINE r == rt[s]
           e == NewTask(c, linked)
           ts == Append(r.task, e)
           x == [y EXCEPT !.task = ts]
           next == Len(r.task) + 1
           nodes == config.nodes
           n == CHOOSE m \in DOMAIN nodes : nodes[m].name = c.id
           q == IF c.kind = "Worker" THEN <<>> ELSE Subtree(config, n, s, next, Len(rt))
<1>1. r \in Runtime /\ Sound(nodes, r) /\ r.task \in Seq(Task) /\ next \in Nat
  <2>1. r \in Runtime /\ Sound(nodes, r)
    BY At1
  <2> QED BY <2>1, RuntimeTypes
<1>2. /\ e \in Task /\ e.id = c.id /\ e.kind = c.kind
      /\ ~e.signal /\ ~Over(e) /\ Loose(e)
  BY NewTaskIs
<1>3. rt' = Put(s, x) \o q
  <2>1. x = [y EXCEPT !.task = Append(@, NewTask(c, linked))]
    OBVIOUS
  <2>2. Len(y.task) + 1 = next
    OBVIOUS
  <2> HIDE DEF next
  <2>3. Started(s, y, c, linked) =
          Put(s, [y EXCEPT !.task = Append(@, NewTask(c, linked))]) \o
            (IF c.kind = "Worker" THEN <<>> ELSE Subtree(config, n, s, Len(y.task) + 1, Len(rt)))
    BY DEF Started
  <2> HIDE DEF x, n
  <2> QED BY <2>1, <2>2, <2>3
<1> HIDE DEF e
<1>4. /\ ts \in Seq(Task) /\ Forward(r.task, ts) /\ SameNested(r.task, ts)
      /\ \A t \in DOMAIN r.task : t \in DOMAIN ts /\ ts[t] = r.task[t]
  BY <1>1, <1>2, OneMore
<1> DEFINE us == ts
<1> HIDE DEF us
<1>5. /\ x \in Runtime /\ x.task = us /\ x.queue = y.queue /\ x.children = y.children
      /\ x.work = y.work /\ x.up = r.up /\ x.slot = r.slot /\ x.node = r.node
      /\ x.status = r.status /\ x.timers = r.timers
  <2>1. us \in Seq(Task)
    BY <1>4 DEF us
  <2>2. x = [y EXCEPT !.task = us]
    BY DEF us
  <2> HIDE DEF x
  <2> QED BY <2>1, <2>2 DEF Runtime
<1>6. us = Append(r.task, e)
  BY DEF us
<1> HIDE DEF x, r
<1>7. HeldBy(x) = HeldBy(y) /\ Stays(x) = Stays(y) /\ (\A b : Excused(y, b) <=> Excused(x, b))
  BY <1>5 DEF HeldBy, Stays, Excused
<1>8. Distinct(x) /\ Shaped(x)
  BY <1>5 DEF Distinct, Shaped, r
<1>9. Halted(x)
  <2> SUFFICES ASSUME x.work.op = "respawn", NEW b \in SetOf(x.work.todo)
               PROVE  StoppedIn(x, b)
    BY <1>5 DEF Halted
  <2>1. b \in HeldBy(r) /\ StoppedIn(r, b)
    BY <1>5 DEF r
  <2>2. b.task \in DOMAIN r.task /\ r.task[b.task].kind = b.kind
    BY <1>1, <2>1, HeldLists
  <2>3. Forward(r.task, x.task)
    BY <1>4, <1>5 DEF us
  <2> QED BY <2>1, <2>2, <2>3, StoppedStays
<1>10. Sound(nodes, x)
  <2>1. e.kind = "Supervisor" =>
          /\ e.id \in NestedIds(nodes, r.node)
          /\ \A b \in HeldBy(r) : b.id = e.id => ~Loose(r.task[b.task])
    BY <1>2 DEF r
  <2>2. d.task = Len(r.task) + 1 /\ d.id = e.id /\ d.kind = e.kind /\ x.task = Append(r.task, e)
    BY <1>2, <1>5, <1>6 DEF r
  <2>3. /\ d \in HeldBy(x) /\ HeldBy(x) \subseteq HeldBy(r) \cup {d}
        /\ \A b \in HeldBy(r) : b \in HeldBy(x) \/ ~Loose(r.task[b.task])
        /\ \A b \in Stays(x) : b.kind = "Supervisor" =>
             b = d \/ (b \in Stays(r) /\ (Excused(r, b) => Excused(x, b)))
    BY <1>7 DEF r
  <2>4. /\ SetOf(x.queue) \subseteq SetOf(r.queue)
        /\ \A m \in SetOf(r.queue) : m.cmd \in About => m \in SetOf(x.queue)
    BY <1>5 DEF r
  <2>5. r.status = "running"
    BY DEF r
  <2> HIDE DEF nodes
  <2> QED BY <1>1, <1>2, <1>5, <1>8, <1>9, <2>1, <2>2, <2>3, <2>4, <2>5, SpawnSound
<1>11. (Told(r) => Told(x)) /\ (Asked(x) => Asked(r))
  <2>1. HasShutdown(x) <=> HasShutdown(r)
    BY <1>5 DEF HasShutdown, r
  <2> QED BY <1>5, <2>1 DEF Told, Asked, r
<1>12. /\ q \in Seq(Runtime)
       /\ \/ q = <<>> /\ e.kind = "Worker"
          \/ /\ e.kind = "Supervisor"
             /\ \E m \in DOMAIN nodes : nodes[m].name = e.id /\ Branch(nodes, q, m, s, next, Len(rt))
  <2>1. CASE c.kind = "Worker"
    BY <1>2, <2>1
  <2>2. CASE c.kind # "Worker"
    <3>1. c.kind = "Supervisor"
      BY <2>2 DEF Kind
    <3>2. config \in Tree /\ WellFormed(nodes) /\ Len(rt) \in Nat /\ DOMAIN rt = 1..Len(rt)
      BY Numbers
    <3>3. r.node \in DOMAIN nodes /\ c.id \in NestedIds(nodes, r.node)
      BY <1>1, <3>1 DEF Sound, r
    <3>4. \E m \in DOMAIN nodes : nodes[m].name = c.id
      <4> DEFINE a == r.node
                 b == c.id
      <4>1. a \in DOMAIN nodes /\ b \in NestedIds(nodes, a) /\ WellFormed(nodes)
        BY <3>2, <3>3
      <4> HIDE DEF nodes, a
      <4>2. \E m \in DOMAIN nodes : a < m /\ nodes[m].name = b
        BY <4>1 DEF WellFormed
      <4> QED BY <4>2
    <3>5. n \in DOMAIN nodes /\ nodes[n].name = c.id
      BY <3>4
    <3>6. s \in Nat
      BY <3>2
    <3> HIDE DEF n, next, q
    <3>7. q = Subtree(config, n, s, next, Len(rt))
      BY <2>2 DEF q
    <3>8. Branch(nodes, q, n, s, next, Len(rt))
      BY <1>1, <3>2, <3>5, <3>6, <3>7, SubtreeIs
    <3> HIDE DEF nodes
    <3>9. q \in Seq(Runtime)
      BY <3>8 DEF Branch
    <3> QED BY <1>2, <3>1, <3>5, <3>8, <3>9
  <2> QED BY <2>1, <2>2
<1> HIDE DEF q
<1>13. /\ x.up = rt[s].up /\ x.slot = rt[s].slot /\ x.node = rt[s].node /\ x.status = rt[s].status
       /\ x.task = Append(rt[s].task, e)
       /\ (Told(rt[s]) => Told(x)) /\ (Asked(x) => Asked(rt[s]))
  BY <1>5, <1>6, <1>11 DEF r
<1> HIDE DEF n
<1>14. next = Len(rt[s].task) + 1
  BY DEF r
<1> QED BY <1>2, <1>3, <1>5, <1>10, <1>12, <1>13, <1>14, Grown

\* The worker a call asks for.
LEMMA RequestIs ==
  ASSUME IInv, NEW s \in DOMAIN rt, ~Listed(s, First(s).id),
         Receives(s, "StartChild") \/ Receives(s, "StartChildLinked")
  PROVE  /\ rt[s].status = "running" /\ rt[s].work.op = "idle" /\ rt[s].queue # <<>>
         /\ First(s).cmd \notin About \cup {"Shutdown"} /\ First(s).client \in Client
         /\ LET c == Requested(s) IN
            /\ c \in Child /\ c.id \in Id /\ c.kind \in Kind /\ c.kind = "Worker"
            /\ c.task = Len(rt[s].task) + 1
            /\ \A b \in SetOf(rt[s].children) : b.id # c.id
<1>1. rt[s] \in Runtime
  BY At1
<1>2. /\ rt[s].status = "running" /\ rt[s].work.op = "idle" /\ rt[s].queue # <<>>
      /\ First(s).cmd \in {"StartChild", "StartChildLinked"}
  BY ReceivesSome
<1>3. First(s).client \in Client /\ First(s).id \in Id /\ First(s).policy \in Policy
  BY <1>2, FirstIsQueued, CallCarries DEF CallName
<1>4. Len(rt[s].task) + 1 \in Nat
  BY <1>1, RuntimeTypes
<1>5. \A b \in SetOf(rt[s].children) : b.id # First(s).id
  BY DEF Listed
<1> DEFINE c == Requested(s)
<1>6. /\ c.id = First(s).id /\ c.kind = "Worker" /\ c.task = Len(rt[s].task) + 1
      /\ c \in Child
  BY <1>3, <1>4 DEF Requested, Child, Kind
<1> HIDE DEF c
<1>7. c.kind \in Kind /\ c.id \in Id
  BY <1>3, <1>6 DEF Kind
<1> QED BY <1>2, <1>3, <1>5, <1>6, <1>7 DEF About, c

\* A worker is started and listed.
LEMMA StartChildStep ==
  ASSUME IInv, NEW s \in DOMAIN rt, HandleStartChild(s)
  PROVE  IInv'
<1> DEFINE r == rt[s]
           c == Requested(s)
           q == Tail(r.queue)
           cs == Append(r.children, c)
           y == Edited(r, q, cs, r.work, r.tracked, r.task)
<1>1. r \in Runtime /\ Sound(config.nodes, r)
  BY At1
<1>2. /\ r.status = "running" /\ r.work.op = "idle" /\ r.queue # <<>>
      /\ First(s).cmd \notin About \cup {"Shutdown"}
      /\ c \in Child /\ c.id \in Id /\ c.kind \in Kind /\ c.kind = "Worker"
      /\ c.task = Len(rt[s].task) + 1
      /\ \A b \in SetOf(r.children) : b.id # c.id
  BY RequestIs DEF HandleStartChild
<1>3. /\ r.children \in Seq(Child) /\ DistinctIds(r.children)
      /\ HeldBy(r) = SetOf(r.children) /\ Stays(r) = SetOf(r.children)
      /\ r.work.todo = <<>> /\ r.work.back = <<>> /\ \A d : ~Excused(r, d)
  BY <1>1, <1>2, IdleLists, IdleHolds
<1>4. q \in Seq(Command) /\ SetOf(r.queue) = {First(s)} \cup SetOf(q)
  BY <1>1, <1>2, Queued DEF First
<1> HIDE DEF c
<1>5. cs \in Seq(Child) /\ SetOf(cs) = SetOf(r.children) \cup {c} /\ DistinctIds(cs)
  BY <1>2, <1>3, SetOfAppend, DistinctAppend, AppendProperties
<1>6. rt' = Started(s, y, c, FALSE)
  <2>1. [Taken(s) EXCEPT !.children = Append(@, c)] = y
    BY <1>1 DEF Taken, Edited, Runtime
  <2> HIDE DEF y
  <2> QED BY <2>1 DEF HandleStartChild, c
<1> HIDE DEF cs, q
<1>7. /\ y \in Runtime /\ y.queue = q /\ y.children = cs /\ y.work = r.work /\ y.task = r.task
      /\ y.up = r.up /\ y.slot = r.slot /\ y.node = r.node /\ y.status = r.status
      /\ y.timers = r.timers
  BY <1>1, <1>4, <1>5, HeldLists, EditedIs
<1> HIDE DEF y
<1>8. HeldBy(y) = HeldBy(r) \cup {c} /\ Stays(y) = Stays(r) \cup {c}
  BY <1>3, <1>5, <1>7, Few DEF HeldBy, Stays
<1>9. Distinct(y)
  BY <1>2, <1>3, <1>5, <1>7, Few DEF Distinct
<1>10. Shaped(y) /\ y.work.stage = "next"
  BY <1>1, <1>2, <1>3, <1>7 DEF Sound, Shaped
<1>11. RestTyped /\ config' = config
  <2>1. "Ok" \in Answer
    BY DEF Answer
  <2> QED BY <2>1, RestStays DEF HandleStartChild
<1>12. /\ SetOf(y.queue) \subseteq SetOf(r.queue)
       /\ \A m \in SetOf(r.queue) : m \in SetOf(y.queue) \/ m.cmd \notin About \cup {"Shutdown"}
       /\ {y.work.op, r.work.op} \cap {"shutdown", "escalate"} = {}
       /\ y.work.op # "all" /\ y.work.op # "respawn"
  BY <1>2, <1>4, <1>7
<1>13. c.kind # "Supervisor"
  BY <1>2
<1> QED BY <1>2, <1>3, <1>6, <1>7, <1>8, <1>9, <1>10, <1>11, <1>12, <1>13, StartStep

\* A worker is started, and its initialisation awaited.
LEMMA StartLinkedStep ==
  ASSUME IInv, NEW s \in DOMAIN rt, HandleStartChildLinked(s)
  PROVE  IInv'
<1> DEFINE r == rt[s]
           c == Requested(s)
           q == Tail(r.queue)
           one == <<c>>
           w0 == Begin("link", one)
           w == [w0 EXCEPT !.client = {First(s).client}]
           y == Edited(r, q, r.children, w, r.tracked, r.task)
<1>1. r \in Runtime /\ Sound(config.nodes, r)
  BY At1
<1>2. /\ r.status = "running" /\ r.work.op = "idle" /\ r.queue # <<>>
      /\ First(s).cmd \notin About \cup {"Shutdown"} /\ First(s).client \in Client
      /\ c \in Child /\ c.id \in Id /\ c.kind \in Kind /\ c.kind = "Worker"
      /\ c.task = Len(rt[s].task) + 1
      /\ \A b \in SetOf(r.children) : b.id # c.id
  BY RequestIs DEF HandleStartChildLinked
<1>3. /\ r.children \in Seq(Child) /\ DistinctIds(r.children)
      /\ HeldBy(r) = SetOf(r.children) /\ Stays(r) = SetOf(r.children)
      /\ \A d : ~Excused(r, d)
  BY <1>1, <1>2, IdleLists
<1>4. q \in Seq(Command) /\ SetOf(r.queue) = {First(s)} \cup SetOf(q)
  BY <1>1, <1>2, Queued DEF First
<1> HIDE DEF c
<1>5. /\ one \in Seq(Child) /\ SetOf(one) = {c} /\ DistinctIds(one) /\ Len(one) = 1
      /\ one[1] = c
  BY <1>2, Few
<1>6. rt' = Started(s, y, c, TRUE)
  <2>1. [Taken(s) EXCEPT !.work = w] = y
    BY <1>1 DEF Taken, Edited, Runtime
  <2> HIDE DEF y
  <2> QED BY <2>1 DEF HandleStartChildLinked, c
<1> HIDE DEF one, q
<1>7. w0 \in Work /\ w0.op = "link" /\ w0.stage = "next" /\ w0.todo = one /\ w0.back = <<>>
  BY <1>5, BeginIs
<1> HIDE DEF w0
<1>8. w \in Work /\ w.op = "link" /\ w.stage = "next" /\ w.todo = one /\ w.back = <<>>
  <2>1. {First(s).client} \in SUBSET Client
    BY <1>2
  <2> QED BY <1>7, <2>1 DEF Work
<1> HIDE DEF w
<1>9. /\ y \in Runtime /\ y.queue = q /\ y.children = r.children /\ y.work = w /\ y.task = r.task
      /\ y.up = r.up /\ y.slot = r.slot /\ y.node = r.node /\ y.status = r.status
      /\ y.timers = r.timers
  BY <1>1, <1>4, <1>8, HeldLists, EditedIs
<1> HIDE DEF y
<1>10. HeldBy(y) = HeldBy(r) \cup {c} /\ Stays(y) = Stays(r)
  BY <1>3, <1>5, <1>8, <1>9, Few DEF HeldBy, Stays
<1>11. Distinct(y)
  <2>1. Apart(r.children, one)
    BY <1>2, <1>5 DEF Apart
  <2> QED BY <1>3, <1>5, <1>8, <1>9, <2>1, Few DEF Distinct
<1>12. Shaped(y)
  BY <1>2, <1>5, <1>8, <1>9 DEF Shaped
<1>13. RestTyped /\ config' = config
  BY RestStays DEF HandleStartChildLinked
<1>14. /\ SetOf(y.queue) \subseteq SetOf(r.queue)
       /\ \A m \in SetOf(r.queue) : m \in SetOf(y.queue) \/ m.cmd \notin About \cup {"Shutdown"}
       /\ {y.work.op, r.work.op} \cap {"shutdown", "escalate"} = {}
       /\ y.work.op # "all" /\ y.work.op # "respawn" /\ y.work.stage = "next"
  BY <1>2, <1>4, <1>8, <1>9
<1>15. c.kind # "Supervisor"
  BY <1>2
<1> QED BY <1>2, <1>3, <1>6, <1>9, <1>10, <1>11, <1>12, <1>13, <1>14, <1>15, StartStep

\* A child that has a new task.
LEMMA AnewIs ==
  ASSUME NEW s, rt[s] \in Runtime, NEW c \in Child
  PROVE  LET d == WithNewTask(s, c) IN
         d \in Child /\ d.id = c.id /\ d.kind = c.kind /\ d.task = Len(rt[s].task) + 1
<1>1. Len(rt[s].task) + 1 \in Nat
  BY RuntimeTypes
<1> QED BY <1>1 DEF WithNewTask, Child

\* The one child is replaced.
LEMMA RestartOneStep ==
  ASSUME IInv, NEW s \in DOMAIN rt, RestartOne(s)
  PROVE  IInv'
<1> DEFINE r == rt[s]
<1>1. PICK i \in DOMAIN r.children :
        /\ r.children[i] = Head(r.work.todo)
        /\ rt' = Started(s, [r EXCEPT !.work = Idle, !.children[i] = WithNewTask(s, @)],
                         r.children[i], FALSE)
  BY Zenon DEF RestartOne
<1> DEFINE c == r.children[i]
           d == WithNewTask(s, c)
           cs == ReplacedAt(r.children, i, d)
           y == Edited(r, r.queue, cs, Idle, r.tracked, r.task)
<1>2. r \in Runtime /\ Sound(config.nodes, r)
  BY At1
<1>3. r.work.op = "one" /\ HeadStopped(s)
  BY DEF RestartOne
<1>4. /\ r.children \in Seq(Child) /\ r.work.todo \in Seq(Child)
      /\ \A b \in HeldBy(r) : b \in Child /\ (b.kind = "Supervisor" => b.id \in NestedIds(config.nodes, r.node))
      /\ SetOf(r.children) \subseteq Stays(r) /\ Stays(r) \subseteq HeldBy(r)
  BY <1>2, HeldLists DEF Sound, Placed
<1>5. c = Head(r.work.todo) /\ c \in HeldBy(r) /\ c \in SetOf(r.children)
      /\ c \in Child /\ ~Loose(r.task[c.task])
  <2>1. c \in SetOf(r.children)
    BY <1>4, SetOfIn
  <2> QED BY <1>1, <1>3, <1>4, <2>1, HeadGone
<1>6. /\ d \in Child /\ d.id = c.id /\ d.kind = c.kind /\ d.task = Len(rt[s].task) + 1
  BY <1>2, <1>5, AnewIs
<1>7. /\ HeldBy(r) = SetOf(r.children) /\ Stays(r) = SetOf(r.children) /\ DistinctIds(r.children)
      /\ r.status = "running"
  <2>1. r.work.back = <<>> /\ r.status = "running"
    BY <1>2, <1>3, RuntimeTypes DEF Sound, Shaped
  <2>2. DistinctIds(r.children) /\ SetOf(r.work.todo) \subseteq SetOf(r.children)
    BY <1>2, <1>3 DEF Sound, Distinct
  <2> QED BY <2>1, <2>2, Few DEF HeldBy, Stays
<1>8. \A b \in HeldBy(r) : b.id = c.id => b = c
  BY <1>4, <1>7, SetOfIn DEF DistinctIds
<1>9. rt' = Started(s, y, c, FALSE)
  <2>1. [r EXCEPT !.work = Idle, !.children[i] = WithNewTask(s, @)] = y
    BY <1>2 DEF Edited, ReplacedAt, Runtime
  <2> HIDE DEF y
  <2> QED BY <1>1, <2>1
<1> HIDE DEF d, c
<1>10. /\ SetOf(cs) \subseteq SetOf(r.children) \cup {d}
       /\ SetOf(r.children) \subseteq SetOf(cs) \cup {c}
       /\ d \in SetOf(cs) /\ DistinctIds(cs)
       /\ \A b \in SetOf(cs) : b # d => b.id # c.id
  <2>1. d.id = r.children[i].id /\ c = r.children[i]
    BY <1>6 DEF c
  <2> QED BY <1>4, <1>6, <1>7, <2>1, DistinctReplaced
<1>11. cs \in Seq(Child)
  BY <1>4, <1>6, Replaced DEF ReplacedAt
<1> HIDE DEF cs
<1>12. /\ y \in Runtime /\ y.queue = r.queue /\ y.children = cs /\ y.work = Idle /\ y.task = r.task
       /\ y.up = r.up /\ y.slot = r.slot /\ y.node = r.node /\ y.status = r.status
       /\ y.timers = r.timers
  BY <1>2, <1>11, IdleIs, HeldLists, EditedIs
<1> HIDE DEF y
<1>13. HeldBy(y) = SetOf(cs) /\ Stays(y) = SetOf(cs)
  BY <1>12, IdleIs, Few DEF HeldBy, Stays
<1>14. Distinct(y)
  BY <1>10, <1>12, IdleIs, Few DEF Distinct
<1>15. Shaped(y)
  BY <1>7, <1>12, IdleIs DEF Shaped
<1>16. \A b \in HeldBy(r) : b \in HeldBy(y) \/ ~Loose(r.task[b.task])
  BY <1>5, <1>7, <1>10, <1>13
<1>17. \A b \in HeldBy(r) : b.id = c.id => ~Loose(r.task[b.task])
  BY <1>5, <1>8
<1>18. \A b \in Stays(y) : b = d \/ (b \in Stays(r) /\ (Excused(r, b) => Excused(y, b)))
  <2> TAKE b \in Stays(y)
  <2> SUFFICES ASSUME b # d PROVE b \in Stays(r) /\ ~Excused(r, b)
    OBVIOUS
  <2>1. b \in Stays(r) /\ b # c
    BY <1>7, <1>10, <1>13
  <2> QED BY <1>3, <1>5, <2>1 DEF Excused
<1>19. RestTyped /\ config' = config
  BY RestStays DEF RestartOne
<1>20. /\ {y.work.op, r.work.op} \cap {"shutdown", "escalate"} = {}
       /\ y.work.op # "all" /\ y.work.op # "respawn" /\ y.work.stage = "next"
  BY <1>3, <1>12, IdleIs
<1>21. c.id \in Id /\ c.kind \in Kind
  BY <1>5 DEF Child
<1>22. c.kind = "Supervisor" => c.id \in NestedIds(config.nodes, rt[s].node)
  BY <1>4, <1>5
<1>23. d \in HeldBy(y) /\ HeldBy(y) \subseteq HeldBy(r) \cup {d}
  BY <1>7, <1>10, <1>13
<1> HIDE DEF r
<1>24. /\ y.up = rt[s].up /\ y.slot = rt[s].slot /\ y.node = rt[s].node /\ y.status = rt[s].status
       /\ y.timers = rt[s].timers /\ y.task = rt[s].task /\ y.queue = rt[s].queue
       /\ rt[s].status = "running"
  BY <1>7, <1>12 DEF r
<1> QED BY <1>6, <1>9, <1>12, <1>14, <1>15, <1>16, <1>17, <1>18, <1>19, <1>20, <1>21, <1>22,
           <1>23, <1>24, StartStep, ZenonT(40) DEF r

\* The next child of a round, stopped before, is started anew or leaves.
LEMMA RespawnStep ==
  ASSUME IInv, NEW s \in DOMAIN rt, RespawnHead(s)
  PROVE  IInv'
<1> DEFINE r == rt[s]
           c == Head(r.work.todo)
           l == Tail(r.work.todo)
           cs == r.children
           bs == r.work.back
<1>1. r \in Runtime /\ Sound(config.nodes, r)
  BY At1
<1>2. /\ r.work.op \in {"respawn", "from"} /\ r.work.todo # <<>> /\ c \in HeldBy(r)
      /\ ~Loose(r.task[c.task])
  <2>1. CASE r.work.op = "respawn" /\ r.work.todo # <<>>
    <3>1. c \in SetOf(r.work.todo) /\ c \in HeldBy(r) /\ c \in Child /\ r.task[c.task].kind = c.kind
      BY <1>1, <2>1, HeldLists
    <3>2. StoppedIn(r, c)
      BY <1>1, <2>1, <3>1 DEF Sound, Halted
    <3> QED BY <2>1, <3>1, <3>2 DEF StoppedIn, Loose
  <2>2. CASE r.work.op = "from" /\ HeadStopped(s)
    BY <2>2, HeadGone
  <2> QED BY <2>1, <2>2 DEF RespawnHead
<1>3. Distinct(r) /\ Shaped(r) /\ Halted(r)
  BY <1>1 DEF Sound
<1>4. /\ r.work \in Work /\ r.queue \in Seq(Command) /\ r.tracked \in SUBSET Id /\ r.task \in Seq(Task)
      /\ cs \in Seq(Child) /\ r.work.todo \in Seq(Child) /\ bs \in Seq(Child)
      /\ c \in Child /\ (c.kind = "Supervisor" => c.id \in NestedIds(config.nodes, r.node))
  BY <1>1, <1>2, HeldLists DEF Sound, Placed
<1>5. /\ DistinctIds(cs) /\ DistinctIds(r.work.todo) /\ DistinctIds(bs)
      /\ Apart(cs, bs) /\ Apart(r.work.todo, bs) /\ Apart(cs, r.work.todo)
  BY <1>2, <1>3 DEF Distinct
<1>6. /\ l \in Seq(Child) /\ SetOf(r.work.todo) = {c} \cup SetOf(l) /\ DistinctIds(l)
      /\ \A b \in SetOf(l) : b.id # c.id
  BY <1>2, <1>4, <1>5, SetOfHead, DistinctHead
<1>7. HeldBy(r) = SetOf(cs) \cup SetOf(bs) \cup SetOf(l) \cup {c} /\ Stays(r) = SetOf(cs) \cup SetOf(bs)
  BY <1>6 DEF HeldBy, Stays
<1>8. \A b : ~Excused(r, b)
  BY <1>2 DEF Excused
<1>9. \A b \in SetOf(cs) \cup SetOf(bs) : b.id # c.id
  BY <1>5, <1>6 DEF Apart
<1>10. /\ Apart(l, bs) /\ Apart(cs, l)
  BY <1>5, <1>6 DEF Apart
<1>11. r.status = "running"
  BY <1>1, <1>2, <1>3, RuntimeTypes DEF Shaped
<1>12. RestTyped /\ config' = config
  BY RestStays DEF RespawnHead
<1>13. r.work.op = "respawn" => \A b \in SetOf(l) : b \in HeldBy(r) /\ StoppedIn(r, b)
  BY <1>3, <1>6, <1>7 DEF Halted
<1>14. CASE LeavesSupervision(c)
  <2> DEFINE w == [r.work EXCEPT !.stage = "next", !.todo = l]
             tr == r.tracked \ {c.id}
             x == Edited(r, r.queue, cs, w, tr, r.task)
  <2>1. rt' = Put(s, x)
    <3>1. [[r EXCEPT !.work = Advanced(@)] EXCEPT !.tracked = @ \ {c.id}] = x
      BY <1>1 DEF Edited, Runtime, Advanced
    <3> HIDE DEF x
    <3> QED BY <1>14, <3>1 DEF RespawnHead
  <2> HIDE DEF l, cs, bs
  <2>2. w \in Work /\ w.op = r.work.op /\ w.stage = "next" /\ w.todo = l /\ w.back = bs
    BY <1>4, <1>6 DEF Work, bs
  <2>3. tr \in SUBSET Id
    BY <1>4
  <2> HIDE DEF w, tr
  <2>4. /\ x \in Runtime /\ x.queue = r.queue /\ x.children = cs /\ x.work = w /\ x.task = r.task
        /\ x.up = r.up /\ x.slot = r.slot /\ x.node = r.node /\ x.status = r.status
        /\ x.timers = r.timers
    BY <1>1, <1>4, <2>2, <2>3, EditedIs
  <2> HIDE DEF x, c
  <2>5. HeldBy(r) = HeldBy(x) \cup {c} /\ Stays(x) = Stays(r)
    BY <1>7, <2>2, <2>4 DEF HeldBy, Stays
  <2>6. Distinct(x)
    BY <1>2, <1>5, <1>6, <1>10, <2>2, <2>4 DEF Distinct
  <2>7. Shaped(x)
    BY <1>2, <1>11, <2>2, <2>4 DEF Shaped
  <2>8. Halted(x)
    BY <1>2, <1>13, <2>2, <2>4 DEF Halted, StoppedIn
  <2>9. Forward(r.task, x.task) /\ SameNested(r.task, x.task)
    BY <2>4, ForwardSame
  <2>10. \A b \in HeldBy(r) : b \in HeldBy(x) \/ ~Loose(x.task[b.task])
    BY <1>2, <2>4, <2>5
  <2> HIDE DEF r
  <2> QED BY <1>8, <1>12, <2>1, <2>2, <2>4, <2>5, <2>6, <2>7, <2>8, <2>9, <2>10, EditStep DEF r
<1>15. CASE ~LeavesSupervision(c)
  <2> DEFINE d == WithNewTask(s, c)
             ds == Append(bs, d)
             w == [r.work EXCEPT !.stage = "next", !.todo = l, !.back = ds]
             y == Edited(r, r.queue, cs, w, r.tracked, r.task)
  <2>1. /\ d \in Child /\ d.id = c.id /\ d.kind = c.kind /\ d.task = Len(rt[s].task) + 1
    BY <1>1, <1>4, AnewIs
  <2>2. rt' = Started(s, y, c, FALSE)
    <3>1. [[r EXCEPT !.work = Advanced(@)] EXCEPT !.work.back = Append(@, WithNewTask(s, c))] = y
      <4>1. [[r.work EXCEPT !.stage = "next", !.todo = l] EXCEPT !.back = Append(@, d)] = w
        BY <1>4 DEF Work
      <4> DEFINE v == [r.work EXCEPT !.stage = "next", !.todo = l]
      <4>2. [[r EXCEPT !.work = v] EXCEPT !.work.back = Append(@, d)]
              = [r EXCEPT !.work = [v EXCEPT !.back = Append(@, d)]]
        <5> HIDE DEF v, d
        <5> QED BY <1>1 DEF Runtime
      <4>3. [r EXCEPT !.work = Advanced(@)] = [r EXCEPT !.work = v]
        BY <1>1 DEF Advanced, Runtime
      <4>4. [r EXCEPT !.work = w] = y
        <5> HIDE DEF w
        <5> QED BY <1>1 DEF Edited, Runtime
      <4> HIDE DEF w, v, y
      <4>5. [v EXCEPT !.back = Append(@, d)] = w
        BY <4>1 DEF v
      <4> QED BY <4>2, <4>3, <4>4, <4>5
    <3> HIDE DEF y
    <3> QED BY <1>15, <3>1 DEF RespawnHead
  <2> HIDE DEF l, cs, bs, d, c
  <2>3. ds \in Seq(Child) /\ SetOf(ds) = SetOf(bs) \cup {d} /\ DistinctIds(ds)
    BY <1>4, <1>5, <1>9, <2>1, SetOfAppend, DistinctAppend, AppendProperties
  <2> HIDE DEF ds
  <2>4. w \in Work /\ w.op = r.work.op /\ w.stage = "next" /\ w.todo = l /\ w.back = ds
    BY <1>4, <1>6, <2>3 DEF Work
  <2> HIDE DEF w
  <2>5. /\ y \in Runtime /\ y.queue = r.queue /\ y.children = cs /\ y.work = w /\ y.task = r.task
        /\ y.up = r.up /\ y.slot = r.slot /\ y.node = r.node /\ y.status = r.status
        /\ y.timers = r.timers
    BY <1>1, <1>4, <2>4, EditedIs
  <2> HIDE DEF y
  <2>6. /\ HeldBy(y) = SetOf(cs) \cup SetOf(bs) \cup SetOf(l) \cup {d}
        /\ Stays(y) = SetOf(cs) \cup SetOf(bs) \cup {d}
    BY <2>3, <2>4, <2>5 DEF HeldBy, Stays
  <2>7. Distinct(y)
    <3>1. Apart(cs, ds) /\ Apart(l, ds)
      BY <1>5, <1>6, <1>9, <1>10, <2>1, <2>3 DEF Apart
    <3> QED BY <1>2, <1>5, <1>6, <1>10, <2>3, <2>4, <2>5, <3>1 DEF Distinct
  <2>8. Shaped(y)
    BY <1>2, <1>11, <2>4, <2>5 DEF Shaped
  <2>9. /\ d \in HeldBy(y) /\ HeldBy(y) \subseteq HeldBy(r) \cup {d}
        /\ \A b \in HeldBy(r) : b \in HeldBy(y) \/ ~Loose(r.task[b.task])
        /\ \A b \in HeldBy(r) : b.id = c.id => ~Loose(r.task[b.task])
        /\ \A b \in Stays(y) : b = d \/ b \in Stays(r)
    BY <1>2, <1>6, <1>7, <1>9, <2>6
  <2>10. /\ {y.work.op, r.work.op} \cap {"shutdown", "escalate"} = {}
         /\ y.work.op # "all" /\ y.work.stage = "next"
         /\ y.work.op = "respawn" =>
              \A b \in SetOf(y.work.todo) : b \in HeldBy(r) /\ StoppedIn(r, b)
    BY <1>2, <1>13, <2>4, <2>5
  <2>11. c.id \in Id /\ c.kind \in Kind
    BY <1>4 DEF Child
  <2> HIDE DEF r
  <2>12. /\ y.up = rt[s].up /\ y.slot = rt[s].slot /\ y.node = rt[s].node /\ y.status = rt[s].status
         /\ y.timers = rt[s].timers /\ y.task = rt[s].task /\ y.queue = rt[s].queue
         /\ rt[s].status = "running"
    BY <1>11, <2>5 DEF r
  <2> QED BY <1>4, <1>8, <1>12, <2>1, <2>2, <2>5, <2>7, <2>8, <2>9, <2>10, <2>11, <2>12,
             StartStep, ZenonT(40) DEF r
<1> QED BY <1>14, <1>15

(***************************************************************************)
(* The invariant holds, and with it the properties.                        *)
(***************************************************************************)

\* The tree that is started.
LEMMA InitIs ==
  ASSUME Init
  PROVE  IInv
<1> DEFINE nodes == config.nodes
           size == Len(rt)
<1>1. config \in Trees /\ config \in Tree /\ WellFormed(nodes)
  BY TreesAssumption DEF Init
<1>2. nodes \in Seq(Node) /\ nodes # <<>>
  BY <1>1 DEF Tree, WellFormed
<1>3. 1 \in DOMAIN nodes /\ DOMAIN nodes = 1..Len(nodes)
  BY <1>2, LenProperties, EmptySeq
<1>4. Branch(nodes, rt, 1, 0, 0, 0)
  <2>1. rt = Subtree(config, 1, 0, 0, 0)
    BY DEF Init
  <2>2. Branch(nodes, Subtree(config, 1, 0, 0, 0), 1, 0, 0, 0)
    BY <1>1, <1>3, SubtreeIs
  <2> QED BY <2>1, <2>2
<1> HIDE DEF nodes
<1>5. /\ rt \in Seq(Runtime) /\ rt # <<>> /\ size \in Nat /\ DOMAIN rt = 1..size /\ rt[1].up = 0
      /\ \A v \in DOMAIN rt : Fresh(nodes, rt[v]) /\ rt[v].node = 1 + v - 1
  BY <1>4, LenProperties DEF Branch
<1>6. \A v \in 2..size :
        /\ v \in DOMAIN rt /\ rt[v].up \in 1..(v - 1) /\ rt[v].up \in DOMAIN rt
        /\ rt[v].slot \in DOMAIN rt[rt[v].up].task
        /\ SlotOf(v).kind = "Supervisor" /\ SlotOf(v).id = nodes[rt[v].node].name
        /\ ~Over(SlotOf(v)) /\ ~SlotOf(v).signal
  <2> TAKE v \in 2..size
  <2>1. PICK j \in 1..(v - 1) :
          /\ rt[v].up = 0 + j /\ rt[v].slot \in DOMAIN rt[j].task
          /\ rt[j].task[rt[v].slot].kind = "Supervisor"
          /\ rt[j].task[rt[v].slot].id = nodes[rt[v].node].name
    BY <1>4 DEF Branch
  <2>2. rt[v].up = j /\ j \in DOMAIN rt /\ v \in DOMAIN rt
    BY <1>5, <2>1
  <2>3. Fresh(nodes, rt[j])
    BY <1>5, <2>2
  <2> QED BY <2>1, <2>2, <2>3 DEF Fresh, SlotOf
<1>7. \A u, v \in DOMAIN rt : rt[u].node = rt[v].node => u = v
  <2>1. \A v \in DOMAIN rt : rt[v].node = 1 + v - 1
    BY <1>5
  <2> HIDE DEF size
  <2> QED BY <1>5, <2>1
<1>8. TreeShape
  BY <1>6 DEF TreeShape, SlotOf, SpecOf, nodes
<1>9. OneEach
  <2>1. ASSUME NEW u \in 2..size, NEW v \in 2..size, rt[u].up = rt[v].up, rt[u].slot = rt[v].slot
        PROVE  u = v
    <3>1. SlotOf(u) = SlotOf(v)
      BY <2>1 DEF SlotOf
    <3>2. nodes[rt[u].node].name = nodes[rt[v].node].name
      BY <1>6, <3>1
    <3>3. rt[u].node \in DOMAIN nodes /\ rt[v].node \in DOMAIN nodes
      BY <1>5, <1>6 DEF Fresh, Sound
    <3>4. rt[u].node = rt[v].node
      BY <1>1, <3>2, <3>3 DEF WellFormed
    <3> QED BY <1>6, <1>7, <3>4
  <2>2. ASSUME NEW s \in DOMAIN rt, NEW t \in DOMAIN rt[s].task, rt[s].task[t].kind = "Supervisor"
        PROVE  \E u \in 2..size : rt[u].up = s /\ rt[u].slot = t
    <3>1. PICK u \in 2..size : rt[u].up = 0 + s /\ rt[u].slot = t
      BY <1>4, <2>2 DEF Branch
    <3>2. 0 + s = s
      BY <1>5
    <3> QED BY <3>1, <3>2
  <2>3. \A u \in 2..size : Over(SlotOf(u)) <=> rt[u].status # "running"
    BY <1>5, <1>6 DEF Fresh
  <2> QED BY <2>1, <2>2, <2>3 DEF OneEach
<1>10. InOrder
  <2> SUFFICES ASSUME NEW u \in 2..size, NEW v \in 2..size, u < v, rt[u].node = rt[v].node
               PROVE  FALSE
    BY DEF InOrder
  <2>1. u = v
    BY <1>6, <1>7
  <2> QED BY <1>5, <2>1
<1>11. Obeys
  <2> SUFFICES ASSUME NEW u \in 2..size PROVE ~SlotOf(u).signal /\ ~Asked(rt[u])
    BY DEF Obeys, Asked
  <2>1. Fresh(nodes, rt[u]) /\ ~SlotOf(u).signal
    BY <1>5, <1>6
  <2>2. SetOf(rt[u].queue) = {}
    BY <2>1, Few DEF Fresh
  <2> QED BY <2>1, <2>2 DEF Fresh, Asked, HasShutdown
<1>12. VarTypes
  <2>1. /\ config.calls \in Nat /\ config.faults \in Nat /\ config.uses \in Nat
    BY <1>1, TreesAssumption DEF Tree
  <2>2. store \in [DOMAIN config.nodes -> Contexts]
    <3> DEFINE e == [value |-> -1, expected |-> -1, holder |-> <<>>]
    <3>1. e \in Contexts
      BY DEF Contexts
    <3> HIDE DEF e
    <3>2. store = [n \in DOMAIN config.nodes |-> e]
      BY DEF Init, e
    <3> QED BY <3>1, <3>2
  <2>3. answer \in [Client -> Answer]
    <3>1. "-" \in Answer
      BY DEF Answer
    <3> QED BY <3>1 DEF Init
  <2>4. calls \in 0..config.calls /\ faults \in 0..config.faults /\ uses \in 0..config.uses
    BY <2>1 DEF Init
  <2> QED BY <1>1, <1>5, <2>2, <2>3, <2>4 DEF VarTypes
<1>13. AllSound
  BY <1>5 DEF AllSound, Fresh, nodes
<1> QED BY <1>5, <1>8, <1>9, <1>10, <1>11, <1>12, <1>13 DEF IInv, TreeOk

(***************************************************************************)
(* The tree: every step keeps its invariant, and what follows from it.     *)
(***************************************************************************)

\* Every step of the specification.
LEMMA NextKeeps ==
  ASSUME IInv, AllExact, Next
  PROVE  IInv'
<1>1. ASSUME NEW s \in DOMAIN rt, Serves(s)
      PROVE  IInv'
  <2>1. CASE HandleQuery(s) \/ RefuseDuplicate(s) \/ RefuseUnknown(s)
    BY <2>1, AnsweringStep
  <2>2. CASE IgnoreReport(s)
    BY <2>2, IgnoringStep
  <2>3. CASE HandleStartChild(s)
    BY <2>3, StartChildStep
  <2>4. CASE HandleStartChildLinked(s)
    BY <2>4, StartLinkedStep
  <2>5. CASE DropChild(s)
    BY <2>5, DropStep
  <2>6. CASE Escalate(s)
    BY <2>6, EscalateStep
  <2>7. CASE Restart(s)
    BY <2>7, RestartStep
  <2>8. CASE HandleRestartChild(s)
    BY <2>8, RestartChildStep
  <2>9. CASE LinkOk(s)
    BY <2>9, LinkOkStep
  <2>10. CASE \E a \in {"InitializationFailed", "InitializationTimeout"} : LinkFails(s, a)
    BY <2>10, LinkFailsStep
  <2>11. CASE HandleTerminateChild(s)
    BY <2>11, TerminateStep
  <2>12. CASE HandleShutdown(s)
    BY <2>12, ShutdownStep
  <2>13. CASE BeginStop(s)
    BY <2>13, BeginStopStep
  <2>14. CASE StopTimesOut(s)
    BY <2>14, TimesOutStep
  <2>15. CASE FinishTerminate(s)
    BY <2>15, FinishStep
  <2>16. CASE StopNext(s)
    BY <2>16, StopNextStep
  <2>17. CASE Exit(s)
    BY <2>17, ExitStep
  <2>18. CASE RestartOne(s)
    BY <2>18, RestartOneStep
  <2>19. CASE DrainAll(s)
    BY <2>19, DrainStep
  <2>20. CASE RespawnHead(s)
    BY <2>20, RespawnStep
  <2>21. CASE EndRound(s)
    BY <2>21, EndRoundStep
  <2> QED
    BY <1>1, <2>1, <2>2, <2>3, <2>4, <2>5, <2>6, <2>7, <2>8, <2>9, <2>10, <2>11, <2>12,
       <2>13, <2>14, <2>15, <2>16, <2>17, <2>18, <2>19, <2>20, <2>21 DEF Serves
<1>2. ASSUME NEW s \in DOMAIN rt, NEW t \in DOMAIN rt[s].task, Runs(s, t) \/ MustRun(s, t)
      PROVE  IInv'
  BY <1>2, WorkerStep, ContextStep DEF Runs, MustRun
<1>3. ASSUME NEW s \in DOMAIN rt, TimerFires(s)
      PROVE  IInv'
  BY <1>3, TimerStep
<1>4. ASSUME NEW c \in Client, NEW k \in config.asks, Call(c, k)
      PROVE  IInv'
  BY <1>4, CallStep
<1> QED BY <1>1, <1>2, <1>3, <1>4 DEF Next, Scheduled

\* The invariant of the tree holds in every behaviour.
LEMMA InvAlways == Spec => []IInv
<1>1. IInv /\ AllExact /\ UNCHANGED vars => IInv'
  BY DEF IInv, VarTypes, AllSound, TreeOk, TreeShape, OneEach, InOrder, Obeys, SlotOf,
     SpecOf, vars
<1>2. IInv /\ AllExact /\ [Next]_vars => IInv'
  BY <1>1, NextKeeps
<1> QED BY <1>2, InitIs, ExactAlways, PTL DEF Spec

\* The variables have their types, and the runtimes form a tree also when subtrees
\* were started anew in the middle of it (start_inner, respawn).
THEOREM TreeTyped == Spec => []TypeOK
<1>1. IInv => TypeOK
  BY DEF IInv, TreeOk, TypeOK
<1> QED BY <1>1, InvAlways, PTL

\* The parent of a nested runtime is a runtime.
LEMMA ParentIs ==
  ASSUME IInv, NEW s \in DOMAIN rt, s > 1
  PROVE  s \in 2..Len(rt) /\ rt[s].up \in 1..(s - 1) /\ rt[s].up \in DOMAIN rt
<1>1. s \in 2..Len(rt) /\ DOMAIN rt = 1..Len(rt) /\ Len(rt) \in Nat
  BY Numbers
<1>2. rt[s].up \in 1..(s - 1)
  BY <1>1 DEF IInv, TreeOk, TreeShape
<1> QED BY <1>1, <1>2

\* A task nobody told to stop belongs to a child that a running supervisor holds.
LEMMA LooseIsHeld ==
  ASSUME IInv, NEW s \in DOMAIN rt, NEW t \in DOMAIN rt[s].task, Loose(rt[s].task[t])
  PROVE  /\ rt[s].status = "running"
         /\ \E c \in Held(s) : c.task = t /\ c.kind = rt[s].task[t].kind
<1>1. Controlled(rt[s]) /\ Placed(config.nodes, rt[s])
  BY DEF IInv, AllSound, Sound
<1>2. HeldBy(rt[s]) = Held(s)
  BY DEF HeldBy, Stays, Held
<1> QED BY <1>1, <1>2 DEF Controlled, Placed

\* Nothing in the tree is out of control, in every strategy, through nested
\* restarts, drops, linked starts and stops (new, respawn, shutdown_children).
THEOREM NothingOrphanedInTree == Spec => []NoOrphanInTree
<1>1. ASSUME IInv PROVE NoOrphanInTree
  <2>1. ASSUME NEW s \in DOMAIN rt, rt[s].status = "running", s > 1
        PROVE  \/ rt[s].work.op \in {"shutdown", "escalate"}
               \/ \E k \in DOMAIN rt[s].queue : rt[s].queue[k].cmd = "Shutdown"
               \/ /\ rt[rt[s].up].status = "running"
                  /\ \E c \in Held(rt[s].up) : c.kind = "Supervisor" /\ c.task = rt[s].slot
    <3>1. s \in 2..Len(rt) /\ rt[s].up \in DOMAIN rt
      BY <1>1, <2>1, ParentIs
    <3>2. /\ rt[s].slot \in DOMAIN rt[rt[s].up].task
          /\ SlotOf(s).kind = "Supervisor" /\ ~Over(SlotOf(s))
      BY <1>1, <2>1, <3>1 DEF IInv, TreeOk, TreeShape, OneEach, SlotOf
    <3>3. CASE SlotOf(s).signal
      BY <1>1, <2>1, <3>1, <3>3 DEF IInv, TreeOk, Obeys, HasShutdown, SetOf
    <3>4. CASE ~SlotOf(s).signal
      <4>1. Loose(SlotOf(s))
        BY <3>2, <3>4 DEF Loose
      <4> QED BY <1>1, <3>1, <3>2, <4>1, LooseIsHeld DEF SlotOf
    <3> QED BY <3>3, <3>4
  <2>2. ASSUME NEW s \in DOMAIN rt, NEW t \in DOMAIN rt[s].task,
               rt[s].task[t].kind = "Worker", ~Ended(s, t), ~rt[s].task[t].abort
        PROVE  rt[s].status = "running" /\ \E c \in Held(s) : c.task = t
    <3>1. Loose(rt[s].task[t])
      BY <2>2 DEF Loose, Over, Ended
    <3> QED BY <1>1, <3>1, LooseIsHeld
  <2> QED BY <2>1, <2>2 DEF NoOrphanInTree
<1> QED BY <1>1, InvAlways, PTL

\* Of two incarnations of a nested supervisor the older one was told to stop, or
\* has stopped: in every strategy the shutdown precedes the respawn.
THEOREM OlderOnesAreTold == Spec => []OverlapOnlyOnceTold
<1>1. ASSUME IInv PROVE OverlapOnlyOnceTold
  <2> SUFFICES ASSUME NEW s \in DOMAIN rt, NEW u \in DOMAIN rt, s < u,
                      rt[s].node = rt[u].node, rt[s].up = rt[u].up
               PROVE  rt[s].status # "running" \/ WasTold(s)
    BY DEF OverlapOnlyOnceTold
  <2> DEFINE p == rt[rt[s].up]
  <2>1. DOMAIN rt = 1..Len(rt) /\ Len(rt) \in Nat
    BY <1>1, Numbers
  <2>2. u \in 2..Len(rt) /\ rt[u].up \in 1..(u - 1) /\ rt[1].up = 0
    BY <1>1, <2>1 DEF IInv, TreeOk, TreeShape
  <2>3. s \in 2..Len(rt)
    BY <2>1, <2>2
  <2>4. /\ rt[s].up \in DOMAIN rt
        /\ rt[s].slot \in DOMAIN p.task /\ rt[u].slot \in DOMAIN p.task
        /\ p.task[rt[s].slot].kind = "Supervisor" /\ p.task[rt[u].slot].kind = "Supervisor"
        /\ p.task[rt[s].slot].id = p.task[rt[u].slot].id
    <3>1. rt[s].up \in DOMAIN rt
      BY <1>1, <2>3, ParentIs
    <3>2. /\ rt[s].slot \in DOMAIN p.task /\ p.task[rt[s].slot].kind = "Supervisor"
          /\ p.task[rt[s].slot].id = SpecOf(s).name
      BY <1>1, <2>3 DEF IInv, TreeOk, TreeShape
    <3>3. /\ rt[u].slot \in DOMAIN p.task /\ p.task[rt[u].slot].kind = "Supervisor"
          /\ p.task[rt[u].slot].id = SpecOf(u).name
      BY <1>1, <2>2 DEF IInv, TreeOk, TreeShape
    <3> QED BY <3>1, <3>2, <3>3 DEF SpecOf
  <2>5. rt[s].slot < rt[u].slot
    BY <1>1, <2>2, <2>3 DEF IInv, TreeOk, InOrder
  <2>6. Followed(p)
    BY <1>1, <2>4 DEF IInv, AllSound, Sound
  <2>7. ~Loose(SlotOf(s))
    BY <2>4, <2>5, <2>6 DEF Followed, SlotOf
  <2>8. Over(SlotOf(s)) \/ SlotOf(s).signal
    BY <2>4, <2>7 DEF Loose, SlotOf
  <2>9. Over(SlotOf(s)) => rt[s].status # "running"
    BY <1>1, <2>3 DEF IInv, TreeOk, OneEach
  <2> QED BY <2>8, <2>9 DEF WasTold, SlotOf
<1> QED BY <1>1, InvAlways, PTL

\* No dead handle stays behind: what a nested supervisor reports reaches a runtime
\* that takes it for a restart, however late it is read (start_inner, apply_restart).
THEOREM NoHandleIsDead == Spec => []NoDeadHandle
<1>1. ASSUME IInv PROVE NoDeadHandle
  <2> SUFFICES ASSUME NEW s \in DOMAIN rt, rt[s].status = "running",
                      NEW c \in SetOf(rt[s].children), c.kind = "Supervisor", Ended(s, c.task)
               PROVE  \/ \E k \in DOMAIN rt[s].queue :
                           /\ rt[s].queue[k].cmd \in {"ChildTerminated", "RestartChild"}
                           /\ rt[s].queue[k].by = c.task
                      \/ \E m \in rt[s].timers : m.by = c.task
                      \/ rt[s].work.op = "one" /\ Head(rt[s].work.todo) = c
                      \/ rt[s].work.op = "all"
    BY DEF NoDeadHandle
  <2>1. Awaited(rt[s])
    BY <1>1 DEF IInv, AllSound, Sound
  <2>2. c \in Stays(rt[s]) /\ Over(rt[s].task[c.task])
    BY DEF Stays, Over, Ended
  <2>3. \/ \E m \in SetOf(rt[s].queue) : m.cmd \in About /\ m.by = c.task
        \/ \E m \in rt[s].timers : m.by = c.task
        \/ Excused(rt[s], c)
    BY <2>1, <2>2 DEF Awaited
  <2> QED BY <2>3 DEF About, Excused, SetOf
<1> QED BY <1>1, InvAlways, PTL

================================================================================
