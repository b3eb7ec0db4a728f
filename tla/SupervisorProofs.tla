---------------------------- MODULE SupervisorProofs ----------------------------
(***************************************************************************)
(* Theorems about Supervisor, for every set of ids, clients, calls and     *)
(* specifications, and for every value of the bounds.                      *)
(***************************************************************************)
EXTENDS Supervisor, ChildListProofs, SequenceTheorems, TLAPS

(***************************************************************************)
(* Lemmas about the operators the actions are built from.                  *)
(***************************************************************************)

\* A new task has the type of tasks.
LEMMA NewTaskType ==
  ASSUME NEW c, c.id \in Id, c.kind \in Kind, NEW linked \in BOOLEAN
  PROVE  NewTask(c, linked) \in Task
BY DEF NewTask, Task, Pc, Ends, Reason

\* Spawning adds one task.
LEMMA SpawnedType ==
  ASSUME VarTypes, NEW c, c.id \in Id, c.kind \in Kind, NEW linked \in BOOLEAN
  PROVE  Append(task, NewTask(c, linked)) \in Seq(Task)
BY NewTaskType, AppendProperties DEF VarTypes

\* What a task becomes when it ends, and what sending leaves in the queue.
LEMMA EndedTaskType ==
  ASSUME VarTypes, NEW t \in DOMAIN task, NEW how \in Ends
  PROVE  [task EXCEPT ![t] = EndedTask(t, how)] \in Seq(Task)
<1>1. task[t] \in Task
  BY ElementOfSeq, LenProperties DEF VarTypes
<1>2. NewTask(task[t], task[t].linked) \in Task
  BY <1>1, NewTaskType DEF Task
<1>3. EndedTask(t, how) \in Task
  BY <1>2 DEF EndedTask, Task, Pc
<1> QED BY <1>3, ExceptSeq, LenProperties DEF VarTypes

\* Sending a command leaves a queue of commands.
LEMMA SentType ==
  ASSUME VarTypes, NEW m \in Command
  PROVE  Sent(m) \in Seq(Command)
BY AppendProperties DEF Sent, VarTypes

\* Answering some clients leaves an answer for every client.
LEMMA AnsweredType ==
  ASSUME VarTypes, NEW clients, NEW a \in Answer
  PROVE  Answered(clients, a) \in [Client -> Answer]
BY DEF Answered, VarTypes

\* Dropping a child changes no more than a task's abort flag.
LEMMA DroppedType ==
  ASSUME VarTypes, NEW c
  PROVE  Dropped(c) \in Seq(Task)
<1>1. CASE c.task \in DOMAIN task
  <2>1. task[c.task] \in Task
    BY <1>1, ElementOfSeq, LenProperties DEF VarTypes
  <2>2. [task[c.task] EXCEPT !.abort = TRUE] \in Task
    BY <2>1 DEF Task
  <2>3. [task EXCEPT ![c.task] = [task[c.task] EXCEPT !.abort = TRUE]] \in Seq(Task)
    BY <1>1, <2>2, ExceptSeq, LenProperties DEF VarTypes
  <2> QED BY <2>3 DEF Dropped, VarTypes
<1>2. CASE c.task \notin DOMAIN task
  <2>1. [task EXCEPT ![c.task].abort = TRUE] = task
    BY <1>2, LenProperties DEF VarTypes
  <2> QED BY <2>1 DEF Dropped, VarTypes
<1> QED BY <1>1, <1>2

\* Receiving a command: the supervisor runs, no handler is in progress, and
\* the rest of the queue is still one.
LEMMA ReceivesType ==
  ASSUME TypeOK, NEW name, Receives(name)
  PROVE  /\ Head(queue) \in Command
         /\ Head(queue).cmd = name
         /\ queue' \in Seq(Command)
         /\ work = Idle
         /\ status = "running"
BY HeadTailProperties DEF Receives, TypeOK, VarTypes, WorkShape

\* Commands by their constructor.
LEMMA CommandCases ==
  ASSUME NEW m \in Command
  PROVE  /\ m.id \in Id
         /\ m.cmd \in CallName => m.policy \in Policy /\ m.client \in Client
         /\ m.cmd = "ChildTerminated" => m.reason \in Reason /\ m.by \in Nat
         /\ m.cmd = "RestartChild" => m.by \in Nat
BY DEF Command, CallCommand, Report, Deferred, CallName

\* The supervisor at rest is a state of its work.
LEMMA IdleType == Idle \in Work
BY EmptySeq DEF Idle, Work, Op

\* So is the beginning of a handler that awaits.
LEMMA BeginType ==
  ASSUME NEW op \in Op, NEW todo \in Seq(Child)
  PROVE  /\ Begin(op, todo) \in Work
         /\ Begin(op, todo).op = op
         /\ Begin(op, todo).stage = "next"
         /\ Begin(op, todo).todo = todo
         /\ Begin(op, todo).back = <<>>
         /\ Begin(op, todo).client = {}
BY IdleType DEF Begin, Work, Idle

\* Beginning a handler that awaits leaves the work in shape.
LEMMA BeginShape ==
  ASSUME NEW op \in Op \ {"idle"}, NEW todo \in Seq(Child),
         op \in {"link", "terminate", "one"} => Len(todo) = 1,
         work' = Begin(op, todo)
  PROVE  work' \in Work /\ WorkShape'
<1>1. /\ work' \in Work
      /\ work'.op = op
      /\ work'.stage = "next"
      /\ work'.todo = todo
      /\ work'.back = <<>>
  BY BeginType
<1> QED BY <1>1 DEF WorkShape

\* The fields of a listed child.
LEMMA ChildType ==
  ASSUME VarTypes, NEW i \in DOMAIN children
  PROVE  children[i] \in Child
BY ElementOfSeq, LenProperties DEF VarTypes

\* One child is a sequence of children.
LEMMA SingletonType ==
  ASSUME NEW S, NEW e \in S
  PROVE  <<e>> \in Seq(S) /\ Len(<<e>>) = 1 /\ Head(<<e>>) = e
OBVIOUS

\* What a started child runs as.
LEMMA RequestedType ==
  ASSUME VarTypes, NEW m \in Command, m.cmd \in CallName
  PROVE  /\ Requested(m) \in Child
         /\ Requested(m).id = m.id
         /\ Requested(m).kind = "Worker"
         /\ Requested(m).task = Len(task) + 1
BY CommandCases, LenProperties DEF Requested, Child, Kind, VarTypes

\* A restarted child is still a child.
LEMMA WithNewTaskType ==
  ASSUME VarTypes, NEW c \in Child
  PROVE  WithNewTask(c) \in Child /\ WithNewTask(c).id = c.id
BY LenProperties DEF WithNewTask, Child, VarTypes

\* A round begins with children in hand, and leaves the work in shape.
LEMMA BeginRoundType ==
  ASSUME VarTypes, NEW i \in DOMAIN children, BeginRound(i)
  PROVE  /\ work' \in Work
         /\ WorkShape'
         /\ children' \in Seq(Child)
         /\ rounds' \in Nat
<1>1. children[i] \in Child /\ i \in 1..Len(children) /\ Len(children) \in Nat
  BY ChildType, LenProperties DEF VarTypes
<1>2. SubSeq(children, i, Len(children)) \in Seq(Child)
  BY <1>1, SubSeqProperties, ElementOfSeq DEF VarTypes
<1>3. SubSeq(children, 1, i - 1) \in Seq(Child)
  BY <1>1, SubSeqProperties, ElementOfSeq DEF VarTypes
<1>4. rounds' \in Nat
  BY DEF BeginRound, VarTypes
<1>5. CASE work' = Begin("one", <<children[i]>>) /\ UNCHANGED children
  <2>1. work' \in Work /\ WorkShape'
    BY <1>1, <1>5, SingletonType, BeginShape DEF Op
  <2> QED BY <1>4, <1>5, <2>1 DEF VarTypes
<1>6. CASE work' = Begin("all", children) /\ UNCHANGED children
  <2>1. work' \in Work /\ WorkShape'
    BY <1>6, BeginShape DEF Op, VarTypes
  <2> QED BY <1>4, <1>6, <2>1 DEF VarTypes
<1>7. CASE /\ work' = Begin("from", SubSeq(children, i, Len(children)))
           /\ children' = SubSeq(children, 1, i - 1)
  <2>1. work' \in Work /\ WorkShape'
    BY <1>2, <1>7, BeginShape DEF Op
  <2> QED BY <1>3, <1>4, <1>7, <2>1
<1> QED BY <1>5, <1>6, <1>7 DEF BeginRound

\* Work on one child: the head of `todo` and what is left after it.
LEMMA HeadType ==
  ASSUME TypeOK, work.todo # <<>>
  PROVE  Head(work.todo) \in Child /\ Tail(work.todo) \in Seq(Child)
BY HeadTailProperties DEF TypeOK, VarTypes, Work

\* What a worker tells init_tx changes the reply only.
LEMMA ToldType ==
  ASSUME TypeOK, NEW t, NEW reply \in {"Ok", "Err", "Closed"}
  PROVE  /\ Told(t, reply) \in Work
         /\ Told(t, reply).op = work.op
         /\ Told(t, reply).stage = work.stage
         /\ Told(t, reply).todo = work.todo
         /\ Told(t, reply).back = work.back
         /\ work.op # "link" => Told(t, reply) = work
BY DEF Told, TypeOK, VarTypes, Work

\* Changing fields of one task.
LEMMA MovedType ==
  ASSUME VarTypes, NEW t, NEW to \in Pc, NEW reason \in Reason,
         NEW abort \in BOOLEAN
  PROVE  /\ [task EXCEPT ![t].pc = to] \in Seq(Task)
         /\ [task EXCEPT ![t].pc = to, ![t].reason = reason] \in Seq(Task)
         /\ [task EXCEPT ![t].abort = TRUE] \in Seq(Task)
         /\ [task EXCEPT ![t].signal = TRUE, ![t].abort = @ \/ abort] \in Seq(Task)
<1>1. CASE t \in DOMAIN task
  <2>1. task[t] \in Task
    BY <1>1, ElementOfSeq, LenProperties DEF VarTypes
  <2>2. /\ [task[t] EXCEPT !.pc = to] \in Task
        /\ [[task[t] EXCEPT !.pc = to] EXCEPT !.reason = reason] \in Task
        /\ [task[t] EXCEPT !.abort = TRUE] \in Task
        /\ [[task[t] EXCEPT !.signal = TRUE] EXCEPT !.abort = @ \/ abort] \in Task
    BY <2>1 DEF Task
  <2>3. \A e \in Task : [task EXCEPT ![t] = e] \in Seq(Task)
    BY <1>1, ExceptSeq, LenProperties DEF VarTypes
  <2>4. /\ [task EXCEPT ![t].pc = to] = [task EXCEPT ![t] = [task[t] EXCEPT !.pc = to]]
        /\ [task EXCEPT ![t].abort = TRUE]
             = [task EXCEPT ![t] = [task[t] EXCEPT !.abort = TRUE]]
    OBVIOUS
  <2>5. [task EXCEPT ![t].pc = to, ![t].reason = reason]
          = [task EXCEPT ![t] = [[task[t] EXCEPT !.pc = to] EXCEPT !.reason = reason]]
    BY <1>1
  <2>6. [task EXCEPT ![t].signal = TRUE, ![t].abort = @ \/ abort]
          = [task EXCEPT ![t] = [[task[t] EXCEPT !.signal = TRUE] EXCEPT !.abort = @ \/ abort]]
    BY <1>1
  <2> QED BY <2>2, <2>3, <2>4, <2>5, <2>6
<1>2. CASE t \notin DOMAIN task
  <2>1. /\ [task EXCEPT ![t].pc = to] = task
        /\ [task EXCEPT ![t].pc = to, ![t].reason = reason] = task
        /\ [task EXCEPT ![t].abort = TRUE] = task
        /\ [task EXCEPT ![t].signal = TRUE, ![t].abort = @ \/ abort] = task
    BY <1>2, LenProperties DEF VarTypes
  <2> QED BY <2>1 DEF VarTypes
<1> QED BY <1>1, <1>2

(***************************************************************************)
(* Type correctness.                                                       *)
(***************************************************************************)

\* The initial states have the types.
LEMMA InitType == Init => TypeOK
<1> SUFFICES ASSUME Init PROVE TypeOK
  OBVIOUS
<1>1. /\ config \in ConfigSpace
      /\ config.children \in Seq(ChildSpec)
  BY ConfigsAssumption DEF Init, ConfigSpace
<1> DEFINE n == Len(config.children)
<1>2. n \in Nat /\ DOMAIN config.children = 1..n
  BY <1>1, LenProperties
<1>3. \A i \in 1..n : config.children[i] \in ChildSpec
  BY <1>1, ElementOfSeq
<1>4. children \in Seq(Child)
  <2>1. children \in [1..n -> Child]
    BY <1>2, <1>3 DEF Init, Child, ChildSpec
  <2> QED BY <1>2, <2>1, SeqDef
<1>5. task \in Seq(Task)
  <2>1. task \in [1..n -> Task]
    BY <1>2, <1>3, NewTaskType DEF Init, ChildSpec
  <2> QED BY <1>2, <2>1, SeqDef
<1>6. work \in Work /\ WorkShape
  BY IdleType DEF Init, WorkShape, Idle
<1>7. queue \in Seq(Command) /\ timers \subseteq Deferred /\ tracked \subseteq Id
  BY EmptySeq DEF Init
<1>8. answer \in [Client -> Answer]
  BY DEF Init, Answer
<1> QED BY <1>1, <1>4, <1>5, <1>6, <1>7, <1>8, BoundsAssumption DEF Init, TypeOK, VarTypes

\* A client calls.
LEMMA CallType ==
  ASSUME TypeOK, NEW c \in Client, NEW k \in Calls, Call(c, k)
  PROVE  TypeOK'
<1>1. [cmd |-> k.cmd, id |-> k.id, policy |-> k.policy, client |-> c] \in Command
  BY CallsAssumption DEF Command, CallCommand
<1>2. queue' \in Seq(Command)
  BY <1>1, SentType DEF Call, TypeOK
<1>3. answer' \in [Client -> Answer]
  BY DEF Call, TypeOK, VarTypes, Answer
<1>4. calls' \in 0..MaxCalls
  BY BoundsAssumption DEF Call, TypeOK, VarTypes
<1> QED BY <1>2, <1>3, <1>4 DEF Call, TypeOK, VarTypes, WorkShape

\* Handlers that answer at once.
LEMMA AnsweringType ==
  ASSUME TypeOK, HandleQuery \/ RefuseDuplicate \/ HandleStartChild \/ RefuseUnknown
  PROVE  TypeOK'
<1>1. CASE HandleQuery
  <2>1. queue' \in Seq(Command)
    BY <1>1, ReceivesType DEF HandleQuery
  <2>2. answer' \in [Client -> Answer]
    BY <1>1, AnsweredType DEF HandleQuery, TypeOK, Answer
  <2> QED BY <1>1, <2>1, <2>2 DEF HandleQuery, env, TypeOK, VarTypes, WorkShape
<1>2. CASE RefuseDuplicate
  <2>1. queue' \in Seq(Command)
    BY <1>2, ReceivesType DEF RefuseDuplicate
  <2>2. answer' \in [Client -> Answer]
    BY <1>2, AnsweredType DEF RefuseDuplicate, TypeOK, Answer
  <2> QED BY <1>2, <2>1, <2>2 DEF RefuseDuplicate, env, TypeOK, VarTypes, WorkShape
<1>3. CASE HandleStartChild
  <2> DEFINE m == Head(queue)
  <2>1. m \in Command /\ m.cmd \in CallName /\ queue' \in Seq(Command)
    BY <1>3, ReceivesType DEF HandleStartChild, CallName
  <2>2. Requested(m) \in Child
    BY <2>1, RequestedType DEF TypeOK
  <2>3. children' \in Seq(Child)
    BY <1>3, <2>2, AppendProperties DEF HandleStartChild, TypeOK, VarTypes
  <2>4. task' \in Seq(Task)
    BY <1>3, <2>2, SpawnedType DEF HandleStartChild, Spawned, TypeOK, Child
  <2>5. answer' \in [Client -> Answer]
    BY <1>3, AnsweredType DEF HandleStartChild, TypeOK, Answer
  <2> QED BY <1>3, <2>1, <2>3, <2>4, <2>5
          DEF HandleStartChild, env, TypeOK, VarTypes, WorkShape
<1>4. CASE RefuseUnknown
  <2>1. queue' \in Seq(Command)
    BY <1>4, ReceivesType DEF RefuseUnknown
  <2>2. answer' \in [Client -> Answer]
    BY <1>4, AnsweredType DEF RefuseUnknown, TypeOK, Answer
  <2> QED BY <1>4, <2>1, <2>2 DEF RefuseUnknown, env, TypeOK, VarTypes, WorkShape
<1> QED BY <1>1, <1>2, <1>3, <1>4

\* Handlers of reports and of deferred restarts.
LEMMA ConcernsType ==
  ASSUME TypeOK, NEW i \in DOMAIN children, NEW restart, Concerns(i, restart)
  PROVE  /\ queue' \in Seq(Command)
         /\ Head(queue) \in Report
         /\ children[i] \in Child
         /\ children[i].id \in Id
         /\ tracked \cup {children[i].id} \subseteq Id
<1>1. /\ Head(queue) \in Command
      /\ Head(queue).cmd = "ChildTerminated"
      /\ queue' \in Seq(Command)
  BY ReceivesType DEF Concerns
<1>2. Head(queue) \in Report
  BY <1>1 DEF Command, CallCommand, Report, Deferred, CallName
<1>3. children[i] \in Child /\ children[i].id \in Id
  BY ChildType DEF TypeOK, Child
<1> QED BY <1>1, <1>2, <1>3 DEF TypeOK, VarTypes

\* A report is handled, without a deferred restart.
LEMMA ReportingType ==
  ASSUME TypeOK, IgnoreReport \/ DropChild \/ Escalate \/ RestartNow \/ RestartLater
  PROVE  TypeOK'
<1>1. CASE IgnoreReport
  <2>1. queue' \in Seq(Command)
    BY <1>1, ReceivesType DEF IgnoreReport
  <2> QED BY <1>1, <2>1 DEF IgnoreReport, env, TypeOK, VarTypes, WorkShape
<1>2. CASE DropChild
  <2> PICK i \in DOMAIN children :
        /\ Concerns(i, FALSE)
        /\ children' = RemoveAt(children, i)
        /\ task' = Dropped(children[i])
        /\ tracked' = Forgotten(children[i].id)
        /\ UNCHANGED <<env, status, work, recent, timers, answer, rounds>>
    BY <1>2 DEF DropChild
  <2>1. queue' \in Seq(Command)
    BY ConcernsType
  <2>2. children' \in Seq(Child)
    BY RemoveAtType DEF TypeOK, VarTypes
  <2>3. task' \in Seq(Task)
    BY DroppedType DEF TypeOK
  <2> QED BY <2>1, <2>2, <2>3 DEF Forgotten, env, TypeOK, VarTypes, WorkShape
<1>3. CASE Escalate
  <2> PICK i \in DOMAIN children :
        /\ Concerns(i, TRUE)
        /\ RecordRestart
        /\ children' = <<>>
        /\ work' = Begin("escalate", children)
        /\ UNCHANGED <<env, status, tracked, timers, task, answer, rounds>>
    BY <1>3 DEF Escalate
  <2>1. queue' \in Seq(Command)
    BY ConcernsType
  <2>2. work' \in Work /\ WorkShape'
    BY BeginShape DEF TypeOK, VarTypes, Op
  <2>3. recent' \in Nat
    BY DEF RecordRestart, TypeOK, VarTypes
  <2> QED BY <2>1, <2>2, <2>3, EmptySeq DEF env, TypeOK, VarTypes
<1>4. CASE RestartNow
  <2> PICK i \in DOMAIN children :
        /\ Concerns(i, TRUE)
        /\ RecordRestart
        /\ tracked' = tracked \cup {children[i].id}
        /\ BeginRound(i)
        /\ UNCHANGED <<env, status, timers, task, answer>>
    BY <1>4 DEF RestartNow
  <2>1. queue' \in Seq(Command) /\ tracked' \subseteq Id
    BY ConcernsType
  <2>2. work' \in Work /\ WorkShape' /\ children' \in Seq(Child) /\ rounds' \in Nat
    BY BeginRoundType DEF TypeOK
  <2>3. recent' \in Nat
    BY DEF RecordRestart, TypeOK, VarTypes
  <2> QED BY <2>1, <2>2, <2>3 DEF env, TypeOK, VarTypes
<1>5. CASE RestartLater
  <2> PICK i \in DOMAIN children :
        /\ Concerns(i, TRUE)
        /\ RecordRestart
        /\ tracked' = tracked \cup {children[i].id}
        /\ timers' = timers \cup
             {[cmd |-> "RestartChild", id |-> children[i].id, by |-> Head(queue).by]}
        /\ UNCHANGED <<env, status, children, work, task, answer, rounds>>
    BY <1>5 DEF RestartLater
  <2>1. queue' \in Seq(Command) /\ tracked' \subseteq Id
    BY ConcernsType
  <2>2. [cmd |-> "RestartChild", id |-> children[i].id, by |-> Head(queue).by] \in Deferred
    BY ConcernsType DEF Report, Deferred
  <2>3. recent' \in Nat
    BY DEF RecordRestart, TypeOK, VarTypes
  <2> QED BY <2>1, <2>2, <2>3 DEF env, TypeOK, VarTypes, WorkShape
<1> QED BY <1>1, <1>2, <1>3, <1>4, <1>5

\* A restart is deferred, its sleep ends, it is skipped or carried out.
LEMMA DeferringType ==
  ASSUME TypeOK,
         \/ \E m \in timers : TimerFires(m)
         \/ SkipRestart
         \/ HandleRestartChild
  PROVE  TypeOK'
<1>1. CASE \E m \in timers : TimerFires(m)
  <2> PICK m \in timers : TimerFires(m)
    BY <1>1
  <2>1. m \in Command
    BY DEF Command, TypeOK, VarTypes
  <2>2. queue' \in Seq(Command)
    BY <2>1, SentType DEF TimerFires, TypeOK
  <2> QED BY <2>2 DEF TimerFires, env, TypeOK, VarTypes, WorkShape
<1>2. CASE SkipRestart
  <2>1. queue' \in Seq(Command)
    BY <1>2, ReceivesType DEF SkipRestart
  <2> QED BY <1>2, <2>1 DEF SkipRestart, env, TypeOK, VarTypes, WorkShape
<1>3. CASE HandleRestartChild
  <2> PICK i \in DOMAIN children :
        /\ Receives("RestartChild")
        /\ BeginRound(i)
        /\ UNCHANGED <<env, status, recent, tracked, timers, task, answer>>
    BY <1>3 DEF HandleRestartChild
  <2>1. queue' \in Seq(Command)
    BY ReceivesType
  <2>2. work' \in Work /\ WorkShape' /\ children' \in Seq(Child) /\ rounds' \in Nat
    BY BeginRoundType DEF TypeOK
  <2> QED BY <2>1, <2>2 DEF env, TypeOK, VarTypes
<1> QED BY <1>1, <1>2, <1>3

\* A linked start, from its command to its outcome.
LEMMA LinkingType ==
  ASSUME TypeOK,
         \/ HandleStartChildLinked
         \/ LinkOk
         \/ \E a \in {"InitializationFailed", "InitializationTimeout"} : LinkFails(a)
  PROVE  TypeOK'
<1>1. CASE HandleStartChildLinked
  <2> DEFINE m == Head(queue)
  <2>1. m \in Command /\ m.cmd \in CallName /\ queue' \in Seq(Command)
    BY <1>1, ReceivesType DEF HandleStartChildLinked, CallName
  <2>2. Requested(m) \in Child /\ m.client \in Client
    BY <2>1, RequestedType, CommandCases DEF TypeOK
  <2>3. task' \in Seq(Task)
    BY <1>1, <2>2, SpawnedType DEF HandleStartChildLinked, TypeOK, Child
  <2> DEFINE todo == <<Requested(m)>>
             w == Begin("link", todo)
  <2>7. todo \in Seq(Child) /\ Len(todo) = 1
    BY <2>2, SingletonType
  <2> HIDE DEF todo
  <2>4. /\ w \in Work
        /\ w.op = "link" /\ w.stage = "next" /\ w.back = <<>>
        /\ Len(w.todo) = 1
    BY <2>7, BeginType DEF Op
  <2>5. work' = [w EXCEPT !.client = {m.client}]
    BY <1>1 DEF HandleStartChildLinked, todo
  <2> HIDE DEF w
  <2>6. work' \in Work /\ WorkShape'
    BY <2>2, <2>4, <2>5 DEF Work, WorkShape
  <2> QED BY <1>1, <2>1, <2>3, <2>6 DEF HandleStartChildLinked, env, TypeOK, VarTypes
<1>2. CASE LinkOk
  <2>1. work.todo # <<>>
    BY <1>2, EmptySeq DEF LinkOk, TypeOK, WorkShape
  <2>2. children' \in Seq(Child)
    BY <1>2, <2>1, HeadType, AppendProperties DEF LinkOk, TypeOK, VarTypes
  <2>3. answer' \in [Client -> Answer]
    BY <1>2, AnsweredType DEF LinkOk, TypeOK, Answer
  <2>4. work' \in Work /\ WorkShape'
    BY <1>2, IdleType DEF LinkOk, WorkShape, Idle
  <2> QED BY <1>2, <2>2, <2>3, <2>4 DEF LinkOk, env, TypeOK, VarTypes
<1>3. ASSUME NEW a \in {"InitializationFailed", "InitializationTimeout"}, LinkFails(a)
      PROVE  TypeOK'
  <2>1. task' \in Seq(Task)
    BY <1>3, DroppedType DEF LinkFails, TypeOK
  <2>2. answer' \in [Client -> Answer]
    BY <1>3, AnsweredType DEF LinkFails, TypeOK, Answer
  <2>3. work' \in Work /\ WorkShape'
    BY <1>3, IdleType DEF LinkFails, WorkShape, Idle
  <2> QED BY <1>3, <2>1, <2>2, <2>3 DEF LinkFails, env, TypeOK, VarTypes
<1> QED BY <1>1, <1>2, <1>3

\* Stopping children.
LEMMA StoppingType ==
  ASSUME TypeOK,
         \/ HandleTerminateChild \/ HandleShutdown
         \/ BeginStop \/ StopTimesOut \/ FinishTerminate \/ StopNext \/ Exit
  PROVE  TypeOK'
<1>1. CASE HandleTerminateChild
  <2> PICK i \in DOMAIN children :
        /\ Receives("TerminateChild")
        /\ children' = RemoveAt(children, i)
        /\ work' = [Begin("terminate", <<children[i]>>)
                      EXCEPT !.client = {Head(queue).client}]
        /\ UNCHANGED <<env, status, recent, tracked, timers, task, answer, rounds>>
    BY <1>1 DEF HandleTerminateChild
  <2> DEFINE todo == <<children[i]>>
             w == Begin("terminate", todo)
  <2>1. queue' \in Seq(Command) /\ Head(queue).client \in Client
    BY ReceivesType, CommandCases DEF CallName
  <2>2. children' \in Seq(Child)
    BY RemoveAtType DEF TypeOK, VarTypes
  <2>3. todo \in Seq(Child) /\ Len(todo) = 1
    BY ChildType, SingletonType DEF TypeOK
  <2> HIDE DEF todo
  <2>4. /\ w \in Work
        /\ w.op = "terminate" /\ w.stage = "next" /\ w.back = <<>>
        /\ Len(w.todo) = 1
    BY <2>3, BeginType DEF Op
  <2>5. work' = [w EXCEPT !.client = {Head(queue).client}]
    BY DEF todo
  <2> HIDE DEF w
  <2>6. /\ work' \in Work
        /\ work'.op = "terminate" /\ work'.stage = "next" /\ work'.back = <<>>
        /\ Len(work'.todo) = 1
    BY <2>1, <2>4, <2>5 DEF Work
  <2>7. WorkShape'
    BY <2>6 DEF WorkShape
  <2> QED BY <2>1, <2>2, <2>6, <2>7 DEF env, TypeOK, VarTypes
<1>2. CASE HandleShutdown
  <2>1. queue' \in Seq(Command)
    BY <1>2, ReceivesType DEF HandleShutdown
  <2>2. work' \in Work /\ WorkShape'
    BY <1>2, BeginShape DEF HandleShutdown, TypeOK, VarTypes, Op
  <2> QED BY <1>2, <2>1, <2>2, EmptySeq DEF HandleShutdown, env, TypeOK, VarTypes
<1>3. CASE BeginStop
  <2> DEFINE c == Head(work.todo)
             atonce == c.kind = "Worker" /\ ~config.patient
  <2>1. work.todo # <<>> /\ Stopping
    BY <1>3 DEF BeginStop
  <2>2. task' = task \/ task' = [task EXCEPT ![c.task].signal = TRUE,
                                           ![c.task].abort = @ \/ atonce]
    BY <1>3 DEF BeginStop
  <2>3. atonce \in BOOLEAN
    OBVIOUS
  <2> HIDE DEF atonce
  <2>4. task' \in Seq(Task)
    <3>1. "init" \in Pc /\ "Normal" \in Reason
      BY DEF Pc, Reason
    <3>2. [task EXCEPT ![c.task].signal = TRUE, ![c.task].abort = @ \/ atonce] \in Seq(Task)
      BY <2>3, <3>1, MovedType DEF TypeOK
    <3> QED BY <2>2, <3>2 DEF TypeOK, VarTypes
  <2>5. /\ work' \in Work
        /\ work'.op = work.op /\ work'.todo = work.todo /\ work'.back = work.back
    BY <1>3 DEF BeginStop, TypeOK, VarTypes, Work
  <2>6. WorkShape'
    BY <2>1, <2>5 DEF WorkShape, TypeOK, Stopping
  <2> QED BY <1>3, <2>4, <2>5, <2>6 DEF BeginStop, env, TypeOK, VarTypes
<1>4. CASE StopTimesOut
  <2>1. task' \in Seq(Task)
    BY <1>4, MovedType DEF StopTimesOut, TypeOK, Pc, Reason
  <2>2. /\ work' \in Work
        /\ work'.op = work.op /\ work'.todo = work.todo /\ work'.back = work.back
    BY <1>4 DEF StopTimesOut, TypeOK, VarTypes, Work
  <2>3. WorkShape'
    BY <1>4, <2>2 DEF StopTimesOut, WorkShape, TypeOK, Stopping
  <2> QED BY <1>4, <2>1, <2>2, <2>3 DEF StopTimesOut, env, TypeOK, VarTypes
<1>5. CASE FinishTerminate
  <2>1. work' \in Work /\ WorkShape'
    BY <1>5, IdleType DEF FinishTerminate, WorkShape, Idle
  <2>2. answer' \in [Client -> Answer]
    BY <1>5, AnsweredType DEF FinishTerminate, TypeOK, Answer
  <2> QED BY <1>5, <2>1, <2>2 DEF FinishTerminate, Forgotten, env, TypeOK, VarTypes
<1>6. CASE StopNext
  <2>1. work.todo # <<>>
    BY <1>6 DEF StopNext, HeadStopped, TypeOK, WorkShape
  <2>2. /\ work' \in Work
        /\ work'.op = work.op /\ work'.stage = "next" /\ work'.back = work.back
    BY <1>6, <2>1, HeadType DEF StopNext, Advanced, TypeOK, VarTypes, Work
  <2>3. WorkShape'
    BY <1>6, <2>2 DEF StopNext, WorkShape, TypeOK
  <2> QED BY <1>6, <2>2, <2>3 DEF StopNext, env, TypeOK, VarTypes
<1>7. CASE Exit
  <2>1. work' \in Work /\ WorkShape'
    BY <1>7, IdleType DEF Exit, WorkShape, Idle
  <2>2. answer' \in [Client -> Answer]
    BY <1>7, AnsweredType DEF Exit, TypeOK, Answer
  <2> QED BY <1>7, <2>1, <2>2, EmptySeq DEF Exit, env, TypeOK, VarTypes
<1> QED BY <1>1, <1>2, <1>3, <1>4, <1>5, <1>6, <1>7

\* Restart rounds.
LEMMA RestartingType ==
  ASSUME TypeOK, RestartOne \/ DrainAll \/ RespawnHead \/ EndRound
  PROVE  TypeOK'
<1>1. CASE RestartOne
  <2> PICK i \in DOMAIN children :
        /\ children' = [children EXCEPT ![i] = WithNewTask(@)]
        /\ task' = Spawned(children[i])
    BY <1>1 DEF RestartOne
  <2>1. children[i] \in Child /\ WithNewTask(children[i]) \in Child
    BY ChildType, WithNewTaskType DEF TypeOK
  <2>2. children' \in Seq(Child)
    BY <2>1, ExceptSeq, LenProperties DEF TypeOK, VarTypes
  <2>3. task' \in Seq(Task)
    BY <2>1, SpawnedType DEF Spawned, TypeOK, Child
  <2>4. work' \in Work /\ WorkShape'
    BY <1>1, IdleType DEF RestartOne, WorkShape, Idle
  <2> QED BY <1>1, <2>2, <2>3, <2>4 DEF RestartOne, env, TypeOK, VarTypes
<1>2. CASE DrainAll
  <2>1. work' \in Work /\ WorkShape'
    BY <1>2, BeginShape DEF DrainAll, TypeOK, VarTypes, Op
  <2> QED BY <1>2, <2>1, EmptySeq DEF DrainAll, env, TypeOK, VarTypes
<1>3. CASE RespawnHead
  <2> DEFINE c == Head(work.todo)
             rest == Advanced
  <2>1. work.todo # <<>> /\ work.op \in {"respawn", "from"}
    BY <1>3 DEF RespawnHead, HeadStopped, TypeOK, WorkShape
  <2>2. c \in Child /\ WithNewTask(c) \in Child
    BY <2>1, HeadType, WithNewTaskType DEF TypeOK
  <2>3. /\ rest \in Work
        /\ rest.op = work.op /\ rest.stage = "next" /\ rest.back = work.back
    BY <2>1, HeadType DEF Advanced, TypeOK, VarTypes, Work
  <2>4. /\ task' \in Seq(Task)
        /\ \/ work' = rest
           \/ work' = [rest EXCEPT !.back = Append(@, WithNewTask(c))]
    BY <1>3, <2>2, SpawnedType DEF RespawnHead, Spawned, TypeOK, VarTypes, Child
  <2> HIDE DEF c, rest
  <2>5. Append(rest.back, WithNewTask(c)) \in Seq(Child)
    BY <2>2, <2>3, AppendProperties DEF Work
  <2>6. work' \in Work /\ work'.op = work.op /\ work'.stage = "next"
    BY <2>3, <2>4, <2>5 DEF Work
  <2>7. WorkShape'
    BY <2>1, <2>6 DEF WorkShape
  <2>8. tracked' \subseteq Id
    BY <1>3 DEF RespawnHead, Forgotten, TypeOK, VarTypes
  <2> QED BY <1>3, <2>4, <2>6, <2>7, <2>8 DEF RespawnHead, env, TypeOK, VarTypes
<1>4. CASE EndRound
  <2>1. children' \in Seq(Child)
    BY <1>4, ConcatProperties DEF EndRound, TypeOK, VarTypes, Work
  <2>2. work' \in Work /\ WorkShape'
    BY <1>4, IdleType DEF EndRound, WorkShape, Idle
  <2> QED BY <1>4, <2>1, <2>2 DEF EndRound, env, TypeOK, VarTypes
<1> QED BY <1>1, <1>2, <1>3, <1>4

\* Tasks.
LEMMA ToldShape ==
  ASSUME TypeOK, NEW t, NEW reply \in {"Ok", "Err", "Closed"}, work' = Told(t, reply)
  PROVE  work' \in Work /\ WorkShape'
<1>1. /\ work' \in Work
      /\ work'.op = work.op /\ work'.stage = work.stage
      /\ work'.todo = work.todo /\ work'.back = work.back
      /\ work.op # "link" => work' = work
  BY ToldType
<1> QED BY <1>1 DEF WorkShape, TypeOK

\* A task ends and reports.
LEMMA ReportType ==
  ASSUME TypeOK, NEW t \in DOMAIN task, NEW how \in Ends, NEW reason \in Reason,
         Reports(t, how, reason)
  PROVE  task' \in Seq(Task) /\ queue' \in Seq(Command)
<1>1. task' \in Seq(Task)
  BY EndedTaskType DEF Reports, TypeOK
<1>2. task[t] \in Task /\ t \in Nat
  BY ElementOfSeq, LenProperties DEF TypeOK, VarTypes
<1>3. [cmd |-> "ChildTerminated", id |-> task[t].id, reason |-> reason, by |-> t] \in Command
  BY <1>2 DEF Command, Report, Task
<1>4. queue' \in Seq(Command)
  BY <1>3, SentType DEF Reports, TypeOK
<1> QED BY <1>1, <1>4

\* The count of faults keeps to its bound.
LEMMA FaultType ==
  ASSUME TypeOK, Fault
  PROVE  faults' \in 0..MaxFaults
BY BoundsAssumption DEF Fault, TypeOK, VarTypes

\* A task takes a step.
LEMMA TaskType ==
  ASSUME TypeOK, NEW t \in DOMAIN task, Runs(t) \/ MustRun(t)
  PROVE  TypeOK'
<1>1. CASE InitOk(t)
  <2>1. task' \in Seq(Task)
    <3>1. "run" \in Pc /\ "Normal" \in Reason /\ TRUE \in BOOLEAN
      BY DEF Pc, Reason
    <3> QED BY <1>1, <3>1, MovedType DEF InitOk, Moves, TypeOK
  <2>2. work' \in Work /\ WorkShape'
    BY <1>1, ToldShape DEF InitOk
  <2> QED BY <1>1, <2>1, <2>2 DEF InitOk, env, TypeOK, VarTypes
<1>2. CASE InitFails(t)
  <2>1. task' \in Seq(Task)
    <3>1. "initerr" \in Pc /\ "Normal" \in Reason /\ TRUE \in BOOLEAN
      BY DEF Pc, Reason
    <3> QED BY <1>2, <3>1, MovedType DEF InitFails, Moves, TypeOK
  <2>2. work' \in Work /\ WorkShape'
    BY <1>2, ToldShape DEF InitFails
  <2>3. faults' \in 0..MaxFaults
    BY <1>2, FaultType DEF InitFails
  <2> QED BY <1>2, <2>1, <2>2, <2>3 DEF InitFails, TypeOK, VarTypes
<1>3. CASE ShutdownSeen(t)
  <2>1. task' \in Seq(Task)
    <3>1. "hook" \in Pc /\ "Shutdown" \in Reason /\ TRUE \in BOOLEAN
      BY DEF Pc, Reason
    <3> QED BY <1>3, <3>1, MovedType DEF ShutdownSeen, Leaves, TypeOK
  <2> QED BY <1>3, <2>1 DEF ShutdownSeen, env, TypeOK, VarTypes, WorkShape
<1>4. CASE RunReturns(t)
  <2> PICK reason \in {"Normal", "Abnormal"} : Leaves(t, reason)
    BY <1>4 DEF RunReturns
  <2>1. task' \in Seq(Task)
    <3>1. "hook" \in Pc /\ reason \in Reason /\ TRUE \in BOOLEAN
      BY DEF Pc, Reason
    <3> QED BY <3>1, MovedType DEF Leaves, TypeOK
  <2>2. faults' \in 0..MaxFaults
    BY <1>4, FaultType DEF RunReturns
  <2> QED BY <1>4, <2>1, <2>2 DEF RunReturns, TypeOK, VarTypes, WorkShape
<1>5. CASE HookReturns(t) \/ ReportInitFailure(t) \/ NestedStops(t)
  <2>1. task[t] \in Task
    BY ElementOfSeq, LenProperties DEF TypeOK, VarTypes
  <2>2. task' \in Seq(Task) /\ queue' \in Seq(Command)
    <3>1. CASE HookReturns(t)
      BY <2>1, <3>1, ReportType DEF HookReturns, Ends, Task
    <3>2. CASE ReportInitFailure(t)
      BY <3>2, ReportType DEF ReportInitFailure, Ends, Reason
    <3>3. CASE NestedStops(t)
      BY <3>3, ReportType DEF NestedStops, Ends, Reason
    <3> QED BY <1>5, <3>1, <3>2, <3>3
  <2> QED BY <1>5, <2>2
          DEF HookReturns, ReportInitFailure, NestedStops, env, TypeOK, VarTypes, WorkShape
<1>6. CASE Cancelled(t)
  <2>1. task' \in Seq(Task)
    BY <1>6, EndedTaskType DEF Cancelled, TypeOK, Ends
  <2> QED BY <1>6, <2>1 DEF Cancelled, env, TypeOK, VarTypes, WorkShape
<1>7. CASE Panic(t)
  <2>1. task' \in Seq(Task)
    BY <1>7, EndedTaskType DEF Panic, TypeOK, Ends
  <2>2. work' \in Work /\ WorkShape'
    BY <1>7, ToldShape DEF Panic
  <2>3. faults' \in 0..MaxFaults
    BY <1>7, FaultType DEF Panic
  <2> QED BY <1>7, <2>1, <2>2, <2>3 DEF Panic, TypeOK, VarTypes
<1>8. CASE Block(t)
  <2>1. task' \in Seq(Task)
    <3>1. "blocked" \in Pc /\ "Normal" \in Reason /\ TRUE \in BOOLEAN
      BY DEF Pc, Reason
    <3> QED BY <1>8, <3>1, MovedType DEF Block, Moves, TypeOK
  <2>2. faults' \in 0..MaxFaults
    BY <1>8, FaultType DEF Block
  <2> QED BY <1>8, <2>1, <2>2 DEF Block, TypeOK, VarTypes, WorkShape
<1>9. CASE Unblock(t)
  <2>1. task' \in Seq(Task)
    <3>1. "run" \in Pc /\ "Normal" \in Reason /\ TRUE \in BOOLEAN
      BY DEF Pc, Reason
    <3> QED BY <1>9, <3>1, MovedType DEF Unblock, Moves, TypeOK
  <2> QED BY <1>9, <2>1 DEF Unblock, env, TypeOK, VarTypes, WorkShape
<1>10. CASE NestedEscalates(t)
  <2>1. task' \in Seq(Task) /\ queue' \in Seq(Command)
    BY <1>10, ReportType DEF NestedEscalates, Ends, Reason
  <2>2. faults' \in 0..MaxFaults
    BY <1>10, FaultType DEF NestedEscalates
  <2> QED BY <1>10, <2>1, <2>2 DEF NestedEscalates, TypeOK, VarTypes, WorkShape
<1> QED BY <1>1, <1>2, <1>3, <1>4, <1>5, <1>6, <1>7, <1>8, <1>9, <1>10 DEF Runs, MustRun

\* Every step keeps the types.
LEMMA NextType ==
  ASSUME TypeOK, [Next]_vars
  PROVE  TypeOK'
<1>1. CASE UNCHANGED vars
  BY <1>1 DEF vars, TypeOK, VarTypes, WorkShape
<1>2. CASE Runtime
  BY <1>2, AnsweringType, ReportingType, DeferringType, LinkingType, StoppingType,
     RestartingType DEF Runtime
<1>3. CASE \E c \in Client, k \in Calls : Call(c, k)
  BY <1>3, CallType
<1>4. CASE \E m \in timers : TimerFires(m)
  BY <1>4, DeferringType
<1>5. CASE \E t \in DOMAIN task : Runs(t) \/ MustRun(t)
  BY <1>5, TaskType
<1> QED BY <1>1, <1>2, <1>3, <1>4, <1>5 DEF Next

\* The variables keep their types, and the handler in progress keeps its shape.
THEOREM TypeCorrect == Spec => []TypeOK
<1>1. Init => TypeOK
  BY InitType
<1>2. TypeOK /\ [Next]_vars => TypeOK'
  BY NextType
<1> QED BY <1>1, <1>2, PTL DEF Spec

(***************************************************************************)
(* Safety of Supervisor for every value of the constants: ids stay unique, *)
(* no task is forgotten, two incarnations of a worker never run side by    *)
(* side, and OneForAll never mixes generations.                            *)
(*                                                                         *)
(* None of the four is inductive: what is known of a child when it leaves  *)
(* the hands of the supervisor has to be carried through the round.  The   *)
(* invariant below says which children in hand are already stopped, and    *)
(* that a child in hand is the latest incarnation of its id.               *)
(***************************************************************************)

\* A worker was joined; a nested supervisor was told to stop.
Stopped(c) == Ended(c.task) \/ (c.kind = "Supervisor" /\ task[c.task].signal)

\* Every child in hand runs as the latest task spawned under its id.
HeldTasks ==
  \A c \in Held :
    /\ c.task \in DOMAIN task
    /\ task[c.task].id = c.id
    /\ task[c.task].kind = c.kind
    /\ \A u \in DOMAIN task : task[u].id = c.id => u <= c.task

\* What the handler in progress has established.
HeadAsked ==
  work.stage # "next" =>
    LET c == Head(work.todo) IN Ended(c.task) \/ task[c.task].signal

RoundStops ==
  /\ work.op = "link" => \A c \in SetOf(work.todo) : c.kind = "Worker"
  /\ work.op = "all" => \A c \in SetOf(children) \ SetOf(work.todo) : Stopped(c)
  /\ work.op = "respawn" => \A c \in SetOf(work.todo) : Stopped(c)

Handled == HeadAsked /\ RoundStops

IInv == TypeOK /\ UniqueIds /\ NoOrphan /\ HeldTasks /\ Handled

(***************************************************************************)
(* The roster, piece by piece.                                             *)
(***************************************************************************)

\* The roster is the three parts in which the supervisor holds children.
LEMMA DistinctRoster ==
  ASSUME NEW S, NEW s \in Seq(S), NEW t \in Seq(S), NEW u \in Seq(S)
  PROVE  DistinctIds(s \o t \o u) <=>
           /\ DistinctIds(s) /\ DistinctIds(t) /\ DistinctIds(u)
           /\ Apart(s, t) /\ Apart(s, u) /\ Apart(t, u)
<1> DEFINE v == s \o t
<1>1. v \in Seq(S) /\ SetOf(v) = SetOf(s) \cup SetOf(t)
  BY ConcatProperties, SetOfConcat
<1>2. DistinctIds(v) <=> DistinctIds(s) /\ DistinctIds(t) /\ Apart(s, t)
  BY DistinctConcat
<1> HIDE DEF v
<1>3. DistinctIds(v \o u) <=> DistinctIds(v) /\ DistinctIds(u) /\ Apart(v, u)
  BY <1>1, DistinctConcat
<1>4. Apart(v, u) <=> Apart(s, u) /\ Apart(t, u)
  BY <1>1 DEF Apart
<1> QED BY <1>2, <1>3, <1>4 DEF v

\* The children a handler has in hand that will still be children after it.
Pool == IF work.op \in {"from", "respawn", "link"} THEN work.todo ELSE <<>>

UniquePieces ==
  /\ DistinctIds(children) /\ DistinctIds(work.back) /\ DistinctIds(Pool)
  /\ Apart(children, work.back) /\ Apart(children, Pool) /\ Apart(work.back, Pool)

\* Unique ids, part by part.
LEMMA Pieces == TypeOK => (UniqueIds <=> UniquePieces)
<1> SUFFICES ASSUME TypeOK PROVE UniqueIds <=> UniquePieces
  OBVIOUS
<1>1. children \in Seq(Child) /\ work.back \in Seq(Child) /\ Pool \in Seq(Child)
  BY EmptySeq DEF TypeOK, VarTypes, Work, Pool
<1>2. Roster = children \o work.back \o Pool
  BY DEF Roster, Pool
<1> QED BY <1>1, <1>2, DistinctRoster DEF UniqueIds, UniquePieces

\* The same after a step.
LEMMA PiecesNext == TypeOK' => (UniqueIds' <=> UniquePieces')
BY Pieces, PTL

\* Nothing but `children` on the roster.
LEMMA OnlyChildren ==
  ASSUME NEW s
  PROVE  /\ DistinctIds(<<>>)
         /\ Apart(s, <<>>) /\ Apart(<<>>, s) /\ Apart(<<>>, <<>>)
<1>1. SetOf(<<>>) = {}
  BY SetOfSmall
<1> QED BY <1>1, DistinctSmall DEF Apart

(***************************************************************************)
(* What a step may do to the tasks and to the children in hand.            *)
(***************************************************************************)

\* Tasks are only added; what was said of one stays true until it ends.
Grows ==
  /\ Len(task) <= Len(task')
  /\ \A t \in DOMAIN task :
       /\ task'[t].id = task[t].id
       /\ task'[t].kind = task[t].kind
       /\ task[t].pc \in Ends => task'[t].pc \in Ends
       /\ task[t].signal => task'[t].pc \in Ends \/ task'[t].signal
       /\ task[t].abort => task'[t].pc \in Ends \/ task'[t].abort

\* A child that leaves the hands of the supervisor was stopped or aborted.
LetGo(c) ==
  \/ task'[c.task].pc \in Ends
  \/ task'[c.task].abort
  \/ c.kind = "Supervisor" /\ task'[c.task].signal

Settles == Len(task') = Len(task) /\ Held' \subseteq Held

\* One task is spawned, for a child whose id nothing else in hand has.
Spawns ==
  \E n \in Child :
    /\ Len(task') = Len(task) + 1
    /\ n.task = Len(task) + 1
    /\ task'[n.task].id = n.id
    /\ task'[n.task].kind = n.kind
    /\ n \in Held'
    /\ Held' \subseteq Held \cup {n}
    /\ \A c \in Held' : c # n => c.id # n.id

\* A step keeps the invariant if tasks only grow and whatever left the hands of
\* the supervisor was let go.
LEMMA GrowsKeeps ==
  ASSUME IInv, TypeOK', Grows, Settles \/ Spawns,
         \A c \in Held \ Held' : LetGo(c),
         UniqueIds', Handled'
  PROVE  IInv'
<1>1. /\ Len(task) \in Nat /\ DOMAIN task = 1..Len(task)
      /\ Len(task') \in Nat /\ DOMAIN task' = 1..Len(task')
  BY LenProperties DEF IInv, TypeOK, VarTypes
<1>2. \A c \in Held :
        /\ c.task \in DOMAIN task /\ task[c.task].id = c.id /\ task[c.task].kind = c.kind
        /\ \A u \in DOMAIN task : task[u].id = c.id => u <= c.task
  BY DEF IInv, HeldTasks
<1>3. \A t \in DOMAIN task : t \in DOMAIN task'
  BY <1>1 DEF Grows
<1>4. ASSUME NEW t \in DOMAIN task
      PROVE  \/ task'[t].pc \in Ends
             \/ task'[t].abort
             \/ \E c \in Held' : c.task = t
             \/ task'[t].kind = "Supervisor" /\ task'[t].signal
  <2>1. CASE task[t].pc \in Ends \/ task[t].abort
    BY <2>1 DEF Grows
  <2>2. CASE task[t].kind = "Supervisor" /\ task[t].signal
    BY <2>2 DEF Grows
  <2>3. ASSUME NEW c \in Held, c.task = t
        PROVE  \/ task'[t].pc \in Ends
               \/ task'[t].abort
               \/ \E d \in Held' : d.task = t
               \/ task'[t].kind = "Supervisor" /\ task'[t].signal
    <3>1. CASE c \in Held'
      BY <2>3, <3>1
    <3>2. CASE c \notin Held'
      <4>1. LetGo(c)
        BY <3>2
      <4>2. task'[t].kind = c.kind
        BY <1>2, <2>3 DEF Grows
      <4> QED BY <2>3, <4>1, <4>2 DEF LetGo
    <3> QED BY <3>1, <3>2
  <2> QED BY <2>1, <2>2, <2>3 DEF IInv, NoOrphan, Ended
<1>5. CASE Settles
  <2>1. DOMAIN task' = DOMAIN task
    BY <1>1, <1>5 DEF Settles
  <2>2. NoOrphan'
    BY <1>4, <2>1 DEF NoOrphan, Ended
  <2>3. HeldTasks'
    BY <1>2, <1>5, <2>1 DEF HeldTasks, Settles, Grows
  <2> QED BY <2>2, <2>3 DEF IInv
<1>6. CASE Spawns
  <2> PICK n \in Child :
        /\ Len(task') = Len(task) + 1
        /\ n.task = Len(task) + 1
        /\ task'[n.task].id = n.id
        /\ task'[n.task].kind = n.kind
        /\ n \in Held'
        /\ Held' \subseteq Held \cup {n}
        /\ \A c \in Held' : c # n => c.id # n.id
    BY <1>6 DEF Spawns
  <2>1. DOMAIN task' = DOMAIN task \cup {n.task}
    BY <1>1
  <2>2. NoOrphan'
    BY <1>4, <2>1 DEF NoOrphan, Ended
  <2>3. ASSUME NEW c \in Held', c # n
        PROVE  /\ c.task \in DOMAIN task' /\ task'[c.task].id = c.id
               /\ task'[c.task].kind = c.kind
               /\ \A u \in DOMAIN task' : task'[u].id = c.id => u <= c.task
    <3>1. c \in Held /\ c.id # n.id
      BY <2>3
    <3> QED BY <1>2, <2>1, <3>1 DEF Grows
  <2>4. /\ n.task \in DOMAIN task'
        /\ \A u \in DOMAIN task' : u <= n.task
    BY <1>1, <2>1
  <2>5. HeldTasks'
    BY <2>3, <2>4 DEF HeldTasks
  <2> QED BY <2>2, <2>5 DEF IInv
<1> QED BY <1>5, <1>6

\* A step that leaves the tasks alone lets them grow.
LEMMA GrowsSame == TypeOK /\ task' = task => Grows /\ Len(task') = Len(task)
BY LenProperties DEF TypeOK, VarTypes, Grows

\* So does one that spawns a task.
LEMMA GrowsSpawned ==
  ASSUME TypeOK, NEW e \in Task, task' = Append(task, e)
  PROVE  Grows /\ Len(task') = Len(task) + 1 /\ task'[Len(task) + 1] = e
<1>1. Len(task) \in Nat /\ DOMAIN task = 1..Len(task)
  BY LenProperties DEF TypeOK, VarTypes
<1>2. /\ Len(task') = Len(task) + 1
      /\ task'[Len(task) + 1] = e
      /\ \A t \in 1..Len(task) : task'[t] = task[t]
  BY AppendProperties DEF TypeOK, VarTypes
<1> QED BY <1>1, <1>2 DEF Grows

\* One task moves on.
LEMMA GrowsExcept ==
  ASSUME TypeOK, NEW t \in DOMAIN task, NEW e,
         task' = [task EXCEPT ![t] = e],
         task[t].pc \notin Ends,
         e.id = task[t].id, e.kind = task[t].kind,
         e.pc \in Ends \/ ((task[t].signal => e.signal) /\ (task[t].abort => e.abort))
  PROVE  Grows /\ Len(task') = Len(task)
<1>1. /\ DOMAIN task' = DOMAIN task
      /\ task'[t] = e
      /\ \A u \in DOMAIN task : u # t => task'[u] = task[u]
  BY LenProperties DEF TypeOK, VarTypes
<1>2. Len(task') = Len(task) /\ Len(task) \in Nat
  <2> DEFINE T == Task \cup {e}
  <2>1. task \in Seq(T) /\ e \in T
    BY SeqMonotonic DEF TypeOK, VarTypes
  <2> HIDE DEF T
  <2>2. t \in 1..Len(task) /\ Len(task) \in Nat
    BY <2>1, LenProperties
  <2> QED BY <2>1, <2>2, ExceptSeq
<1> QED BY <1>1, <1>2 DEF Grows

\* A stopped child stays stopped.
LEMMA StoppedStays ==
  ASSUME IInv, Grows
  PROVE  \A c \in Held :
           /\ c.task \in DOMAIN task
           /\ Stopped(c) => \/ task'[c.task].pc \in Ends
                            \/ c.kind = "Supervisor" /\ task'[c.task].signal
           /\ Ended(c.task) \/ task[c.task].signal
                => task'[c.task].pc \in Ends \/ task'[c.task].signal
<1> SUFFICES ASSUME NEW c \in Held
             PROVE  /\ c.task \in DOMAIN task
                    /\ Stopped(c) => \/ task'[c.task].pc \in Ends
                                     \/ c.kind = "Supervisor" /\ task'[c.task].signal
                    /\ Ended(c.task) \/ task[c.task].signal
                         => task'[c.task].pc \in Ends \/ task'[c.task].signal
  OBVIOUS
<1>1. c.task \in DOMAIN task
  BY DEF IInv, HeldTasks
<1> QED BY <1>1 DEF Grows, Stopped, Ended

\* The elements of `todo` and its head are in hand.
LEMMA InHand ==
  ASSUME IInv
  PROVE  /\ SetOf(children) \subseteq Held /\ SetOf(work.todo) \subseteq Held
         /\ SetOf(work.back) \subseteq Held /\ Held \subseteq Child
         /\ work.todo # <<>> => Head(work.todo) \in SetOf(work.todo)
<1>1. /\ children \in Seq(Child) /\ work.todo \in Seq(Child) /\ work.back \in Seq(Child)
  BY DEF IInv, TypeOK, VarTypes, Work
<1>2. Held \subseteq Child
  BY <1>1, SetOfIn DEF Held
<1>3. work.todo # <<>> => Head(work.todo) \in SetOf(work.todo)
  BY <1>1, SetOfHead
<1> QED BY <1>2, <1>3 DEF Held

\* What a round has established stays established.
LEMMA RoundStays ==
  ASSUME IInv, Grows, children' = children, work'.op = work.op, work'.todo = work.todo
  PROVE  RoundStops'
<1>1. ASSUME work.op = "all", NEW c \in SetOf(children) \ SetOf(work.todo)
      PROVE  task'[c.task].pc \in Ends \/ (c.kind = "Supervisor" /\ task'[c.task].signal)
  <2>1. c \in Held /\ Stopped(c)
    BY <1>1, InHand DEF IInv, Handled, RoundStops
  <2> QED BY <2>1, StoppedStays
<1>2. ASSUME work.op = "respawn", NEW c \in SetOf(work.todo)
      PROVE  task'[c.task].pc \in Ends \/ (c.kind = "Supervisor" /\ task'[c.task].signal)
  <2>1. c \in Held /\ Stopped(c)
    BY <1>2, InHand DEF IInv, Handled, RoundStops
  <2> QED BY <2>1, StoppedStays
<1> QED BY <1>1, <1>2 DEF IInv, Handled, RoundStops, Stopped, Ended

\* So does what was asked of the head of `todo`.
LEMMA HeadStays ==
  ASSUME IInv, Grows, work.stage # "next"
  PROVE  LET c == Head(work.todo) IN task'[c.task].pc \in Ends \/ task'[c.task].signal
<1>1. Head(work.todo) \in Held
  BY InHand DEF IInv, TypeOK, WorkShape
<1>2. LET c == Head(work.todo) IN Ended(c.task) \/ task[c.task].signal
  BY DEF IInv, Handled, HeadAsked
<1> QED BY <1>1, <1>2, StoppedStays

\* A step that changes neither the children in hand nor the tasks' number.
LEMMA QuietStep ==
  ASSUME IInv, TypeOK', Grows, Len(task') = Len(task), children' = children,
         work'.op = work.op, work'.stage = work.stage, work'.todo = work.todo,
         work'.back = work.back
  PROVE  IInv'
<1>1. Handled'
  BY RoundStays, HeadStays DEF Handled, HeadAsked, Ended
<1>2. UniqueIds'
  BY DEF IInv, UniqueIds, Roster
<1>3. Held' = Held
  BY DEF Held
<1> QED BY <1>1, <1>2, <1>3, GrowsKeeps DEF Settles

(***************************************************************************)
(* The steps, one after the other.                                         *)
(***************************************************************************)

\* With no handler in progress, what is in hand are the children.
LEMMA AtRest ==
  ASSUME IInv, work = Idle
  PROVE  Held = SetOf(children) /\ DistinctIds(children)
<1>1. work.todo = <<>> /\ work.back = <<>> /\ SetOf(<<>>) = {}
  BY SetOfSmall DEF Idle
<1>2. DistinctIds(children)
  BY Pieces DEF IInv, UniquePieces
<1> QED BY <1>1, <1>2 DEF Held

\* A handler is over: the children in hand are those listed.
LEMMA RestNext ==
  ASSUME TypeOK', work' = Idle, DistinctIds(children')
  PROVE  Held' = SetOf(children') /\ Handled' /\ UniqueIds'
<1>1. /\ work'.op = "idle" /\ work'.stage = "next"
      /\ work'.todo = <<>> /\ work'.back = <<>> /\ SetOf(<<>>) = {}
  BY SetOfSmall DEF Idle
<1>2. Held' = SetOf(children')
  BY <1>1 DEF Held
<1>3. Pool' = <<>>
  BY <1>1 DEF Pool
<1>4. UniqueIds'
  BY <1>1, <1>3, OnlyChildren, PiecesNext DEF UniquePieces
<1>5. Handled'
  BY <1>1 DEF Handled, HeadAsked, RoundStops
<1> QED BY <1>2, <1>4, <1>5

\* A handler that awaits has just begun with `todo` in hand.
LEMMA BegunNext ==
  ASSUME TypeOK', NEW todo, work'.stage = "next", work'.todo = todo, work'.back = <<>>,
         DistinctIds(children'),
         work'.op \in {"from", "respawn", "link"} =>
           DistinctIds(todo) /\ Apart(children', todo)
  PROVE  Held' = SetOf(children') \cup SetOf(todo) /\ UniqueIds'
<1>1. SetOf(<<>>) = {} /\ DistinctIds(<<>>)
  BY SetOfSmall, DistinctSmall
<1>2. Held' = SetOf(children') \cup SetOf(todo)
  BY <1>1 DEF Held
<1>3. Apart(children', <<>>) /\ Apart(<<>>, <<>>) /\ Apart(<<>>, todo)
  BY <1>1 DEF Apart
<1>4. CASE work'.op \in {"from", "respawn", "link"}
  <2>1. Pool' = todo
    BY <1>4 DEF Pool
  <2> QED BY <1>1, <1>2, <1>3, <1>4, <2>1, PiecesNext DEF UniquePieces
<1>5. CASE work'.op \notin {"from", "respawn", "link"}
  <2>1. Pool' = <<>>
    BY <1>5 DEF Pool
  <2> QED BY <1>1, <1>2, <1>3, <2>1, PiecesNext DEF UniquePieces
<1> QED BY <1>4, <1>5

\* Handlers and timers that touch neither children nor tasks.
LEMMA UntouchedSafe ==
  ASSUME IInv, TypeOK', UNCHANGED <<children, work, task>>
  PROVE  IInv'
<1>1. Grows /\ Len(task') = Len(task)
  BY GrowsSame DEF IInv
<1> QED BY <1>1, QuietStep

\* The fields of a new task.
LEMMA NewTaskFields ==
  ASSUME NEW c, NEW linked
  PROVE  NewTask(c, linked).id = c.id /\ NewTask(c, linked).kind = c.kind
BY DEF NewTask

\* A task that moves on keeps what was said of it, until it ends.
LEMMA TaskGrows ==
  ASSUME IInv, NEW t \in DOMAIN task, Runs(t) \/ MustRun(t)
  PROVE  Grows /\ Len(task') = Len(task)
<1>1. task[t] \in Task
  BY ElementOfSeq, LenProperties DEF IInv, TypeOK, VarTypes
<1>2. ASSUME NEW from \in Pc \ Ends, NEW to \in Pc, Moves(t, from, to)
      PROVE  Grows /\ Len(task') = Len(task)
  <2> DEFINE e == [task[t] EXCEPT !.pc = to]
  <2>1. /\ task' = [task EXCEPT ![t] = e]
        /\ e.id = task[t].id /\ e.kind = task[t].kind
        /\ e.signal = task[t].signal /\ e.abort = task[t].abort
    BY <1>1, <1>2 DEF Moves, Task
  <2>2. task[t].pc \notin Ends
    BY <1>2 DEF Moves
  <2> HIDE DEF e
  <2> QED BY <2>1, <2>2, GrowsExcept DEF IInv
<1>3. ASSUME NEW reason, Leaves(t, reason)
      PROVE  Grows /\ Len(task') = Len(task)
  <2> DEFINE e == [[task[t] EXCEPT !.pc = "hook"] EXCEPT !.reason = reason]
  <2>1. /\ task' = [task EXCEPT ![t] = e]
        /\ e.id = task[t].id /\ e.kind = task[t].kind
        /\ e.signal = task[t].signal /\ e.abort = task[t].abort
    BY <1>1, <1>3 DEF Leaves, Task
  <2>2. task[t].pc \notin Ends
    BY <1>3 DEF Leaves, Ends
  <2> HIDE DEF e
  <2> QED BY <2>1, <2>2, GrowsExcept DEF IInv
<1>4. ASSUME NEW how \in Ends, task[t].pc \notin Ends,
             task' = [task EXCEPT ![t] = EndedTask(t, how)]
      PROVE  Grows /\ Len(task') = Len(task)
  <2> DEFINE e == EndedTask(t, how)
  <2>1. e.id = task[t].id /\ e.kind = task[t].kind /\ e.pc = how
    BY <1>1 DEF EndedTask, NewTask
  <2> HIDE DEF e
  <2> QED BY <1>4, <2>1, GrowsExcept DEF IInv, e
<1>5. CASE InitOk(t)
  BY <1>2, <1>5 DEF InitOk, Pc, Ends
<1>6. CASE InitFails(t)
  BY <1>2, <1>6 DEF InitFails, Pc, Ends
<1>7. CASE ShutdownSeen(t) \/ RunReturns(t)
  BY <1>3, <1>7 DEF ShutdownSeen, RunReturns
<1>8. CASE HookReturns(t) \/ ReportInitFailure(t) \/ NestedStops(t) \/ NestedEscalates(t)
  BY <1>4, <1>8
     DEF HookReturns, ReportInitFailure, NestedStops, NestedEscalates, Reports, Ends
<1>9. CASE Cancelled(t) \/ Panic(t)
  BY <1>4, <1>9 DEF Cancelled, Panic, Ends
<1>10. CASE Block(t) \/ Unblock(t)
  BY <1>2, <1>10 DEF Block, Unblock, Pc, Ends
<1> QED BY <1>5, <1>6, <1>7, <1>8, <1>9, <1>10 DEF Runs, MustRun

\* The steps of a task.
LEMMA TaskSafe ==
  ASSUME IInv, TypeOK', NEW t \in DOMAIN task, Runs(t) \/ MustRun(t)
  PROVE  IInv'
<1>1. children' = children
  BY DEF Runs, MustRun, InitOk, InitFails, ShutdownSeen, RunReturns, HookReturns, Panic,
         Block, Unblock, NestedEscalates, ReportInitFailure, Cancelled, NestedStops
<1>2. /\ work'.op = work.op /\ work'.stage = work.stage
      /\ work'.todo = work.todo /\ work'.back = work.back
  <2>1. work' = work \/ \E reply \in {"Ok", "Err", "Closed"} : work' = Told(t, reply)
    BY DEF Runs, MustRun, InitOk, InitFails, ShutdownSeen, RunReturns, HookReturns, Panic,
           Block, Unblock, NestedEscalates, ReportInitFailure, Cancelled, NestedStops
  <2> QED BY <2>1, ToldType DEF IInv
<1> QED BY <1>1, <1>2, TaskGrows, QuietStep

\* Dropping a worker aborts it.
LEMMA DroppedLetsGo ==
  ASSUME IInv, NEW c \in Held, c.kind = "Worker", task' = Dropped(c)
  PROVE  Grows /\ Len(task') = Len(task) /\ LetGo(c)
<1>1. c.task \in DOMAIN task
  BY DEF IInv, HeldTasks
<1>2. task[c.task] \in Task
  BY <1>1, ElementOfSeq, LenProperties DEF IInv, TypeOK, VarTypes
<1>3. CASE task[c.task].pc \in Ends
  <2>1. task' = task
    BY <1>3 DEF Dropped, Ended
  <2> QED BY <1>3, <2>1, GrowsSame DEF IInv, LetGo
<1>4. CASE task[c.task].pc \notin Ends
  <2> DEFINE e == [task[c.task] EXCEPT !.abort = TRUE]
  <2>1. /\ task' = [task EXCEPT ![c.task] = e]
        /\ e.id = task[c.task].id /\ e.kind = task[c.task].kind
        /\ e.signal = task[c.task].signal /\ e.abort
    BY <1>2, <1>4 DEF Dropped, Ended, Task
  <2> HIDE DEF e
  <2>2. task'[c.task] = e
    BY <1>1, <2>1
  <2> QED BY <1>1, <1>4, <2>1, <2>2, GrowsExcept DEF IInv, LetGo
<1> QED BY <1>3, <1>4

\* A worker is started under an id that no child has.
LEMMA StartSafe ==
  ASSUME IInv, TypeOK', HandleStartChild \/ HandleStartChildLinked
  PROVE  IInv'
<1> DEFINE m == Head(queue)
           n == Requested(m)
<1>1. PICK linked \in BOOLEAN : task' = Append(task, NewTask(n, linked))
  BY DEF HandleStartChild, HandleStartChildLinked, Spawned
<1>2. work = Idle /\ m \in Command /\ m.cmd \in CallName
  BY ReceivesType DEF HandleStartChild, HandleStartChildLinked, IInv, CallName
<1>3. n \in Child /\ n.id = m.id /\ n.task = Len(task) + 1 /\ n.kind = "Worker"
  BY <1>2, RequestedType DEF IInv, TypeOK
<1>4. Held = SetOf(children) /\ DistinctIds(children) /\ children \in Seq(Child)
  BY <1>2, AtRest DEF IInv, TypeOK, VarTypes
<1>5. \A c \in SetOf(children) : c.id # n.id
  BY <1>3 DEF HandleStartChild, HandleStartChildLinked, Listed, SetOf
<1> HIDE DEF n
<1>6. /\ Grows
      /\ Len(task') = Len(task) + 1
      /\ task'[n.task].id = n.id /\ task'[n.task].kind = n.kind
  <2>1. NewTask(n, linked) \in Task
    BY <1>3, NewTaskType DEF Child
  <2> QED BY <1>1, <1>3, <2>1, NewTaskFields, GrowsSpawned DEF IInv, TypeOK
<1>7. CASE HandleStartChild
  <2>1. children' = Append(children, n) /\ work' = Idle
    BY <1>2, <1>7 DEF HandleStartChild, n
  <2>2. SetOf(children') = SetOf(children) \cup {n} /\ DistinctIds(children')
    <3>1. SetOf(Append(children, n)) = SetOf(children) \cup {n}
      BY <1>3, <1>4, SetOfAppend
    <3>2. DistinctIds(Append(children, n))
      BY <1>3, <1>4, <1>5, DistinctAppend
    <3> QED BY <2>1, <3>1, <3>2
  <2>3. Held' = SetOf(children) \cup {n} /\ UniqueIds' /\ Handled'
    BY <2>1, <2>2, RestNext
  <2>4. Spawns
    BY <1>3, <1>4, <1>5, <1>6, <2>3 DEF Spawns
  <2> QED BY <1>4, <1>6, <2>3, <2>4, GrowsKeeps
<1>8. CASE HandleStartChildLinked
  <2> DEFINE todo == <<n>>
  <2>1. todo \in Seq(Child) /\ SetOf(todo) = {n} /\ DistinctIds(todo)
    BY <1>3, SetOfSmall, DistinctSmall
  <2>2. children' = children /\ work' = [Begin("link", todo) EXCEPT !.client = {m.client}]
    BY <1>8 DEF HandleStartChildLinked, n
  <2> HIDE DEF todo
  <2>3. /\ work'.op = "link" /\ work'.stage = "next"
        /\ work'.todo = todo /\ work'.back = <<>>
    BY <2>1, <2>2, BeginType DEF Op, Work
  <2>4. Apart(children, todo)
    BY <1>5, <2>1 DEF Apart
  <2>5. Held' = SetOf(children) \cup {n} /\ UniqueIds'
    BY <1>4, <2>1, <2>2, <2>3, <2>4, BegunNext
  <2>6. Handled'
    BY <1>3, <2>1, <2>3 DEF Handled, HeadAsked, RoundStops
  <2>7. Spawns
    BY <1>3, <1>4, <1>5, <1>6, <2>5 DEF Spawns
  <2> QED BY <1>4, <1>6, <2>5, <2>6, <2>7, GrowsKeeps
<1> QED BY <1>7, <1>8

\* The end of a linked start.
LEMMA LinkSafe ==
  ASSUME IInv, TypeOK',
         LinkOk \/ \E a \in {"InitializationFailed", "InitializationTimeout"} : LinkFails(a)
  PROVE  IInv'
<1> DEFINE c == Head(work.todo)
<1>1. work.op = "link" /\ work.todo # <<>> /\ work.back = <<>> /\ Len(work.todo) = 1
  BY EmptySeq DEF LinkOk, LinkFails, IInv, TypeOK, VarTypes, WorkShape, Work
<1>2. /\ children \in Seq(Child) /\ work.todo \in Seq(Child)
      /\ c \in Child /\ SetOf(work.todo) = {c}
  <2>1. children \in Seq(Child) /\ work.todo \in Seq(Child)
    BY DEF IInv, TypeOK, VarTypes, Work
  <2>2. Len(Tail(work.todo)) = 0 /\ Tail(work.todo) \in Seq(Child)
    BY <1>1, <2>1, HeadTailProperties
  <2>3. Tail(work.todo) = <<>>
    BY <2>2, EmptySeq
  <2> QED BY <1>1, <2>1, <2>3, SetOfHead, SetOfSmall
<1>3. DistinctIds(children) /\ Apart(children, work.todo)
  BY <1>1, Pieces DEF IInv, UniquePieces, Pool
<1>4. Held = SetOf(children) \cup {c}
  BY <1>1, <1>2, SetOfSmall DEF Held
<1>5. CASE LinkOk
  <2>1. children' = Append(children, c) /\ work' = Idle /\ task' = task
    BY <1>5 DEF LinkOk
  <2>2. Grows /\ Len(task') = Len(task)
    BY <2>1, GrowsSame DEF IInv
  <2>3. DistinctIds(children') /\ SetOf(children') = SetOf(children) \cup {c}
    <3>1. SetOf(Append(children, c)) = SetOf(children) \cup {c}
      BY <1>2, SetOfAppend
    <3>2. \A d \in SetOf(children) : d.id # c.id
      BY <1>2, <1>3 DEF Apart
    <3>3. DistinctIds(Append(children, c))
      BY <1>2, <1>3, <3>2, DistinctAppend
    <3> QED BY <2>1, <3>1, <3>3
  <2>4. Held' = Held /\ UniqueIds' /\ Handled'
    BY <1>4, <2>1, <2>3, RestNext
  <2> QED BY <2>2, <2>4, GrowsKeeps DEF Settles
<1>6. CASE ~LinkOk
  <2>1. children' = children /\ work' = Idle /\ task' = Dropped(c)
    BY <1>6 DEF LinkFails
  <2>2. Held' = SetOf(children) /\ UniqueIds' /\ Handled'
    BY <1>3, <2>1, RestNext
  <2>3. c \in Held /\ c.kind = "Worker"
    BY <1>1, <1>2, <1>4 DEF IInv, Handled, RoundStops
  <2>4. Grows /\ Len(task') = Len(task) /\ LetGo(c)
    BY <2>1, <2>3, DroppedLetsGo
  <2> QED BY <1>4, <2>2, <2>4, GrowsKeeps DEF Settles
<1> QED BY <1>5, <1>6

\* A child leaves the list: dropped, or to be terminated.
LEMMA RemoveSafe ==
  ASSUME IInv, TypeOK', DropChild \/ HandleTerminateChild
  PROVE  IInv'
<1>1. PICK i \in DOMAIN children :
        /\ children' = RemoveAt(children, i)
        /\ \/ /\ Concerns(i, FALSE)
              /\ task' = Dropped(children[i])
              /\ work' = work
           \/ /\ Receives("TerminateChild")
              /\ task' = task
              /\ work' = [Begin("terminate", <<children[i]>>)
                            EXCEPT !.client = {Head(queue).client}]
  BY DEF DropChild, HandleTerminateChild
<1> DEFINE c == children[i]
<1>2. work = Idle
  BY <1>1, ReceivesType DEF Concerns, IInv
<1>3. children \in Seq(Child) /\ c \in Child
  BY ChildType DEF IInv, TypeOK, VarTypes
<1>4. Held = SetOf(children) /\ DistinctIds(children)
  BY <1>2, AtRest
<1>5. SetOf(children) = {c} \cup SetOf(children')
  BY <1>1, <1>3, SetOfSplit
<1>6. DistinctIds(children')
  BY <1>1, <1>3, <1>4, DistinctSplit
<1>7. CASE Concerns(i, FALSE) /\ task' = Dropped(c) /\ work' = work
  <2>1. Held' = SetOf(children') /\ UniqueIds' /\ Handled'
    BY <1>2, <1>6, <1>7, RestNext
  <2>2. c \in Held /\ c.kind = "Worker"
    BY <1>3, <1>4, <1>5, <1>7
       DEF Concerns, ShouldRestart, PolicyForDecision, NoPolicy
  <2> HIDE DEF c
  <2>3. Grows /\ Len(task') = Len(task) /\ LetGo(c)
    BY <1>7, <2>2, DroppedLetsGo
  <2> QED BY <1>4, <1>5, <2>1, <2>3, GrowsKeeps DEF Settles
<1>8. CASE task' = task /\ work' = [Begin("terminate", <<c>>)
                                      EXCEPT !.client = {Head(queue).client}]
  <2> DEFINE todo == <<c>>
  <2>1. todo \in Seq(Child) /\ SetOf(todo) = {c}
    BY <1>3, SetOfSmall
  <2>2. work' = [Begin("terminate", todo) EXCEPT !.client = {Head(queue).client}]
    BY <1>8
  <2> HIDE DEF todo, c
  <2>3. /\ work'.op = "terminate" /\ work'.stage = "next"
        /\ work'.todo = todo /\ work'.back = <<>>
    BY <2>1, <2>2, BeginType DEF Op, Work
  <2>4. Held' = Held /\ UniqueIds'
    BY <1>4, <1>5, <1>6, <2>1, <2>3, BegunNext
  <2>5. Handled'
    BY <2>3 DEF Handled, HeadAsked, RoundStops
  <2>6. Grows /\ Len(task') = Len(task)
    BY <1>8, GrowsSame DEF IInv
  <2> QED BY <2>4, <2>5, <2>6, GrowsKeeps DEF Settles
<1> QED BY <1>1, <1>7, <1>8

\* The list is taken down.
LEMMA ClearSafe ==
  ASSUME IInv, TypeOK', Escalate \/ HandleShutdown
  PROVE  IInv'
<1>1. PICK op \in {"escalate", "shutdown"} :
        children' = <<>> /\ work' = Begin(op, children) /\ task' = task
  BY DEF Escalate, HandleShutdown
<1>2. work = Idle /\ children \in Seq(Child)
  BY ReceivesType DEF Escalate, Concerns, HandleShutdown, IInv, TypeOK, VarTypes
<1>3. /\ work'.op = op /\ work'.stage = "next"
      /\ work'.todo = children /\ work'.back = <<>>
  BY <1>1, <1>2, BeginType DEF Op
<1>4. SetOf(children') = {} /\ DistinctIds(children')
  BY <1>1, SetOfSmall, DistinctSmall
<1>5. Held' = SetOf(children) /\ UniqueIds'
  BY <1>3, <1>4, BegunNext
<1>6. Held' = Held
  BY <1>2, <1>5, AtRest
<1>7. Handled'
  BY <1>3 DEF Handled, HeadAsked, RoundStops
<1>8. Grows /\ Len(task') = Len(task)
  BY <1>1, GrowsSame DEF IInv
<1> QED BY <1>5, <1>6, <1>7, <1>8, GrowsKeeps DEF Settles

\* A round begins.
LEMMA RoundSafe ==
  ASSUME IInv, TypeOK', RestartNow \/ HandleRestartChild
  PROVE  IInv'
<1>1. PICK i \in DOMAIN children : BeginRound(i) /\ task' = task
  BY DEF RestartNow, HandleRestartChild
<1> DEFINE c == children[i]
           l == SubSeq(children, 1, i - 1)
           r == SubSeq(children, i, Len(children))
<1>2. work = Idle
  BY ReceivesType DEF RestartNow, HandleRestartChild, Concerns, IInv
<1>3. children \in Seq(Child) /\ c \in Child
  BY ChildType DEF IInv, TypeOK, VarTypes
<1>4. Held = SetOf(children) /\ DistinctIds(children)
  BY <1>2, AtRest
<1>5. Grows /\ Len(task') = Len(task)
  BY <1>1, GrowsSame DEF IInv
<1>6. SetOf(children) = SetOf(l) \cup SetOf(r) /\ c \in SetOf(children)
  BY <1>3, SetOfSplit
<1>7. DistinctIds(l) /\ DistinctIds(r) /\ Apart(l, r)
  BY <1>3, <1>4, DistinctSplit
<1>8. r \in Seq(Child)
  BY <1>3, SubSeqProperties, LenProperties, ElementOfSeq
<1>9. PICK op \in {"one", "all", "from"}, todo \in {<<c>>, children, r} :
        /\ work' = Begin(op, todo)
        /\ op = "one" => todo = <<c>> /\ children' = children
        /\ op = "all" => todo = children /\ children' = children
        /\ op = "from" => todo = r /\ children' = l
  BY <1>1 DEF BeginRound
<1>10. <<c>> \in Seq(Child) /\ SetOf(<<c>>) = {c}
  BY <1>3, SetOfSmall
<1> HIDE DEF c, l, r
<1>11. todo \in Seq(Child)
  BY <1>3, <1>8, <1>10
<1>12. /\ work'.op = op /\ work'.stage = "next"
       /\ work'.todo = todo /\ work'.back = <<>>
  BY <1>9, <1>11, BeginType DEF Op
<1>13. Held' = SetOf(children') \cup SetOf(todo) /\ UniqueIds'
  BY <1>4, <1>7, <1>9, <1>12, BegunNext
<1>14. Held' = Held
  BY <1>4, <1>6, <1>9, <1>10, <1>13
<1>15. Handled'
  BY <1>9, <1>12 DEF Handled, HeadAsked, RoundStops
<1> QED BY <1>5, <1>13, <1>14, <1>15, GrowsKeeps DEF Settles

\* Asking the head to stop, or aborting it.
LEMMA StopKeeps ==
  ASSUME IInv, TypeOK', Grows, Len(task') = Len(task), children' = children,
         work'.op = work.op, work'.todo = work.todo, work'.back = work.back,
         LET c == Head(work.todo) IN task'[c.task].pc \in Ends \/ task'[c.task].signal
  PROVE  IInv'
<1>1. Handled'
  BY RoundStays DEF Handled, HeadAsked, Ended
<1>2. UniqueIds'
  BY DEF IInv, UniqueIds, Roster
<1>3. Held' = Held
  BY DEF Held
<1> QED BY <1>1, <1>2, <1>3, GrowsKeeps DEF Settles

\* The stop of one child.
LEMMA StopSafe ==
  ASSUME IInv, TypeOK', BeginStop \/ StopTimesOut
  PROVE  IInv'
<1> DEFINE c == Head(work.todo)
<1>1. /\ children' = children
      /\ work'.op = work.op /\ work'.todo = work.todo /\ work'.back = work.back
  BY DEF BeginStop, StopTimesOut, IInv, TypeOK, VarTypes, Work
<1>2. work.todo # <<>>
  BY DEF BeginStop, StopTimesOut, IInv, TypeOK, WorkShape
<1>3. c \in Held /\ c.task \in DOMAIN task
  BY <1>2, InHand DEF IInv, HeldTasks
<1>4. task[c.task] \in Task
  BY <1>3, ElementOfSeq, LenProperties DEF IInv, TypeOK, VarTypes
<1>5. CASE BeginStop
  <2> DEFINE atonce == c.kind = "Worker" /\ ~config.patient
             e == [[task[c.task] EXCEPT !.signal = TRUE] EXCEPT !.abort = @ \/ atonce]
  <2>1. CASE task[c.task].pc \in Ends
    <3>1. task' = task
      BY <1>5, <2>1 DEF BeginStop, Ended
    <3>2. Grows /\ Len(task') = Len(task)
      BY <3>1, GrowsSame DEF IInv
    <3> QED BY <2>1, <3>1, <3>2, <1>1, StopKeeps
  <2>2. CASE task[c.task].pc \notin Ends
    <3>1. task' = [task EXCEPT ![c.task] = e]
      BY <1>3, <1>5, <2>2 DEF BeginStop, Ended
    <3>2. /\ e.id = task[c.task].id /\ e.kind = task[c.task].kind
          /\ e.signal /\ (task[c.task].abort => e.abort)
      BY <1>4 DEF Task
    <3> HIDE DEF e
    <3>3. task'[c.task] = e
      BY <1>3, <3>1
    <3>4. Grows /\ Len(task') = Len(task)
      BY <1>3, <2>2, <3>1, <3>2, GrowsExcept DEF IInv
    <3> QED BY <1>1, <3>2, <3>3, <3>4, StopKeeps
  <2> QED BY <2>1, <2>2
<1>6. CASE StopTimesOut
  <2> DEFINE e == [task[c.task] EXCEPT !.abort = TRUE]
  <2>1. /\ task' = [task EXCEPT ![c.task] = e]
        /\ task[c.task].pc \notin Ends
        /\ work.stage # "next"
    BY <1>6 DEF StopTimesOut, Ended
  <2>2. /\ e.id = task[c.task].id /\ e.kind = task[c.task].kind
        /\ e.signal = task[c.task].signal /\ e.abort
    BY <1>4 DEF Task
  <2> HIDE DEF e
  <2>3. Grows /\ Len(task') = Len(task)
    BY <1>3, <2>1, <2>2, GrowsExcept DEF IInv
  <2>4. task'[c.task].pc \in Ends \/ task'[c.task].signal
    BY <2>1, <2>3, HeadStays
  <2> QED BY <1>1, <2>3, <2>4, StopKeeps
<1> QED BY <1>5, <1>6

\* What was stopped may be let go.
LEMMA StoppedLetsGo ==
  ASSUME IInv, Grows, NEW c \in Held, Stopped(c)
  PROVE  LetGo(c)
BY StoppedStays DEF LetGo

\* shutdown of the head has returned.
LEMMA HeadIsStopped ==
  ASSUME IInv, HeadStopped
  PROVE  /\ work.todo # <<>>
         /\ Head(work.todo) \in Held
         /\ Stopped(Head(work.todo))
<1> DEFINE c == Head(work.todo)
<1>1. work.todo # <<>> /\ work.stage # "next"
  BY DEF HeadStopped, IInv, TypeOK, WorkShape
<1>2. c \in Held /\ c \in Child
  BY <1>1, InHand
<1>3. Ended(c.task) \/ task[c.task].signal
  BY <1>1 DEF IInv, Handled, HeadAsked
<1>4. c.kind = "Worker" => Ended(c.task)
  BY DEF HeadStopped
<1>5. c.kind \in {"Worker", "Supervisor"}
  BY <1>2 DEF Child, Kind
<1> HIDE DEF c
<1>6. Stopped(c)
  BY <1>3, <1>4, <1>5 DEF Stopped
<1> QED BY <1>1, <1>2, <1>6 DEF c

\* The only child in hand.
LEMMA OneLeft ==
  ASSUME NEW S, NEW s \in Seq(S), Len(s) = 1
  PROVE  s # <<>> /\ SetOf(s) = {Head(s)}
<1>1. s # <<>>
  BY EmptySeq
<1>2. Len(Tail(s)) = 0 /\ Tail(s) \in Seq(S)
  BY <1>1, HeadTailProperties
<1>3. Tail(s) = <<>>
  BY <1>2, EmptySeq
<1> QED BY <1>1, <1>3, SetOfHead, SetOfSmall

\* A restarted child keeps its id and kind.
LEMMA WithNewTaskFields ==
  ASSUME VarTypes, NEW c \in Child
  PROVE  /\ WithNewTask(c) \in Child
         /\ WithNewTask(c).id = c.id
         /\ WithNewTask(c).kind = c.kind
         /\ WithNewTask(c).task = Len(task) + 1
BY LenProperties DEF WithNewTask, Child, VarTypes

\* A termination is over.
LEMMA FinishSafe ==
  ASSUME IInv, TypeOK', FinishTerminate
  PROVE  IInv'
<1> DEFINE c == Head(work.todo)
<1>1. HeadStopped /\ work.op = "terminate" /\ work' = Idle /\ UNCHANGED <<children, task>>
  BY DEF FinishTerminate
<1>2. Grows /\ Len(task') = Len(task)
  BY <1>1, GrowsSame DEF IInv
<1>3. c \in Held /\ Stopped(c) /\ work.todo # <<>>
  BY <1>1, HeadIsStopped
<1>4. Held = SetOf(children) \cup {c}
  <2>1. work.back = <<>> /\ work.todo \in Seq(Child) /\ Len(work.todo) = 1
    BY <1>1 DEF IInv, TypeOK, VarTypes, Work, WorkShape
  <2>2. SetOf(work.todo) = {c}
    BY <1>3, <2>1, OneLeft
  <2> QED BY <2>1, <2>2, SetOfSmall DEF Held
<1>5. DistinctIds(children)
  BY Pieces DEF IInv, UniquePieces
<1>6. Held' = SetOf(children) /\ UniqueIds' /\ Handled'
  BY <1>1, <1>5, RestNext
<1> HIDE DEF c
<1>7. LetGo(c)
  BY <1>2, <1>3, StoppedLetsGo
<1> QED BY <1>2, <1>4, <1>6, <1>7, GrowsKeeps DEF Settles

\* The handler turns to the next child to stop.
LEMMA StopNextSafe ==
  ASSUME IInv, TypeOK', StopNext
  PROVE  IInv'
<1> DEFINE c == Head(work.todo)
<1>1. /\ HeadStopped /\ work.op \in {"all", "shutdown", "escalate"}
      /\ work'.op = work.op /\ work'.stage = "next"
      /\ work'.todo = Tail(work.todo) /\ work'.back = work.back
      /\ UNCHANGED <<children, task>>
  BY DEF StopNext, Advanced, IInv, TypeOK, VarTypes, Work
<1>2. Grows /\ Len(task') = Len(task)
  BY <1>1, GrowsSame DEF IInv
<1>3. c \in Held /\ Stopped(c) /\ work.todo # <<>>
  BY <1>1, HeadIsStopped
<1>4. SetOf(work.todo) = {c} \cup SetOf(work'.todo)
  BY <1>1, <1>3, SetOfHead DEF IInv, TypeOK, VarTypes, Work
<1>5. Held = Held' \cup {c}
  BY <1>1, <1>4 DEF Held
<1>6. UniqueIds'
  BY <1>1 DEF IInv, UniqueIds, Roster
<1>7. Handled'
  <2>1. ASSUME work.op = "all", NEW d \in SetOf(children) \ SetOf(work'.todo)
        PROVE  Stopped(d)
    BY <1>3, <1>4, <2>1 DEF IInv, Handled, RoundStops
  <2>2. \A d : Stopped(d)' <=> Stopped(d)
    BY <1>1 DEF Stopped, Ended
  <2> QED BY <1>1, <2>1, <2>2 DEF Handled, HeadAsked, RoundStops
<1> HIDE DEF c
<1>8. LetGo(c)
  BY <1>2, <1>3, StoppedLetsGo
<1> QED BY <1>2, <1>5, <1>6, <1>7, <1>8, GrowsKeeps DEF Settles

\* `run` returns.
LEMMA ExitSafe ==
  ASSUME IInv, TypeOK', Exit
  PROVE  IInv'
<1>1. /\ work' = Idle /\ UNCHANGED <<children, task>>
      /\ work.todo = <<>> /\ work.op \in {"shutdown", "escalate"}
  BY DEF Exit
<1>2. Grows /\ Len(task') = Len(task)
  BY <1>1, GrowsSame DEF IInv
<1>3. work.back = <<>> /\ SetOf(<<>>) = {}
  BY <1>1, SetOfSmall DEF IInv, TypeOK, WorkShape
<1>4. Held = SetOf(children)
  BY <1>1, <1>3 DEF Held
<1>5. DistinctIds(children)
  BY Pieces DEF IInv, UniquePieces
<1>6. Held' = SetOf(children) /\ UniqueIds' /\ Handled'
  BY <1>1, <1>5, RestNext
<1> QED BY <1>2, <1>4, <1>6, GrowsKeeps DEF Settles

\* The child that failed becomes a new task, in its place.
LEMMA RestartOneSafe ==
  ASSUME IInv, TypeOK', RestartOne
  PROVE  IInv'
<1> DEFINE c == Head(work.todo)
<1>1. PICK i \in DOMAIN children :
        /\ children[i] = c
        /\ children' = [children EXCEPT ![i] = WithNewTask(@)]
        /\ task' = Append(task, NewTask(c, FALSE))
  BY DEF RestartOne, Spawned
<1>2. HeadStopped /\ work.op = "one" /\ work' = Idle
  BY DEF RestartOne
<1>3. c \in Held /\ Stopped(c) /\ work.todo # <<>>
  BY <1>2, HeadIsStopped
<1>4. Held = SetOf(children)
  <2>1. /\ work.back = <<>> /\ work.todo \in Seq(Child) /\ Len(work.todo) = 1
    BY <1>2 DEF IInv, TypeOK, VarTypes, Work, WorkShape
  <2>2. SetOf(work.todo) = {c}
    BY <1>3, <2>1, OneLeft
  <2>3. c \in SetOf(children)
    BY <1>1 DEF SetOf
  <2> QED BY <2>1, <2>2, <2>3, SetOfSmall DEF Held
<1>5. children \in Seq(Child) /\ c \in Child /\ DistinctIds(children)
  BY <1>1, ChildType, Pieces DEF IInv, UniquePieces, TypeOK, VarTypes
<1> DEFINE n == WithNewTask(c)
<1>6. n \in Child /\ n.id = c.id /\ n.kind = c.kind /\ n.task = Len(task) + 1
  BY <1>5, WithNewTaskFields DEF IInv, TypeOK
<1>7. children' = [children EXCEPT ![i] = n]
  BY <1>1
<1> HIDE DEF c, n
<1>8. /\ DistinctIds(children')
      /\ SetOf(children') \subseteq SetOf(children) \cup {n}
      /\ SetOf(children) \subseteq SetOf(children') \cup {c}
      /\ n \in SetOf(children')
      /\ \A d \in SetOf(children') : d # n => d.id # n.id
  <2>1. n.id = children[i].id
    BY <1>1, <1>6
  <2>2. children' = ReplacedAt(children, i, n)
    BY <1>7 DEF ReplacedAt
  <2>3. n \in Child /\ children[i] = c /\ children \in Seq(Child) /\ DistinctIds(children)
    BY <1>1, <1>5, <1>6
  <2> DEFINE r == ReplacedAt(children, i, n)
  <2>4. /\ DistinctIds(r)
        /\ SetOf(r) \subseteq SetOf(children) \cup {n}
        /\ SetOf(children) \subseteq SetOf(r) \cup {children[i]}
        /\ n \in SetOf(r)
        /\ \A d \in SetOf(r) : d # n => d.id # n.id
    BY <2>1, <2>3, DistinctReplaced
  <2> HIDE DEF r
  <2>5. children' = r
    BY <2>2 DEF r
  <2> QED BY <2>3, <2>4, <2>5
<1>9. Held' = SetOf(children') /\ UniqueIds' /\ Handled'
  BY <1>2, <1>8, RestNext
<1>10. Grows /\ Len(task') = Len(task) + 1 /\ task'[Len(task) + 1] = NewTask(c, FALSE)
  <2>1. NewTask(c, FALSE) \in Task
    BY <1>5, NewTaskType DEF Child
  <2> QED BY <1>1, <2>1, GrowsSpawned DEF IInv, TypeOK, c
<1>11. Spawns
  <2>1. task'[n.task].id = n.id /\ task'[n.task].kind = n.kind
    <3>1. task'[n.task] = NewTask(c, FALSE)
      BY <1>6, <1>10
    <3>2. NewTask(c, FALSE).id = c.id /\ NewTask(c, FALSE).kind = c.kind
      BY NewTaskFields
    <3>3. n.id = c.id /\ n.kind = c.kind
      BY <1>6
    <3> QED BY <3>1, <3>2, <3>3
  <2>2. /\ n \in Held' /\ Held' \subseteq Held \cup {n}
        /\ \A d \in Held' : d # n => d.id # n.id
    BY <1>4, <1>8, <1>9
  <2> QED BY <1>6, <1>10, <2>1, <2>2 DEF Spawns
<1>12. LetGo(c)
  BY <1>3, <1>10, StoppedLetsGo
<1> QED BY <1>4, <1>8, <1>9, <1>10, <1>11, <1>12, GrowsKeeps

\* OneForAll begins to respawn.
LEMMA DrainSafe ==
  ASSUME IInv, TypeOK', DrainAll
  PROVE  IInv'
<1>1. /\ work.op = "all" /\ work.todo = <<>> /\ children' = <<>>
      /\ work' = Begin("respawn", children) /\ task' = task
  BY DEF DrainAll
<1>2. Grows /\ Len(task') = Len(task)
  BY <1>1, GrowsSame DEF IInv
<1>3. /\ work'.op = "respawn" /\ work'.stage = "next"
      /\ work'.todo = children /\ work'.back = <<>>
  BY <1>1, BeginType DEF Op, IInv, TypeOK, VarTypes
<1>4. DistinctIds(children) /\ DistinctIds(<<>>) /\ SetOf(<<>>) = {}
  BY Pieces, DistinctSmall, SetOfSmall DEF IInv, UniquePieces
<1>5. Held' = SetOf(children) /\ UniqueIds'
  BY <1>1, <1>3, <1>4, BegunNext DEF Apart
<1>6. Held = SetOf(children)
  BY <1>1, <1>4 DEF Held, IInv, TypeOK, WorkShape
<1>7. Handled'
  <2>1. \A c \in SetOf(children) : Stopped(c)
    BY <1>1, <1>4 DEF IInv, Handled, RoundStops
  <2>2. \A d : Stopped(d)' <=> Stopped(d)
    BY <1>1 DEF Stopped, Ended
  <2> QED BY <1>3, <2>1, <2>2 DEF Handled, HeadAsked, RoundStops
<1> QED BY <1>2, <1>5, <1>6, <1>7, GrowsKeeps DEF Settles

\* A stopped child leaves supervision, or comes back as a new task.
LEMMA RespawnSafe ==
  ASSUME IInv, TypeOK', RespawnHead
  PROVE  IInv'
<1> DEFINE c == Head(work.todo)
           rest == Tail(work.todo)
           n == WithNewTask(c)
<1>1. work.op \in {"respawn", "from"} /\ work.todo # <<>> /\ c \in Held /\ Stopped(c)
  <2>1. CASE work.op = "respawn" /\ work.todo # <<>>
    BY <2>1, InHand DEF IInv, Handled, RoundStops
  <2>2. CASE work.op = "from" /\ HeadStopped
    BY <2>2, HeadIsStopped
  <2> QED BY <2>1, <2>2 DEF RespawnHead
<1>2. /\ children \in Seq(Child) /\ work.todo \in Seq(Child) /\ work.back \in Seq(Child)
      /\ c \in Child
  BY <1>1, InHand DEF IInv, TypeOK, VarTypes, Work
<1>3. rest \in Seq(Child) /\ SetOf(work.todo) = {c} \cup SetOf(rest)
  BY <1>1, <1>2, SetOfHead
<1>4. Held = SetOf(children) \cup SetOf(work.back) \cup {c} \cup SetOf(rest)
  BY <1>3 DEF Held
<1>5. /\ DistinctIds(children) /\ DistinctIds(work.back) /\ DistinctIds(work.todo)
      /\ Apart(children, work.back)
      /\ Apart(children, work.todo) /\ Apart(work.back, work.todo)
  BY <1>1, Pieces DEF IInv, UniquePieces, Pool
<1>6. DistinctIds(rest) /\ \A d \in SetOf(rest) : d.id # c.id
  BY <1>1, <1>2, <1>5, DistinctHead
<1>7. /\ Apart(children, rest) /\ Apart(work.back, rest)
      /\ \A d \in SetOf(children) \cup SetOf(work.back) : d.id # c.id
  BY <1>3, <1>5 DEF Apart
<1>8. /\ n \in Child /\ n.id = c.id /\ n.kind = c.kind /\ n.task = Len(task) + 1
  BY <1>2, WithNewTaskFields DEF IInv, TypeOK
<1>9. /\ children' = children
      /\ work'.op = work.op /\ work'.stage = "next" /\ work'.todo = rest
      /\ \/ work'.back = work.back /\ task' = task
         \/ work'.back = Append(work.back, n) /\ task' = Append(task, NewTask(c, FALSE))
  BY <1>2, <1>3 DEF RespawnHead, Advanced, Spawned, IInv, TypeOK, VarTypes, Work
<1>10. Pool' = rest
  BY <1>1, <1>9 DEF Pool
<1> HIDE DEF c, rest, n
<1>11. ASSUME Grows PROVE Handled' /\ LetGo(c)
  <2>1. ASSUME work.op = "respawn", NEW d \in SetOf(rest)
        PROVE  task'[d.task].pc \in Ends \/ (d.kind = "Supervisor" /\ task'[d.task].signal)
    <3>1. d \in Held /\ Stopped(d)
      BY <1>3, <1>4, <2>1 DEF IInv, Handled, RoundStops
    <3> QED BY <1>11, <3>1, StoppedStays
  <2>2. LetGo(c)
    BY <1>1, <1>11, StoppedLetsGo
  <2> QED BY <1>1, <1>9, <2>1, <2>2 DEF Handled, HeadAsked, RoundStops, Stopped, Ended
<1>12. CASE work'.back = work.back /\ task' = task
  <2>1. Grows /\ Len(task') = Len(task)
    BY <1>12, GrowsSame DEF IInv
  <2>2. UniqueIds'
    BY <1>5, <1>6, <1>7, <1>9, <1>10, <1>12, PiecesNext DEF UniquePieces
  <2>3. Held' = SetOf(children) \cup SetOf(work.back) \cup SetOf(rest)
    BY <1>9, <1>12 DEF Held
  <2> QED BY <1>4, <1>11, <2>1, <2>2, <2>3, GrowsKeeps DEF Settles
<1>13. CASE work'.back = Append(work.back, n) /\ task' = Append(task, NewTask(c, FALSE))
  <2>1. NewTask(c, FALSE) \in Task
    BY <1>2, NewTaskType DEF Child
  <2>2. Grows /\ Len(task') = Len(task) + 1 /\ task'[Len(task) + 1] = NewTask(c, FALSE)
    BY <1>13, <2>1, GrowsSpawned DEF IInv, TypeOK
  <2>3. SetOf(work'.back) = SetOf(work.back) \cup {n}
    BY <1>2, <1>8, <1>13, SetOfAppend
  <2>4. \A d \in SetOf(work.back) : d.id # n.id
    BY <1>7, <1>8
  <2>5. DistinctIds(work'.back)
    BY <1>2, <1>5, <1>8, <1>13, <2>4, DistinctAppend
  <2>6. Apart(children, work'.back) /\ Apart(work'.back, rest)
    BY <1>5, <1>6, <1>7, <1>8, <2>3 DEF Apart
  <2>7. UniqueIds'
    BY <1>5, <1>6, <1>7, <1>9, <1>10, <2>5, <2>6, PiecesNext DEF UniquePieces
  <2>8. Held' = SetOf(children) \cup SetOf(work.back) \cup {n} \cup SetOf(rest)
    BY <1>9, <2>3 DEF Held
  <2>9. Spawns
    <3>1. NewTask(c, FALSE).id = c.id /\ NewTask(c, FALSE).kind = c.kind
      BY NewTaskFields
    <3>2. task'[n.task].id = n.id /\ task'[n.task].kind = n.kind
      BY <1>8, <2>2, <3>1
    <3>3. /\ n \in Held' /\ Held' \subseteq Held \cup {n}
          /\ \A d \in Held' : d # n => d.id # n.id
      BY <1>4, <1>6, <1>7, <1>8, <2>8
    <3> QED BY <1>8, <2>2, <3>2, <3>3 DEF Spawns
  <2> QED BY <1>4, <1>11, <2>2, <2>7, <2>8, <2>9, GrowsKeeps
<1> QED BY <1>9, <1>12, <1>13

\* A round is over.
LEMMA EndRoundSafe ==
  ASSUME IInv, TypeOK', EndRound
  PROVE  IInv'
<1>1. /\ work.todo = <<>> /\ work' = Idle /\ task' = task
      /\ children' = children \o work.back
  BY DEF EndRound
<1>2. children \in Seq(Child) /\ work.back \in Seq(Child)
  BY DEF IInv, TypeOK, VarTypes, Work
<1>3. Grows /\ Len(task') = Len(task)
  BY <1>1, GrowsSame DEF IInv
<1>4. DistinctIds(children) /\ DistinctIds(work.back) /\ Apart(children, work.back)
  BY Pieces DEF IInv, UniquePieces
<1>5. DistinctIds(children') /\ SetOf(children') = SetOf(children) \cup SetOf(work.back)
  BY <1>1, <1>2, <1>4, DistinctConcat, SetOfConcat
<1>6. Held' = SetOf(children') /\ UniqueIds' /\ Handled'
  BY <1>1, <1>5, RestNext
<1>7. Held = SetOf(children) \cup SetOf(work.back)
  BY <1>1, SetOfSmall DEF Held
<1> QED BY <1>3, <1>5, <1>6, <1>7, GrowsKeeps DEF Settles

(***************************************************************************)
(* The theorems.                                                           *)
(***************************************************************************)

\* The initial states satisfy the invariant.
LEMMA InitSafe == Init => IInv
<1> SUFFICES ASSUME Init PROVE IInv
  OBVIOUS
<1>1. TypeOK
  BY InitType
<1> DEFINE cs == config.children
<1>2. /\ cs \in Seq(ChildSpec) /\ DistinctIds(cs)
  BY ConfigsAssumption DEF Init, ConfigSpace
<1>3. /\ DOMAIN children = DOMAIN cs /\ DOMAIN task = DOMAIN cs
      /\ \A i \in DOMAIN cs :
           /\ children[i].id = cs[i].id /\ children[i].kind = cs[i].kind
           /\ children[i].task = i
           /\ task[i] = NewTask(cs[i], FALSE)
  BY DEF Init
<1>4. ASSUME NEW i \in DOMAIN cs
      PROVE  task[i].id = cs[i].id /\ task[i].kind = cs[i].kind
  <2>1. task[i] = NewTask(cs[i], FALSE)
    BY <1>3
  <2> QED BY <2>1 DEF NewTask
<1>5. work = Idle /\ work.op = "idle" /\ work.stage = "next"
      /\ work.todo = <<>> /\ work.back = <<>> /\ SetOf(<<>>) = {}
  BY SetOfSmall DEF Init, Idle
<1> HIDE DEF cs
<1>6. DistinctIds(children)
  BY <1>2, <1>3 DEF DistinctIds
<1>7. UniqueIds
  <2>1. Pool = <<>>
    BY <1>5 DEF Pool
  <2> QED BY <1>1, <1>5, <1>6, <2>1, OnlyChildren, Pieces DEF UniquePieces
<1>8. Held = SetOf(children)
  BY <1>5 DEF Held
<1>9. \A c \in Held : \E i \in DOMAIN cs : c = children[i]
  BY <1>3, <1>8 DEF SetOf
<1>10. \A i \in DOMAIN cs : children[i] \in Held
  BY <1>3, <1>8 DEF SetOf
<1>11. HeldTasks
  <2> SUFFICES ASSUME NEW i \in DOMAIN cs
               PROVE  /\ children[i].task \in DOMAIN task
                      /\ task[children[i].task].id = children[i].id
                      /\ task[children[i].task].kind = children[i].kind
                      /\ \A u \in DOMAIN task :
                           task[u].id = children[i].id => u <= children[i].task
    BY <1>9 DEF HeldTasks
  <2>1. i \in Nat /\ \A u \in DOMAIN cs : u \in Nat
    BY <1>2, LenProperties
  <2>2. \A u \in DOMAIN task : task[u].id = children[i].id => u = i
    BY <1>2, <1>3, <1>4 DEF DistinctIds
  <2>3. children[i].task = i /\ i \in DOMAIN task
    BY <1>3
  <2>4. task[i].id = children[i].id /\ task[i].kind = children[i].kind
    BY <1>3, <1>4
  <2> QED BY <1>3, <2>1, <2>2, <2>3, <2>4
<1>12. NoOrphan
  BY <1>3, <1>10 DEF NoOrphan
<1>13. Handled
  BY <1>5 DEF Handled, HeadAsked, RoundStops
<1> QED BY <1>1, <1>7, <1>11, <1>12, <1>13 DEF IInv

\* Every step keeps the invariant.
LEMMA NextSafe == IInv /\ [Next]_vars => IInv'
<1> SUFFICES ASSUME IInv, [Next]_vars PROVE IInv'
  OBVIOUS
<1>1. TypeOK'
  BY NextType DEF IInv
<1>2. CASE UNCHANGED vars
  BY <1>1, <1>2, UntouchedSafe DEF vars
<1>3. CASE Runtime
  <2>1. CASE HandleQuery \/ RefuseDuplicate \/ RefuseUnknown \/ IgnoreReport
             \/ RestartLater \/ SkipRestart
    BY <1>1, <2>1, UntouchedSafe
       DEF HandleQuery, RefuseDuplicate, RefuseUnknown, IgnoreReport, RestartLater,
           SkipRestart, Receives, Concerns
  <2>2. CASE HandleStartChild \/ HandleStartChildLinked
    BY <1>1, <2>2, StartSafe
  <2>3. CASE LinkOk \/ \E a \in {"InitializationFailed", "InitializationTimeout"} : LinkFails(a)
    BY <1>1, <2>3, LinkSafe
  <2>4. CASE DropChild \/ HandleTerminateChild
    BY <1>1, <2>4, RemoveSafe
  <2>5. CASE Escalate \/ HandleShutdown
    BY <1>1, <2>5, ClearSafe
  <2>6. CASE RestartNow \/ HandleRestartChild
    BY <1>1, <2>6, RoundSafe
  <2>7. CASE BeginStop \/ StopTimesOut
    BY <1>1, <2>7, StopSafe
  <2>8. CASE FinishTerminate \/ StopNext \/ Exit
    BY <1>1, <2>8, FinishSafe, StopNextSafe, ExitSafe
  <2>9. CASE RestartOne \/ DrainAll \/ RespawnHead \/ EndRound
    BY <1>1, <2>9, RestartOneSafe, DrainSafe, RespawnSafe, EndRoundSafe
  <2> QED BY <1>3, <2>1, <2>2, <2>3, <2>4, <2>5, <2>6, <2>7, <2>8, <2>9 DEF Runtime
<1>4. CASE \E c \in Client, k \in Calls : Call(c, k)
  BY <1>1, <1>4, UntouchedSafe DEF Call
<1>5. CASE \E m \in timers : TimerFires(m)
  BY <1>1, <1>5, UntouchedSafe DEF TimerFires
<1>6. CASE \E t \in DOMAIN task : Runs(t) \/ MustRun(t)
  BY <1>1, <1>6, TaskSafe
<1> QED BY <1>2, <1>3, <1>4, <1>5, <1>6 DEF Next

\* The strengthened invariant.
THEOREM Safe == Spec => []IInv
BY InitSafe, NextSafe, PTL DEF Spec

\* No id is ever supervised twice, linked starts and rounds under way included.
THEOREM IdsStayUnique == Spec => []UniqueIds
<1>1. IInv => UniqueIds
  BY DEF IInv
<1> QED BY <1>1, Safe, PTL

\* A task that runs unasked is always in hand: nothing is forgotten by a round,
\* a termination, a failed linked start, an escalation or a shutdown.
THEOREM NothingOrphaned == Spec => []NoOrphan
<1>1. IInv => NoOrphan
  BY DEF IInv
<1> QED BY <1>1, Safe, PTL

\* Of two incarnations of a worker the earlier has ended or was aborted.
THEOREM IncarnationsApart == Spec => []OneIncarnation
<1>1. IInv => OneIncarnation
  <2> SUFFICES ASSUME IInv, NEW t \in DOMAIN task, NEW u \in DOMAIN task,
                      t < u, task[t].id = task[u].id, task[t].kind = "Worker",
                      ~Ended(t), ~task[t].abort
               PROVE  FALSE
    BY DEF OneIncarnation
  <2>1. PICK c \in Held : c.task = t
    BY DEF IInv, NoOrphan
  <2>2. u <= t
    BY <2>1 DEF IInv, HeldTasks
  <2>3. t \in Nat /\ u \in Nat
    BY LenProperties DEF IInv, TypeOK, VarTypes
  <2> QED BY <2>2, <2>3
<1> QED BY <1>1, Safe, PTL

\* Nothing is respawned by OneForAll before every worker of the failed
\* generation has ended.
THEOREM GenerationsApart == Spec => []NoMixedGenerations
<1>1. IInv => NoMixedGenerations
  BY DEF IInv, Handled, RoundStops, Stopped, NoMixedGenerations
<1> QED BY <1>1, Safe, PTL

================================================================================
