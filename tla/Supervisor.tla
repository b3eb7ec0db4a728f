------------------------------ MODULE Supervisor ------------------------------
(***************************************************************************)
(* One supervisor: the task that runs `SupervisorRuntime::run`, the worker *)
(* tasks and nested supervisors it spawns, the timers of deferred          *)
(* restarts, and the callers of its `SupervisorHandle`.                    *)
(*                                                                         *)
(* The supervisor handles one command at a time, but a handler that awaits *)
(* (a stop, a linked initialization) is several steps here, so that tasks, *)
(* timers and callers interleave with it exactly where the code awaits.    *)
(* Everything that reaches the supervisor goes through one FIFO channel    *)
(* and names a child by id only.  The model tags each report with the      *)
(* incarnation it is about (field `by`); no guard reads the tag.           *)
(*                                                                         *)
(* An operator X_Y written just before X is X with a plausible mistake in  *)
(* it; the specification never uses it.  README.md says which property    *)
(* each of them breaks.                                                    *)
(***************************************************************************)
EXTENDS Integers, Sequences, FiniteSets, RestartPolicy, ChildLists

CONSTANTS
  Id,          \* child ids
  Client,      \* callers holding a clone of the handle
  Configs,     \* the supervisor specifications to start from
  Calls,       \* the calls clients may make
  MaxCalls,    \* bound: calls made in a behaviour
  MaxFaults,   \* bound: times a child ends, fails or blocks of its own accord
  Expiry,      \* may restarts leave the intensity window?
  Panics,      \* may a worker panic?
  Blocks       \* may a worker's `run` block its thread without awaiting?

CallName == {"StartChild", "StartChildLinked", "TerminateChild", "Query", "Shutdown"}

\* An entry of `SupervisorSpec::children`; a nested supervisor's policy is
\* not used.
ChildSpec == [id : Id, kind : Kind, policy : Policy]

\* A `SupervisorSpec`: `delayed` says that its backoff is not zero, `patient`
\* that its shutdown timeout is not.
ConfigSpace ==
  [children : Seq(ChildSpec), strategy : Strategy, max_restarts : Nat,
   delayed : BOOLEAN, patient : BOOLEAN]

\* The Rust builder accepts two children with one id; what holds is stated
\* for specifications without duplicates.
ASSUME ConfigsAssumption ==
  /\ Configs \subseteq ConfigSpace
  /\ \A c \in Configs : DistinctIds(c.children)

ASSUME CallsAssumption ==
  Calls \subseteq [cmd : CallName, id : Id, policy : Policy]

ASSUME BoundsAssumption ==
  /\ MaxCalls \in Nat
  /\ MaxFaults \in Nat
  /\ {Expiry, Panics, Blocks} \subseteq BOOLEAN

VARIABLES
  config,     \* the specification the supervisor was started with
  status,     \* "running", or the reason with which `run` returned
  queue,      \* control_rx
  children,   \* self.children
  work,       \* the handler in progress
  recent,     \* restart_tracker.restart_times, as a count
  tracked,    \* the keys of backoff_tracker.state
  timers,     \* spawned sleeps of `defer_restart`
  task,       \* every task spawned so far; its index is its incarnation
  answer,     \* what each client last got, or "waiting"
  calls, faults,  \* what the bounds count
  rounds      \* history: restart rounds begun

vars == <<config, status, queue, children, work, recent, tracked, timers, task,
          answer, calls, faults, rounds>>

env == <<config, calls, faults>>

(***************************************************************************)
(* Data.                                                                   *)
(***************************************************************************)

\* Child: the spec it was made from and the task it runs as.
Child == [id : Id, kind : Kind, policy : Policy, task : Nat]

\* Where a task is: initialize(), initialize() failed and init_tx was told,
\* run(), run() without awaiting, the shutdown() hook; then how it ended.
Ends == {"done", "failed", "cancelled", "panicked"}
Pc   == {"init", "initerr", "run", "blocked", "hook"} \cup Ends

\* `signal`: the ShutdownSignal is set (for a nested supervisor: Shutdown is in
\* its queue); `abort`: JoinHandle::abort was called; `linked`: spawned with an
\* init_tx; `reason`: the exit reason it reports after its hook, meaningless
\* before it leaves run().
Task == [id : Id, kind : Kind, linked : BOOLEAN, pc : Pc, signal : BOOLEAN,
         abort : BOOLEAN, reason : Reason]

\* SupervisorCommand.
CallCommand == [cmd : CallName, id : Id, policy : Policy, client : Client]
Report      == [cmd : {"ChildTerminated"}, id : Id, reason : Reason, by : Nat]
Deferred    == [cmd : {"RestartChild"}, id : Id, by : Nat]
Command     == CallCommand \cup Report \cup Deferred

Answer == {"-", "waiting", "Ok", "ChildAlreadyExists", "ChildNotFound",
           "InitializationFailed", "InitializationTimeout", "ShuttingDown"}

\* The handler in progress.  `todo`: the children it has yet to stop (or to
\* respawn, or whose initialization it awaits); `back`: those it has put back;
\* `stage`: whether the head of `todo` was asked to stop ("wait") or aborted
\* ("join"); `reply`: what came through init_rx.
Op   == {"idle", "link", "terminate", "one", "all", "respawn", "from",
         "shutdown", "escalate"}
Work == [op : Op, stage : {"next", "wait", "join"}, todo : Seq(Child),
         back : Seq(Child), client : SUBSET Client,
         reply : {"-", "Ok", "Err", "Closed"}]

Idle == [op |-> "idle", stage |-> "next", todo |-> <<>>, back |-> <<>>,
         client |-> {}, reply |-> "-"]

Begin(op, todo) == [Idle EXCEPT !.op = op, !.todo = todo]

\* restart_policy and restart_policy_for_decision.
RestartPolicyOf(c)   == IF c.kind = "Worker" THEN c.policy ELSE "Permanent"
PolicyForDecision(c) == IF c.kind = "Worker" THEN c.policy ELSE NoPolicy

Ended(t) == task[t].pc \in Ends

\* The first child registered under an id.
Position(id, i) ==
  /\ i \in DOMAIN children
  /\ children[i].id = id
  /\ \A j \in 1..(i - 1) : children[j].id # id

Listed_Never(id) == FALSE
Listed(id) == \E i \in DOMAIN children : children[i].id = id

(***************************************************************************)
(* Tasks and channels.                                                     *)
(***************************************************************************)

NewTask(c, linked) ==
  [id |-> c.id, kind |-> c.kind, linked |-> linked,
   pc |-> IF c.kind = "Worker" THEN "init" ELSE "run",
   signal |-> FALSE, abort |-> FALSE, reason |-> "Normal"]

\* How a task that has ended is recorded.
EndedTask(t, how) == [NewTask(task[t], task[t].linked) EXCEPT !.pc = how]

\* WorkerProcess::spawn or SupervisorHandle::start_supervised.
Spawned(c) == Append(task, NewTask(c, FALSE))

\* The entry of a child that runs as the task spawned in this step.
WithNewTask(c) == [c EXCEPT !.task = Len(task) + 1]

Dropped_Detaches(c) == task

\* Drop for WorkerProcess aborts the task; dropping a handle does nothing.
Dropped(c) ==
  IF c.kind = "Worker" /\ ~Ended(c.task)
  THEN [task EXCEPT ![c.task].abort = TRUE] ELSE task

\* The runtime that receives is gone once `run` has returned.
Sent(m) == IF status = "running" THEN Append(queue, m) ELSE queue

\* What the worker sends through init_tx, if a linked start awaits it.
Told(t, reply) ==
  IF work.op = "link" /\ Head(work.todo).task = t /\ work.reply = "-"
  THEN [work EXCEPT !.reply = reply] ELSE work

Answered(clients, a) ==
  [c \in Client |-> IF c \in clients THEN a ELSE answer[c]]

Receives(name) ==
  /\ status = "running"
  /\ work.op = "idle"
  /\ queue # <<>>
  /\ Head(queue).cmd = name
  /\ queue' = Tail(queue)

(***************************************************************************)
(* Restart accounting.                                                     *)
(***************************************************************************)

\* record_restart: old entries may fall out of the window, then one is added.
RecordRestart ==
  \E kept \in 0..recent :
    /\ ~Expiry => kept = recent
    /\ recent' = kept + 1

Exceeded_OffByOne == recent' > config.max_restarts + 1
Exceeded == recent' > config.max_restarts

Forgotten_Never(id) == tracked

\* reset_child, for a child that leaves supervision.
Forgotten(id) == tracked \ {id}

(***************************************************************************)
(* Initial state: `new` has spawned the children of the specification.     *)
(***************************************************************************)

Init ==
  /\ config \in Configs
  /\ status = "running"
  /\ queue = <<>>
  /\ children = [i \in DOMAIN config.children |->
                   [id |-> config.children[i].id, kind |-> config.children[i].kind,
                    policy |-> config.children[i].policy, task |-> i]]
  /\ task = [i \in DOMAIN config.children |->
               NewTask(config.children[i], FALSE)]
  /\ work = Idle
  /\ recent = 0
  /\ tracked = {}
  /\ timers = {}
  /\ answer = [c \in Client |-> "-"]
  /\ calls = 0
  /\ faults = 0
  /\ rounds = 0

(***************************************************************************)
(* Callers of the handle.                                                  *)
(***************************************************************************)

\* Every call sends a command and, but for shutdown(), awaits its answer.
Call(c, k) ==
  /\ answer[c] # "waiting"
  /\ calls < MaxCalls
  /\ calls' = calls + 1
  /\ queue' = Sent([cmd |-> k.cmd, id |-> k.id, policy |-> k.policy, client |-> c])
  /\ answer' = [answer EXCEPT ![c] =
                  IF status # "running" THEN "ShuttingDown"
                  ELSE IF k.cmd = "Shutdown" THEN "Ok" ELSE "waiting"]
  /\ UNCHANGED <<config, status, children, work, recent, tracked, timers, task,
                 faults, rounds>>

(***************************************************************************)
(* Handlers that do not await.                                             *)
(***************************************************************************)

\* which_children, restart_strategy and uptime change nothing.
HandleQuery ==
  /\ Receives("Query")
  /\ answer' = Answered({Head(queue).client}, "Ok")
  /\ UNCHANGED <<env, status, children, work, recent, tracked, timers, task, rounds>>

RefuseDuplicate ==
  \E name \in {"StartChild", "StartChildLinked"} :
    /\ Receives(name)
    /\ Listed(Head(queue).id)
    /\ answer' = Answered({Head(queue).client}, "ChildAlreadyExists")
    /\ UNCHANGED <<env, status, children, work, recent, tracked, timers, task, rounds>>

\* The worker a start command asks for.
Requested(m) ==
  [id |-> m.id, kind |-> "Worker", policy |-> m.policy, task |-> Len(task) + 1]

HandleStartChild ==
  /\ Receives("StartChild")
  /\ LET m == Head(queue) IN
       /\ ~Listed(m.id)
       /\ task' = Spawned(Requested(m))
       /\ children' = Append(children, Requested(m))
       /\ answer' = Answered({m.client}, "Ok")
  /\ UNCHANGED <<env, status, work, recent, tracked, timers, rounds>>

RefuseUnknown ==
  /\ Receives("TerminateChild")
  /\ ~Listed(Head(queue).id)
  /\ answer' = Answered({Head(queue).client}, "ChildNotFound")
  /\ UNCHANGED <<env, status, children, work, recent, tracked, timers, task, rounds>>

(***************************************************************************)
(* A child's report.  The child is looked up by id, so a report of an      *)
(* earlier incarnation is taken for one of the current child.              *)
(***************************************************************************)

\* Nothing to do: no such child, or a stop the supervisor asked for.
IgnoreReport ==
  /\ Receives("ChildTerminated")
  /\ LET m == Head(queue) IN ~Listed(m.id) \/ IsOwnDoing(m.reason)
  /\ UNCHANGED <<env, status, children, work, recent, tracked, timers, task,
                 answer, rounds>>

\* The report is about the child at position i, and its policy decides.
Concerns(i, restart) ==
  /\ Receives("ChildTerminated")
  /\ Position(Head(queue).id, i)
  /\ ~IsOwnDoing(Head(queue).reason)
  /\ restart = ShouldRestart(PolicyForDecision(children[i]), Head(queue).reason)

\* RestartDecision::Drop; removing the entry drops, and aborts, its worker.
DropChild ==
  \E i \in DOMAIN children :
    /\ Concerns(i, FALSE)
    /\ children' = RemoveAt(children, i)
    /\ task' = Dropped(children[i])
    /\ tracked' = Forgotten(children[i].id)
    /\ UNCHANGED <<env, status, work, recent, timers, answer, rounds>>

\* RestartDecision::Escalate.
Escalate ==
  \E i \in DOMAIN children :
    /\ Concerns(i, TRUE)
    /\ RecordRestart
    /\ Exceeded
    /\ children' = <<>>
    /\ work' = Begin("escalate", children)
    /\ UNCHANGED <<env, status, tracked, timers, task, answer, rounds>>

\* apply_restart: what the strategy restarts when the child at i has failed.
BeginRound(i) ==
  /\ rounds' = rounds + 1
  /\ \/ /\ config.strategy = "OneForOne"
        /\ work' = Begin("one", <<children[i]>>)
        /\ UNCHANGED children
     \/ /\ config.strategy = "OneForAll"
        /\ work' = Begin("all", children)
        /\ UNCHANGED children
     \/ /\ config.strategy = "RestForOne"
        /\ work' = Begin("from", SubSeq(children, i, Len(children)))
        /\ children' = SubSeq(children, 1, i - 1)

\* RestartDecision::Restart without a delay.
RestartNow ==
  \E i \in DOMAIN children :
    /\ Concerns(i, TRUE)
    /\ RecordRestart
    /\ ~Exceeded
    /\ ~config.delayed
    /\ tracked' = tracked \cup {children[i].id}
    /\ BeginRound(i)
    /\ UNCHANGED <<env, status, timers, task, answer>>

\* RestartDecision::Restart with a delay: defer_restart.
RestartLater ==
  \E i \in DOMAIN children :
    /\ Concerns(i, TRUE)
    /\ RecordRestart
    /\ ~Exceeded
    /\ config.delayed
    /\ tracked' = tracked \cup {children[i].id}
    /\ timers' = timers \cup
         {[cmd |-> "RestartChild", id |-> children[i].id, by |-> Head(queue).by]}
    /\ UNCHANGED <<env, status, children, work, task, answer, rounds>>

TimerFires_Lost(m) ==
  /\ timers' = timers \ {m}
  /\ UNCHANGED <<env, status, queue, children, work, recent, tracked, task, answer, rounds>>

\* A deferred restart's sleep is over.
TimerFires(m) ==
  /\ timers' = timers \ {m}
  /\ queue' = Sent(m)
  /\ UNCHANGED <<env, status, children, work, recent, tracked, task, answer, rounds>>

\* handle_restart_child, for a child that was terminated or dropped meanwhile.
SkipRestart ==
  /\ Receives("RestartChild")
  /\ ~Listed(Head(queue).id)
  /\ UNCHANGED <<env, status, children, work, recent, tracked, timers, task,
                 answer, rounds>>

HandleRestartChild ==
  \E i \in DOMAIN children :
    /\ Receives("RestartChild")
    /\ Position(Head(queue).id, i)
    /\ BeginRound(i)
    /\ UNCHANGED <<env, status, recent, tracked, timers, task, answer>>

(***************************************************************************)
(* Linked start: the command loop waits for the worker's initialization.   *)
(***************************************************************************)

HandleStartChildLinked ==
  /\ Receives("StartChildLinked")
  /\ LET m == Head(queue) IN
       /\ ~Listed(m.id)
       /\ task' = Append(task, NewTask(Requested(m), TRUE))
       /\ work' = [Begin("link", <<Requested(m)>>) EXCEPT !.client = {m.client}]
  /\ UNCHANGED <<env, status, children, recent, tracked, timers, answer, rounds>>

\* The initialization succeeded: only now is the worker a child.
LinkOk ==
  /\ work.op = "link"
  /\ work.reply = "Ok"
  /\ children' = Append(children, Head(work.todo))
  /\ answer' = Answered(work.client, "Ok")
  /\ work' = Idle
  /\ UNCHANGED <<env, status, queue, recent, tracked, timers, task, rounds>>

LinkFails_NoTimeout(a) ==
  /\ work.op = "link"
  /\ a = "InitializationFailed" /\ work.reply \in {"Err", "Closed"}
  /\ task' = Dropped(Head(work.todo))
  /\ answer' = Answered(work.client, a)
  /\ work' = Idle
  /\ UNCHANGED <<env, status, queue, children, recent, tracked, timers, rounds>>

\* It failed, the worker panicked, or the time is up: the worker is dropped.
LinkFails(a) ==
  /\ work.op = "link"
  /\ \/ a = "InitializationFailed" /\ work.reply \in {"Err", "Closed"}
     \/ a = "InitializationTimeout" /\ work.reply = "-"
  /\ task' = Dropped(Head(work.todo))
  /\ answer' = Answered(work.client, a)
  /\ work' = Idle
  /\ UNCHANGED <<env, status, queue, children, recent, tracked, timers, rounds>>

(***************************************************************************)
(* Stopping children: Child::shutdown and WorkerProcess::stop.             *)
(***************************************************************************)

HandleTerminateChild ==
  \E i \in DOMAIN children :
    /\ Receives("TerminateChild")
    /\ Position(Head(queue).id, i)
    /\ children' = RemoveAt(children, i)
    /\ work' = [Begin("terminate", <<children[i]>>)
                  EXCEPT !.client = {Head(queue).client}]
    /\ UNCHANGED <<env, status, recent, tracked, timers, task, answer, rounds>>

HandleShutdown ==
  /\ Receives("Shutdown")
  /\ children' = <<>>
  /\ work' = Begin("shutdown", children)
  /\ UNCHANGED <<env, status, recent, tracked, timers, task, answer, rounds>>

\* The handler in progress turns to the next child.
Advanced_KeepsStage == [work EXCEPT !.todo = Tail(@)]
Advanced == [work EXCEPT !.stage = "next", !.todo = Tail(@)]

Stopping == work.op \in {"terminate", "one", "all", "from", "shutdown", "escalate"}

\* The signal is sent; with a zero timeout the task is aborted at once.
BeginStop ==
  /\ Stopping
  /\ work.stage = "next"
  /\ work.todo # <<>>
  /\ LET c == Head(work.todo)
         atonce == c.kind = "Worker" /\ ~config.patient
     IN /\ work' = [work EXCEPT !.stage = IF atonce THEN "join" ELSE "wait"]
        /\ task' = IF Ended(c.task) THEN task
                   ELSE [task EXCEPT ![c.task].signal = TRUE,
                                     ![c.task].abort = @ \/ atonce]
  /\ UNCHANGED <<env, status, queue, children, recent, tracked, timers, answer, rounds>>

StopTimesOut_NoAbort ==
  /\ Stopping
  /\ work.stage = "wait"
  /\ work' = [work EXCEPT !.stage = "join"]
  /\ UNCHANGED <<env, status, queue, children, recent, tracked, timers, task, answer, rounds>>

\* The shutdown timeout elapses: the task is aborted, then joined.
StopTimesOut ==
  /\ Stopping
  /\ work.stage = "wait"
  /\ LET c == Head(work.todo) IN
       /\ c.kind = "Worker"
       /\ ~Ended(c.task)
       /\ task' = [task EXCEPT ![c.task].abort = TRUE]
  /\ work' = [work EXCEPT !.stage = "join"]
  /\ UNCHANGED <<env, status, queue, children, recent, tracked, timers, answer, rounds>>

HeadStopped_NoJoin == work.stage \in {"wait", "join"}

\* `shutdown` of the head returns: a worker was joined; a nested supervisor
\* was only told.
HeadStopped ==
  /\ work.stage \in {"wait", "join"}
  /\ LET c == Head(work.todo) IN c.kind = "Worker" => Ended(c.task)

FinishTerminate ==
  /\ work.op = "terminate"
  /\ HeadStopped
  /\ tracked' = Forgotten(Head(work.todo).id)
  /\ answer' = Answered(work.client, "Ok")
  /\ work' = Idle
  /\ UNCHANGED <<env, status, queue, children, recent, timers, task, rounds>>

\* On to the next child, when all are stopped before anything else is done.
StopNext ==
  /\ work.op \in {"all", "shutdown", "escalate"}
  /\ HeadStopped
  /\ work' = Advanced
  /\ UNCHANGED <<env, status, queue, children, recent, tracked, timers, task,
                 answer, rounds>>

\* `run` returns: the channel closes, so its commands and their callers get
\* nothing, and the parent is told the reason.
Exit ==
  /\ work.op \in {"shutdown", "escalate"}
  /\ work.todo = <<>>
  /\ status' = IF work.op = "shutdown" THEN "Shutdown" ELSE "Abnormal"
  /\ queue' = <<>>
  /\ work' = Idle
  /\ answer' = Answered({c \in Client : answer[c] = "waiting"}, "ShuttingDown")
  /\ UNCHANGED <<env, children, recent, tracked, timers, task, rounds>>

(***************************************************************************)
(* Restart rounds.                                                         *)
(***************************************************************************)

\* restart_child: the child stays in its place, as a new task.
RestartOne ==
  /\ work.op = "one"
  /\ HeadStopped
  /\ \E i \in DOMAIN children :
       /\ children[i] = Head(work.todo)
       /\ children' = [children EXCEPT ![i] = WithNewTask(@)]
       /\ task' = Spawned(children[i])
  /\ work' = Idle
  /\ UNCHANGED <<env, status, queue, recent, tracked, timers, answer, rounds>>

DrainAll_Early ==
  /\ work.op = "all"
  /\ work.stage = "next"
  /\ work' = Begin("respawn", children)
  /\ children' = <<>>
  /\ UNCHANGED <<env, status, queue, recent, tracked, timers, task, answer, rounds>>

DrainAll_Copies ==
  /\ work.op = "all"
  /\ work.todo = <<>>
  /\ work' = Begin("respawn", children)
  /\ UNCHANGED <<env, status, queue, children, recent, tracked, timers, task, answer, rounds>>

\* restart_all_children, once every child was stopped: the list is drained.
DrainAll ==
  /\ work.op = "all"
  /\ work.todo = <<>>
  /\ work' = Begin("respawn", children)
  /\ children' = <<>>
  /\ UNCHANGED <<env, status, queue, recent, tracked, timers, task, answer, rounds>>

LeavesSupervision(c) == RestartPolicyOf(c) = "Temporary"

\* One turn of the loop of restart_all_children or restart_from: a stopped
\* child leaves supervision or is respawned and kept.
RespawnHead ==
  /\ \/ work.op = "respawn" /\ work.todo # <<>>
     \/ work.op = "from" /\ HeadStopped
  /\ LET c == Head(work.todo)
     IN \/ /\ LeavesSupervision(c)
           /\ tracked' = Forgotten(c.id)
           /\ work' = Advanced
           /\ UNCHANGED task
        \/ /\ ~LeavesSupervision(c)
           /\ task' = Spawned(c)
           /\ work' = [Advanced EXCEPT !.back = Append(@, WithNewTask(c))]
           /\ UNCHANGED tracked
  /\ UNCHANGED <<env, status, queue, children, recent, timers, answer, rounds>>

EndRound_InFront ==
  /\ work.op \in {"respawn", "from"}
  /\ work.todo = <<>>
  /\ children' = work.back \o children
  /\ work' = Idle
  /\ UNCHANGED <<env, status, queue, recent, tracked, timers, task, answer, rounds>>

\* The kept children are back in the list, after those before the failed one.
EndRound ==
  /\ work.op \in {"respawn", "from"}
  /\ work.todo = <<>>
  /\ children' = children \o work.back
  /\ work' = Idle
  /\ UNCHANGED <<env, status, queue, recent, tracked, timers, task, answer, rounds>>

(***************************************************************************)
(* Worker tasks: run_worker.  A step past an await is possible after the   *)
(* abort too: the poll under way when abort() is called runs to its end.   *)
(***************************************************************************)

Moves(t, from, to) ==
  /\ task[t].pc = from
  /\ task' = [task EXCEPT ![t].pc = to]

InitOk(t) ==
  /\ task[t].kind = "Worker"
  /\ Moves(t, "init", "run")
  /\ work' = Told(t, "Ok")
  /\ UNCHANGED <<env, status, queue, children, recent, tracked, timers, answer, rounds>>

Fault == faults < MaxFaults /\ faults' = faults + 1

InitFails(t) ==
  /\ Moves(t, "init", "initerr")
  /\ Fault
  /\ work' = Told(t, "Err")
  /\ UNCHANGED <<config, calls, status, queue, children, recent, tracked, timers,
                 answer, rounds>>

Reports_UnlinkedOnly(t, how, reason) ==
  /\ task' = [task EXCEPT ![t] = EndedTask(t, how)]
  /\ queue' = IF task[t].linked THEN queue
              ELSE Sent([cmd |-> "ChildTerminated", id |-> task[t].id, reason |-> reason,
                         by |-> t])

\* The task ends and reports why.
Reports(t, how, reason) ==
  /\ task' = [task EXCEPT ![t] = EndedTask(t, how)]
  /\ queue' = Sent([cmd |-> "ChildTerminated", id |-> task[t].id, reason |-> reason,
                    by |-> t])

\* There is no await between telling init_tx and reporting: no abort here.
ReportInitFailure(t) ==
  /\ task[t].pc = "initerr"
  /\ Reports(t, "failed", "Abnormal")
  /\ UNCHANGED <<env, status, children, work, recent, tracked, timers, answer, rounds>>

\* The select! of run_worker: its cancelled() branch (a dropped sender counts
\* as a request) or the end of run(), which may be polled after cancelled()
\* was still pending, hence also when the signal has just been set.
Leaves(t, reason) ==
  /\ task[t].kind = "Worker"
  /\ task[t].pc = "run"
  /\ task' = [task EXCEPT ![t].pc = "hook", ![t].reason = reason]

ShutdownSeen(t) ==
  /\ task[t].signal \/ task[t].abort
  /\ Leaves(t, "Shutdown")
  /\ UNCHANGED <<env, status, queue, children, work, recent, tracked, timers,
                 answer, rounds>>

RunReturns(t) ==
  /\ \E reason \in {"Normal", "Abnormal"} : Leaves(t, reason)
  /\ Fault
  /\ UNCHANGED <<config, calls, status, queue, children, work, recent, tracked,
                 timers, answer, rounds>>

\* The shutdown() hook is over.
HookReturns(t) ==
  /\ task[t].pc = "hook"
  /\ Reports(t, "done", task[t].reason)
  /\ UNCHANGED <<env, status, children, work, recent, tracked, timers, answer, rounds>>

\* An aborted task ends at an await, and reports nothing.
Cancelled(t) ==
  /\ task[t].abort
  /\ task[t].pc \in {"init", "run", "hook"}
  /\ task' = [task EXCEPT ![t] = EndedTask(t, "cancelled")]
  /\ UNCHANGED <<env, status, queue, children, work, recent, tracked, timers,
                 answer, rounds>>

\* A panic ends the task without a report; init_tx is dropped.
Panic(t) ==
  /\ Panics
  /\ task[t].kind = "Worker"
  /\ task[t].pc \in {"init", "run", "hook"}
  /\ Fault
  /\ task' = [task EXCEPT ![t] = EndedTask(t, "panicked")]
  /\ work' = Told(t, "Closed")
  /\ UNCHANGED <<config, calls, status, queue, children, recent, tracked, timers,
                 answer, rounds>>

\* run() holds its thread: neither the signal nor an abort is seen meanwhile.
Block(t) ==
  /\ Blocks
  /\ task[t].kind = "Worker"
  /\ Moves(t, "run", "blocked")
  /\ Fault
  /\ UNCHANGED <<config, calls, status, queue, children, work, recent, tracked,
                 timers, answer, rounds>>

Unblock(t) ==
  /\ Moves(t, "blocked", "run")
  /\ UNCHANGED <<env, status, queue, children, work, recent, tracked, timers,
                 answer, rounds>>

(***************************************************************************)
(* A nested supervisor, as its parent sees it: told to stop, it reports    *)
(* Shutdown; having exceeded its own intensity, it reports Abnormal.       *)
(***************************************************************************)

NestedStops(t) ==
  /\ task[t].kind = "Supervisor"
  /\ task[t].pc = "run"
  /\ task[t].signal
  /\ Reports(t, "done", "Shutdown")
  /\ UNCHANGED <<env, status, children, work, recent, tracked, timers, answer, rounds>>

NestedEscalates(t) ==
  /\ task[t].kind = "Supervisor"
  /\ task[t].pc = "run"
  /\ Fault
  /\ Reports(t, "done", "Abnormal")
  /\ UNCHANGED <<config, calls, status, children, work, recent, tracked, timers,
                 answer, rounds>>

(***************************************************************************)
(* The specification.                                                      *)
(***************************************************************************)

Runtime ==
  \/ HandleQuery \/ RefuseDuplicate \/ HandleStartChild \/ RefuseUnknown
  \/ IgnoreReport \/ DropChild \/ Escalate \/ RestartNow \/ RestartLater
  \/ SkipRestart \/ HandleRestartChild
  \/ HandleStartChildLinked \/ LinkOk
  \/ \E a \in {"InitializationFailed", "InitializationTimeout"} : LinkFails(a)
  \/ HandleTerminateChild \/ HandleShutdown
  \/ BeginStop \/ StopTimesOut \/ FinishTerminate \/ StopNext \/ Exit
  \/ RestartOne \/ DrainAll \/ RespawnHead \/ EndRound

\* What a task does of its own accord.
Runs(t) ==
  \/ InitOk(t) \/ InitFails(t) \/ ShutdownSeen(t) \/ RunReturns(t) \/ HookReturns(t)
  \/ Panic(t) \/ Block(t) \/ Unblock(t) \/ NestedEscalates(t)

\* What it does as soon as it is scheduled.
MustRun(t) == ReportInitFailure(t) \/ Cancelled(t) \/ NestedStops(t)

Next ==
  \/ Runtime
  \/ \E c \in Client, k \in Calls : Call(c, k)
  \/ \E m \in timers : TimerFires(m)
  \/ \E t \in DOMAIN task : Runs(t) \/ MustRun(t)

Spec == Init /\ [][Next]_vars

\* Tokio polls every task that is ready, and every timer fires.  Nothing is
\* assumed of user code (initialize, run, the hook) nor of callers.
Fairness ==
  /\ WF_vars(Runtime)
  /\ WF_vars(\E m \in timers : TimerFires(m))
  /\ WF_vars(\E t \in DOMAIN task : MustRun(t))

FairSpec == Spec /\ Fairness

(***************************************************************************)
(* Properties.                                                             *)
(***************************************************************************)

VarTypes ==
  /\ config \in Configs
  /\ status \in {"running", "Shutdown", "Abnormal"}
  /\ queue \in Seq(Command)
  /\ children \in Seq(Child)
  /\ work \in Work
  /\ recent \in Nat
  /\ tracked \subseteq Id
  /\ timers \subseteq Deferred
  /\ task \in Seq(Task)
  /\ answer \in [Client -> Answer]
  /\ calls \in 0..MaxCalls
  /\ faults \in 0..MaxFaults
  /\ rounds \in Nat

\* The shape of the handler in progress.
WorkShape ==
  /\ work.op = "idle" => work = Idle
  /\ work.op \in {"link", "terminate", "one"} => Len(work.todo) = 1
  /\ work.op \notin {"respawn", "from"} => work.back = <<>>
  /\ work.op \in {"idle", "link", "respawn"} => work.stage = "next"
  /\ work.stage # "next" => work.todo # <<>>

\* The variables have their types and the handler in progress its shape: only
\* the handlers that stop children one after the other have more than one in
\* hand, and a stop under way is the stop of the head of `todo` (a child that is
\* taken for stopped because its predecessor was would break this).
TypeOK == VarTypes /\ WorkShape

\* Children that are listed or in the hands of a restart round or of a linked
\* start, in start order.
Roster ==
  children \o work.back \o
    (IF work.op \in {"from", "respawn", "link"} THEN work.todo ELSE <<>>)

\* Every child in the hands of the supervisor, those being stopped included.
Held == SetOf(children) \cup SetOf(work.todo) \cup SetOf(work.back)

Pending(by, cmds) ==
  {k \in DOMAIN queue : queue[k].cmd \in cmds /\ queue[k].by = by}

\* No two children are supervised under one id, although a linked start checks
\* the id before it waits for the worker and adds it only afterwards
\* (handle_start_child_linked), and rounds take the list apart and rebuild it.
UniqueIds == DistinctIds(Roster)

\* The supervisor never loses sight of what it started: a task that still runs
\* and was not aborted belongs to a child it holds, unless it is a nested
\* supervisor that was already told to stop.  In particular nothing it started
\* outlives it unasked (shutdown_children, Drop for WorkerProcess).
NoOrphan ==
  \A t \in DOMAIN task :
    \/ Ended(t)
    \/ task[t].abort
    \/ \E c \in Held : c.task = t
    \/ task[t].kind = "Supervisor" /\ task[t].signal

\* Two incarnations of one worker never run side by side: the earlier one has
\* ended, or was aborted, before the later one is spawned, so the workers of an
\* id can own what a single process may own.
OneIncarnation ==
  \A t, u \in DOMAIN task :
    /\ t < u
    /\ task[t].id = task[u].id
    /\ task[t].kind = "Worker"
    => Ended(t) \/ task[t].abort

\* A listed child whose task has ended is not forgotten: its report or a
\* deferred restart is still to come, or it is being stopped to be restarted
\* (handle_child_terminated, defer_restart).  Panics are the exception: they
\* report nothing.
NoLostChild ==
  \A c \in SetOf(children) :
    /\ status = "running"
    /\ task[c.task].pc \in Ends \ {"panicked"}
    => \/ Pending(c.task, {"ChildTerminated", "RestartChild"}) # {}
       \/ \E m \in timers : m.by = c.task
       \/ work.op = "one" /\ Head(work.todo) = c
       \/ work.op = "all"

\* Backoff is kept only for children under supervision, so the tracker does
\* not grow with every id ever used, and a child started under a used id does
\* not inherit the delays of the former one (reset_child at each place a child
\* leaves).
BackoffOnlyForSupervised ==
  status = "running" /\ work.op # "escalate" /\ work.op # "shutdown"
    => tracked \subseteq {c.id : c \in Held}

\* Restart rounds never exceed the budget, whatever was deferred, skipped or
\* reported twice: each round done or to come was recorded as one restart.
\* (Stated for a window that nothing leaves.)
RoundsWithinBudget ==
  ~Expiry =>
    rounds + Cardinality(timers)
      + Cardinality({k \in DOMAIN queue : queue[k].cmd = "RestartChild"})
      <= config.max_restarts

\* OneForAll respawns nothing before everything is stopped: a new worker never
\* meets a sibling of the generation that failed (restart_all_children).
NoMixedGenerations ==
  work.op = "respawn" =>
    \A c \in SetOf(work.todo) : c.kind = "Worker" => Ended(c.task)

Before(s, a, b) ==
  \E i, j \in DOMAIN s : i < j /\ s[i].id = a /\ s[j].id = b

\* The start order, on which RestForOne and which_children rely, survives
\* every round: two children are never swapped.
StartOrderKept ==
  [][\A a, b \in Id : Before(Roster, a, b) => ~Before(Roster, b, a)']_vars

\* A healthy child is never dropped from supervision: the child that a report
\* removes has ended.
HealthyNeverDropped ==
  [][\A c \in SetOf(children) \ Held' :
       work.op = "idle" /\ Head(queue).cmd = "ChildTerminated" => Ended(c.task)]_vars

\* Only a start command ever spawns a Temporary child: no round does.
TemporaryNeverRestarted ==
  [][\A c \in SetOf(Roster') :
       c.task > Len(task) /\ work.op # "idle" => c.policy # "Temporary"]_vars

\* A linked start that failed is answered, and that is all: its report makes
\* no restart.
LinkedFailureIgnored ==
  [][recent' > recent =>
       LET t == Head(queue).by IN ~(task[t].linked /\ task[t].pc = "failed")]_vars

DeadListed(id) ==
  /\ status = "running"
  /\ \E c \in SetOf(children) : c.id = id /\ Ended(c.task)

\* A listed child that has ended is eventually restarted, dropped, or taken
\* down with its supervisor.
DeadChildHandled == \A id \in Id : []<>~DeadListed(id)

\* Every call on the handle gets its answer.
CallsReturn == \A c \in Client : answer[c] = "waiting" ~> answer[c] # "waiting"

\* A requested shutdown is carried out, and brings down everything that was
\* ever started.
ShutdownCompletes ==
  (\E k \in DOMAIN queue : queue[k].cmd = "Shutdown")
    ~> (status # "running" /\ \A t \in DOMAIN task : Ended(t))

================================================================================
