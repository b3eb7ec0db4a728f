----------------------------- MODULE StatefulTree ------------------------------
(***************************************************************************)
(* A tree of stateful supervisors (supervisor_stateful.rs): every runtime  *)
(* of the tree, nested ones included, with its workers, and the            *)
(* WorkerContext each specification shares among its workers (types.rs).   *)
(*                                                                         *)
(* A runtime is a record of the sequence `rt`, in the order of creation;   *)
(* a nested supervisor that is restarted is a new runtime, and the old one *)
(* may still be at work.  A parent and a nested runtime only talk through  *)
(* their queues: Shutdown downwards, ChildTerminated upwards.              *)
(*                                                                         *)
(* An operator X_Y written just before X is X with a plausible mistake in  *)
(* it; the specification never uses it.                                    *)
(***************************************************************************)
EXTENDS Integers, Sequences, FiniteSets, RestartPolicy, SpecTrees

CONSTANTS
  Id,      \* child ids
  Client,  \* callers holding a clone of the root's handle
  Trees,   \* the trees to start from, each with the bounds it is explored to
  Expiry,  \* may restarts leave the intensity window?
  MaxCalls, MaxFaults  \* no tree has a larger bound

CallName == {"StartChild", "StartChildLinked", "TerminateChild", "Query", "Shutdown"}
Ask == [cmd : CallName, id : Id, policy : Policy]

ChildSpec == [id : Id, kind : Kind, policy : Policy]

\* StatefulSupervisorSpec, its context apart.
Node == [name : Id, children : Seq(ChildSpec), strategy : Strategy,
         max_restarts : Nat, delayed : BOOLEAN, patient : BOOLEAN]

\* The specifications of a tree, each one followed by those of its subtree in
\* the order `StatefulSupervisorRuntime::new` starts them; the calls clients may
\* make; bounds on calls, on faults of workers, and on uses of the contexts.
Tree == [nodes : Seq(Node), asks : SUBSET Ask, calls : 0..MaxCalls,
         faults : 0..MaxFaults, uses : Nat]

ASSUME TreesAssumption ==
  /\ Trees \subseteq Tree
  /\ MaxCalls \in Nat /\ MaxFaults \in Nat /\ Expiry \in BOOLEAN
  /\ \A c \in Trees : WellFormed(c.nodes)

VARIABLES
  config,   \* the tree that was started
  rt,       \* every runtime started so far
  store,    \* the WorkerContext of each specification
  answer,   \* what each client last got, or "waiting"
  calls, faults, uses  \* what the bounds count

vars == <<config, rt, store, answer, calls, faults, uses>>
bounds == <<calls, faults, uses>>

(***************************************************************************)
(* Data.                                                                   *)
(***************************************************************************)

Child == [id : Id, kind : Kind, policy : Policy, task : Nat]

Ends == {"done", "failed", "cancelled", "panicked"}

\* The places of run_worker, and "update": inside a closure given to
\* WorkerContext::update.  The task of a nested supervisor is at "run" until
\* its runtime returns.
Pc == {"init", "initerr", "run", "update", "hook"} \cup Ends

Task == [id : Id, kind : Kind, linked : BOOLEAN, pc : Pc, signal : BOOLEAN,
         abort : BOOLEAN, reason : Reason]

\* StatefulSupervisorCommand; a parent's Shutdown expects no answer.
Command ==
  [cmd : CallName, id : Id, policy : Policy, client : Client]
    \cup [cmd : {"Shutdown"}]
    \cup [cmd : {"ChildTerminated"}, id : Id, reason : Reason, by : Nat]
    \cup [cmd : {"RestartChild"}, id : Id, by : Nat]

Answer == {"-", "waiting", "Ok", "ChildAlreadyExists", "ChildNotFound",
           "InitializationFailed", "InitializationTimeout", "ShuttingDown"}

Work == [op : {"idle", "link", "terminate", "one", "all", "respawn", "from",
               "shutdown", "escalate"},
         stage : {"next", "wait", "join"}, todo : Seq(Child), back : Seq(Child),
         client : SUBSET Client, reply : {"-", "Ok", "Err", "Closed"}]

\* StatefulSupervisorRuntime and the task that runs it.  `up` and `slot`: the
\* runtime that started it, and as which of its tasks; `ends`, `rounds`:
\* history.
Runtime == [node : Nat, up : Nat, slot : Nat,
            status : {"running", "Shutdown", "Abnormal"}, queue : Seq(Command),
            children : Seq(Child), work : Work, recent : Nat, tracked : SUBSET Id,
            timers : SUBSET [cmd : {"RestartChild"}, id : Id, by : Nat],
            task : Seq(Task), ends : Nat, rounds : Nat]

Idle == [op |-> "idle", stage |-> "next", todo |-> <<>>, back |-> <<>>,
         client |-> {}, reply |-> "-"]
Begin(op, todo) == [Idle EXCEPT !.op = op, !.todo = todo]

SpecOf(s) == config.nodes[rt[s].node]

RestartPolicyOf(c)   == IF c.kind = "Worker" THEN c.policy ELSE "Permanent"
PolicyForDecision(c) == IF c.kind = "Worker" THEN c.policy ELSE NoPolicy

Ended(s, t) == rt[s].task[t].pc \in Ends

Listed(s, id) == \E c \in SetOf(rt[s].children) : c.id = id

Position(s, id, i) ==
  /\ i \in DOMAIN rt[s].children
  /\ rt[s].children[i].id = id
  /\ \A j \in 1..(i - 1) : rt[s].children[j].id # id

\* rt with the runtime s in a new state.
Put(s, r) == [rt EXCEPT ![s] = r]

(***************************************************************************)
(* Starting: WorkerProcess::spawn, StatefulSupervisorHandle::start_inner.  *)
(***************************************************************************)

NewTask(c, linked) ==
  [id |-> c.id, kind |-> c.kind, linked |-> linked,
   pc |-> IF c.kind = "Worker" THEN "init" ELSE "run",
   signal |-> FALSE, abort |-> FALSE, reason |-> "Normal"]

\* `new` spawns the children in order; their tasks are the first ones.
NewRuntime(tree, n, up, slot) ==
  LET cs == tree.nodes[n].children IN
  [node |-> n, up |-> up, slot |-> slot, status |-> "running", queue |-> <<>>,
   children |-> [i \in DOMAIN cs |-> [id |-> cs[i].id, kind |-> cs[i].kind,
                                      policy |-> cs[i].policy, task |-> i]],
   work |-> Idle, recent |-> 0, tracked |-> {}, timers |-> {},
   task |-> [i \in DOMAIN cs |-> NewTask(cs[i], FALSE)], ends |-> 0, rounds |-> 0]

\* Where a nested specification is listed.
Above(tree, n) ==
  CHOOSE p \in DOMAIN tree.nodes : tree.nodes[n].name \in NestedIds(tree.nodes, p)
PlaceIn(tree, n) ==
  CHOOSE i \in DOMAIN tree.nodes[Above(tree, n)].children :
    tree.nodes[Above(tree, n)].children[i].id = tree.nodes[n].name

\* The last specification of the subtree that starts at n.
LastOf(tree, n) ==
  CHOOSE m \in n..Len(tree.nodes) :
    /\ \A k \in (n + 1)..m : Above(tree, k) >= n
    /\ m < Len(tree.nodes) => Above(tree, m + 1) < n

Subtree_ReportsToRoot(tree, n, up, slot, before) ==
  [k \in 1..(LastOf(tree, n) - n + 1) |->
     NewRuntime(tree, n + k - 1, IF k = 1 THEN up ELSE 1,
                IF k = 1 THEN slot ELSE PlaceIn(tree, n + k - 1))]

\* start_inner on specification n: its runtime and, started by its `new`, those
\* of its subtree, when `before` runtimes were started earlier.
Subtree(tree, n, up, slot, before) ==
  [k \in 1..(LastOf(tree, n) - n + 1) |->
     IF k = 1 THEN NewRuntime(tree, n, up, slot)
     ELSE NewRuntime(tree, n + k - 1, before + Above(tree, n + k - 1) - n + 1,
                     PlaceIn(tree, n + k - 1))]

\* rt once s, brought to state r, has spawned child c as one more task.
Started(s, r, c, linked) ==
  Put(s, [r EXCEPT !.task = Append(@, NewTask(c, linked))]) \o
    (IF c.kind = "Worker" THEN <<>>
     ELSE Subtree(config, CHOOSE n \in DOMAIN config.nodes : config.nodes[n].name = c.id,
                  s, Len(r.task) + 1, Len(rt)))

WithNewTask(s, c) == [c EXCEPT !.task = Len(rt[s].task) + 1]

Init ==
  /\ config \in Trees
  /\ rt = Subtree(config, 1, 0, 0, 0)
  /\ store = [n \in DOMAIN config.nodes |-> [value |-> -1, expected |-> -1, holder |-> <<>>]]
  /\ answer = [c \in Client |-> "-"]
  /\ calls = 0 /\ faults = 0 /\ uses = 0

(***************************************************************************)
(* Channels.                                                               *)
(***************************************************************************)

\* A runtime that has returned receives nothing.
Delivered(r, m) ==
  IF r.status = "running" THEN [r EXCEPT !.queue = Append(@, m)] ELSE r

Answered(clients, a) ==
  [c \in Client |-> IF c \in clients THEN a ELSE answer[c]]

Receives(s, name) ==
  /\ rt[s].status = "running"
  /\ rt[s].work.op = "idle"
  /\ rt[s].queue # <<>>
  /\ Head(rt[s].queue).cmd = name

First(s) == Head(rt[s].queue)
Taken(s) == [rt[s] EXCEPT !.queue = Tail(@)]

\* A call on the root's handle; the handles of nested supervisors are private.
Call(c, k) ==
  /\ answer[c] # "waiting"
  /\ calls < config.calls
  /\ calls' = calls + 1
  /\ rt' = Put(1, Delivered(rt[1], [cmd |-> k.cmd, id |-> k.id, policy |-> k.policy,
                                    client |-> c]))
  /\ answer' = [answer EXCEPT ![c] =
                  IF rt[1].status # "running" THEN "ShuttingDown"
                  ELSE IF k.cmd = "Shutdown" THEN "Ok" ELSE "waiting"]
  /\ UNCHANGED <<config, store, faults, uses>>

(***************************************************************************)
(* Handlers that do not await.                                             *)
(***************************************************************************)

\* which_children, restart_strategy and uptime change nothing.
HandleQuery(s) ==
  /\ Receives(s, "Query")
  /\ rt' = Put(s, Taken(s))
  /\ answer' = Answered({First(s).client}, "Ok")
  /\ UNCHANGED <<config, store, bounds>>

RefuseDuplicate(s) ==
  /\ Receives(s, "StartChild") \/ Receives(s, "StartChildLinked")
  /\ Listed(s, First(s).id)
  /\ rt' = Put(s, Taken(s))
  /\ answer' = Answered({First(s).client}, "ChildAlreadyExists")
  /\ UNCHANGED <<config, store, bounds>>

Requested(s) ==
  [id |-> First(s).id, kind |-> "Worker", policy |-> First(s).policy,
   task |-> Len(rt[s].task) + 1]

HandleStartChild(s) ==
  /\ Receives(s, "StartChild")
  /\ ~Listed(s, First(s).id)
  /\ rt' = Started(s, [Taken(s) EXCEPT !.children = Append(@, Requested(s))],
                   Requested(s), FALSE)
  /\ answer' = Answered({First(s).client}, "Ok")
  /\ UNCHANGED <<config, store, bounds>>

RefuseUnknown(s) ==
  /\ Receives(s, "TerminateChild")
  /\ ~Listed(s, First(s).id)
  /\ rt' = Put(s, Taken(s))
  /\ answer' = Answered({First(s).client}, "ChildNotFound")
  /\ UNCHANGED <<config, store, bounds>>

(***************************************************************************)
(* handle_child_terminated: a child is looked up by id, so the report of   *)
(* an earlier incarnation counts for the current one.                      *)
(***************************************************************************)

IgnoreReport(s) ==
  /\ Receives(s, "ChildTerminated")
  /\ ~Listed(s, First(s).id) \/ IsOwnDoing(First(s).reason)
  /\ rt' = Put(s, Taken(s))
  /\ UNCHANGED <<config, store, answer, bounds>>

Concerns(s, i, restart) ==
  /\ Receives(s, "ChildTerminated")
  /\ Position(s, First(s).id, i)
  /\ ~IsOwnDoing(First(s).reason)
  /\ restart = ShouldRestart(PolicyForDecision(rt[s].children[i]), First(s).reason)

\* Restarts in the window once this one is recorded.
Recorded(s) == IF Expiry THEN 1..(rt[s].recent + 1) ELSE {rt[s].recent + 1}

\* RestartDecision::Drop; the worker removed is dropped, hence aborted.
DropChild(s) ==
  \E i \in DOMAIN rt[s].children :
    /\ Concerns(s, i, FALSE)
    /\ LET c == rt[s].children[i] IN
       rt' = Put(s, [Taken(s) EXCEPT !.children = RemoveAt(@, i), !.tracked = @ \ {c.id},
                       !.task[c.task].abort = @ \/ ~Ended(s, c.task)])
    /\ UNCHANGED <<config, store, answer, bounds>>

\* RestartDecision::Escalate.
Escalate(s) ==
  \E i \in DOMAIN rt[s].children, n \in Recorded(s) :
    /\ Concerns(s, i, TRUE)
    /\ n > SpecOf(s).max_restarts
    /\ rt' = Put(s, [Taken(s) EXCEPT !.recent = n, !.children = <<>>,
                       !.work = Begin("escalate", rt[s].children)])
    /\ UNCHANGED <<config, store, answer, bounds>>

\* apply_restart, by the runtime in state r.
RoundBegun(s, r, i) ==
  LET cs == r.children
      round == [r EXCEPT !.rounds = @ + 1]
      strategy == SpecOf(s).strategy
  IN CASE strategy = "OneForOne" -> [round EXCEPT !.work = Begin("one", <<cs[i]>>)]
       [] strategy = "OneForAll" -> [round EXCEPT !.work = Begin("all", cs)]
       [] OTHER -> [round EXCEPT !.work = Begin("from", SubSeq(cs, i, Len(cs))),
                                 !.children = SubSeq(cs, 1, i - 1)]

\* RestartDecision::Restart, at once or by defer_restart.
Restart(s) ==
  \E i \in DOMAIN rt[s].children, n \in Recorded(s) :
    /\ Concerns(s, i, TRUE)
    /\ n <= SpecOf(s).max_restarts
    /\ LET id == rt[s].children[i].id
           r  == [Taken(s) EXCEPT !.recent = n, !.tracked = @ \cup {id}]
       IN rt' = Put(s, IF SpecOf(s).delayed
                       THEN [r EXCEPT !.timers = @ \cup
                               {[cmd |-> "RestartChild", id |-> id, by |-> First(s).by]}]
                       ELSE RoundBegun(s, r, i))
    /\ UNCHANGED <<config, store, answer, bounds>>

TimerFires(s) ==
  \E m \in rt[s].timers :
    /\ rt' = Put(s, Delivered([rt[s] EXCEPT !.timers = @ \ {m}], m))
    /\ UNCHANGED <<config, store, answer, bounds>>

\* handle_restart_child.
HandleRestartChild(s) ==
  /\ Receives(s, "RestartChild")
  /\ \/ /\ ~Listed(s, First(s).id)
        /\ rt' = Put(s, Taken(s))
     \/ \E i \in DOMAIN rt[s].children :
          /\ Position(s, First(s).id, i)
          /\ rt' = Put(s, RoundBegun(s, Taken(s), i))
  /\ UNCHANGED <<config, store, answer, bounds>>

(***************************************************************************)
(* handle_start_child_linked.                                              *)
(***************************************************************************)

HandleStartChildLinked(s) ==
  /\ Receives(s, "StartChildLinked")
  /\ ~Listed(s, First(s).id)
  /\ rt' = Started(s, [Taken(s) EXCEPT !.work = [Begin("link", <<Requested(s)>>)
                                          EXCEPT !.client = {First(s).client}]],
                   Requested(s), TRUE)
  /\ UNCHANGED <<config, store, answer, bounds>>

LinkOk(s) ==
  /\ rt[s].work.op = "link"
  /\ rt[s].work.reply = "Ok"
  /\ rt' = Put(s, [rt[s] EXCEPT !.children = Append(@, Head(rt[s].work.todo)),
                     !.work = Idle])
  /\ answer' = Answered(rt[s].work.client, "Ok")
  /\ UNCHANGED <<config, store, bounds>>

LinkFails_Detaches(s, a) ==
  /\ rt[s].work.op = "link"
  /\ \/ a = "InitializationFailed" /\ rt[s].work.reply \in {"Err", "Closed"}
     \/ a = "InitializationTimeout" /\ rt[s].work.reply = "-"
  /\ rt' = Put(s, [rt[s] EXCEPT !.work = Idle])
  /\ answer' = Answered(rt[s].work.client, a)
  /\ UNCHANGED <<config, store, bounds>>

\* Failed, panicked or out of time: the worker is dropped.
LinkFails(s, a) ==
  /\ rt[s].work.op = "link"
  /\ \/ a = "InitializationFailed" /\ rt[s].work.reply \in {"Err", "Closed"}
     \/ a = "InitializationTimeout" /\ rt[s].work.reply = "-"
  /\ LET t == Head(rt[s].work.todo).task IN
     rt' = Put(s, [rt[s] EXCEPT !.work = Idle, !.task[t].abort = @ \/ ~Ended(s, t)])
  /\ answer' = Answered(rt[s].work.client, a)
  /\ UNCHANGED <<config, store, bounds>>

(***************************************************************************)
(* Stopping children: StatefulChild::shutdown, StatefulWorkerProcess::stop.*)
(***************************************************************************)

HandleTerminateChild(s) ==
  \E i \in DOMAIN rt[s].children :
    /\ Receives(s, "TerminateChild")
    /\ Position(s, First(s).id, i)
    /\ rt' = Put(s, [Taken(s) EXCEPT !.children = RemoveAt(@, i),
                       !.work = [Begin("terminate", <<rt[s].children[i]>>)
                                   EXCEPT !.client = {First(s).client}]])
    /\ UNCHANGED <<config, store, answer, bounds>>

HandleShutdown(s) ==
  /\ Receives(s, "Shutdown")
  /\ rt' = Put(s, [Taken(s) EXCEPT !.children = <<>>,
                     !.work = Begin("shutdown", rt[s].children)])
  /\ UNCHANGED <<config, store, answer, bounds>>

Stopping(s) ==
  rt[s].work.op \in {"terminate", "one", "all", "from", "shutdown", "escalate"}

\* The runtime that s runs as its task t.
Nested(s, t) == CHOOSE u \in DOMAIN rt : rt[u].up = s /\ rt[u].slot = t

Tell_Nobody(rts, s, c) == rts

\* handle.shutdown(): a message to the nested runtime, which is not awaited.
Tell(rts, s, c) ==
  IF c.kind = "Supervisor" /\ ~Ended(s, c.task)
  THEN [rts EXCEPT ![Nested(s, c.task)] = Delivered(@, [cmd |-> "Shutdown"])]
  ELSE rts

BeginStop(s) ==
  /\ Stopping(s)
  /\ rt[s].work.stage = "next"
  /\ rt[s].work.todo # <<>>
  /\ LET c == Head(rt[s].work.todo)
         atonce == c.kind = "Worker" /\ ~SpecOf(s).patient
         live == ~Ended(s, c.task)
     IN rt' = Tell(Put(s, [rt[s] EXCEPT !.work.stage = IF atonce THEN "join" ELSE "wait",
                             !.task[c.task].signal = @ \/ live,
                             !.task[c.task].abort = @ \/ (live /\ atonce)]), s, c)
  /\ UNCHANGED <<config, store, answer, bounds>>

StopTimesOut_NoAbort(s) ==
  /\ Stopping(s)
  /\ rt[s].work.stage = "wait"
  /\ rt' = Put(s, [rt[s] EXCEPT !.work.stage = "join"])
  /\ UNCHANGED <<config, store, answer, bounds>>

StopTimesOut(s) ==
  /\ Stopping(s)
  /\ rt[s].work.stage = "wait"
  /\ LET c == Head(rt[s].work.todo) IN
       /\ c.kind = "Worker"
       /\ ~Ended(s, c.task)
       /\ rt' = Put(s, [rt[s] EXCEPT !.work.stage = "join", !.task[c.task].abort = TRUE])
  /\ UNCHANGED <<config, store, answer, bounds>>

\* shutdown() of the head returns: a worker was joined, a nested supervisor told.
HeadStopped(s) ==
  /\ rt[s].work.stage \in {"wait", "join"}
  /\ LET c == Head(rt[s].work.todo) IN c.kind = "Worker" => Ended(s, c.task)

Advanced(w) == [w EXCEPT !.stage = "next", !.todo = Tail(@)]

FinishTerminate(s) ==
  /\ rt[s].work.op = "terminate"
  /\ HeadStopped(s)
  /\ rt' = Put(s, [rt[s] EXCEPT !.tracked = @ \ {Head(rt[s].work.todo).id}, !.work = Idle])
  /\ answer' = Answered(rt[s].work.client, "Ok")
  /\ UNCHANGED <<config, store, bounds>>

StopNext(s) ==
  /\ rt[s].work.op \in {"all", "shutdown", "escalate"}
  /\ HeadStopped(s)
  /\ rt' = Put(s, [rt[s] EXCEPT !.work = Advanced(@)])
  /\ UNCHANGED <<config, store, answer, bounds>>

\* How a task that has ended is recorded.
EndedTask(s, t, how) ==
  [NewTask(rt[s].task[t], rt[s].task[t].linked) EXCEPT !.pc = how]

\* Runtime s once its task t has ended and reported.
Reported(s, t, how, reason) ==
  Delivered([rt[s] EXCEPT !.task[t] = EndedTask(s, t, how)],
            [cmd |-> "ChildTerminated", id |-> rt[s].task[t].id, reason |-> reason,
             by |-> t])

ReportedUp_Silent(s, reason) ==
  [rt[rt[s].up] EXCEPT !.task[rt[s].slot] = EndedTask(rt[s].up, rt[s].slot, "done")]

ReportedUp_AsShutdown(s, reason) ==
  Reported(rt[s].up, rt[s].slot, "done", "Shutdown")

\* The parent of s once s has returned: start_inner reports its reason.
ReportedUp(s, reason) ==
  LET p == rt[s].up
      r == Reported(p, rt[s].slot, "done", reason)
  IN IF reason = "Abnormal" THEN [r EXCEPT !.ends = @ + 1] ELSE r

\* `run` returns; its channel closes, and the parent, if any, is told why.
Exit(s) ==
  /\ rt[s].work.op \in {"shutdown", "escalate"}
  /\ rt[s].work.todo = <<>>
  /\ LET reason == IF rt[s].work.op = "shutdown" THEN "Shutdown" ELSE "Abnormal"
         stopped == Put(s, [rt[s] EXCEPT !.status = reason, !.queue = <<>>, !.work = Idle])
     IN IF rt[s].up = 0
        THEN /\ rt' = stopped
             /\ answer' = Answered({c \in Client : answer[c] = "waiting"}, "ShuttingDown")
        ELSE /\ rt' = [stopped EXCEPT ![rt[s].up] = ReportedUp(s, reason)]
             /\ UNCHANGED answer
  /\ UNCHANGED <<config, store, bounds>>

(***************************************************************************)
(* Restart rounds.                                                         *)
(***************************************************************************)

\* restart_child.
RestartOne(s) ==
  /\ rt[s].work.op = "one"
  /\ HeadStopped(s)
  /\ \E i \in DOMAIN rt[s].children :
       LET c == rt[s].children[i] IN
       /\ c = Head(rt[s].work.todo)
       /\ rt' = Started(s, [rt[s] EXCEPT !.work = Idle,
                              !.children[i] = WithNewTask(s, @)], c, FALSE)
  /\ UNCHANGED <<config, store, answer, bounds>>

\* restart_all_children, once all are stopped.
DrainAll(s) ==
  /\ rt[s].work.op = "all"
  /\ rt[s].work.todo = <<>>
  /\ rt' = Put(s, [rt[s] EXCEPT !.work = Begin("respawn", rt[s].children),
                     !.children = <<>>])
  /\ UNCHANGED <<config, store, answer, bounds>>

LeavesSupervision(c) == RestartPolicyOf(c) = "Temporary"

RespawnHead_Unstopped(s) ==
  /\ rt[s].work.op \in {"respawn", "from"} /\ rt[s].work.todo # <<>>
  /\ LET c == Head(rt[s].work.todo)
         next == [rt[s] EXCEPT !.work = Advanced(@)]
     IN IF LeavesSupervision(c)
        THEN rt' = Put(s, [next EXCEPT !.tracked = @ \ {c.id}])
        ELSE rt' = Started(s, [next EXCEPT !.work.back = Append(@, WithNewTask(s, c))],
                           c, FALSE)
  /\ UNCHANGED <<config, store, answer, bounds>>

\* One turn of the loop of restart_all_children or restart_from.
RespawnHead(s) ==
  /\ \/ rt[s].work.op = "respawn" /\ rt[s].work.todo # <<>>
     \/ rt[s].work.op = "from" /\ HeadStopped(s)
  /\ LET c == Head(rt[s].work.todo)
         next == [rt[s] EXCEPT !.work = Advanced(@)]
     IN IF LeavesSupervision(c)
        THEN rt' = Put(s, [next EXCEPT !.tracked = @ \ {c.id}])
        ELSE rt' = Started(s, [next EXCEPT !.work.back = Append(@, WithNewTask(s, c))],
                           c, FALSE)
  /\ UNCHANGED <<config, store, answer, bounds>>

EndRound(s) ==
  /\ rt[s].work.op \in {"respawn", "from"}
  /\ rt[s].work.todo = <<>>
  /\ rt' = Put(s, [rt[s] EXCEPT !.children = @ \o rt[s].work.back, !.work = Idle])
  /\ UNCHANGED <<config, store, answer, bounds>>

(***************************************************************************)
(* Workers: run_worker, over the channel of their runtime.                 *)
(***************************************************************************)

At(s, t, pc) == rt[s].task[t].kind = "Worker" /\ rt[s].task[t].pc = pc
Moved(s, t, pc) == [rt[s] EXCEPT !.task[t].pc = pc]

\* What a worker sends through init_tx, if a linked start awaits it.
InitTold(s, t, r, reply) ==
  IF r.work.op = "link" /\ Head(r.work.todo).task = t /\ r.work.reply = "-"
  THEN [r EXCEPT !.work.reply = reply] ELSE r

InitOk(s, t) ==
  /\ At(s, t, "init")
  /\ rt' = Put(s, InitTold(s, t, Moved(s, t, "run"), "Ok"))
  /\ UNCHANGED <<config, store, answer, bounds>>

Fault == faults < config.faults /\ faults' = faults + 1 /\ UNCHANGED <<calls, uses>>
Faulted(r) == [r EXCEPT !.ends = @ + 1]

InitFails(s, t) ==
  /\ At(s, t, "init")
  /\ Fault
  /\ rt' = Put(s, Faulted(InitTold(s, t, Moved(s, t, "initerr"), "Err")))
  /\ UNCHANGED <<config, store, answer>>

ReportInitFailure(s, t) ==
  /\ At(s, t, "initerr")
  /\ rt' = Put(s, Reported(s, t, "failed", "Abnormal"))
  /\ UNCHANGED <<config, store, answer, bounds>>

\* The select! of run_worker: the signal, or the end of run().
ShutdownSeen(s, t) ==
  /\ At(s, t, "run")
  /\ rt[s].task[t].signal \/ rt[s].task[t].abort
  /\ rt' = Put(s, [Moved(s, t, "hook") EXCEPT !.task[t].reason = "Shutdown"])
  /\ UNCHANGED <<config, store, answer, bounds>>

RunReturns(s, t) ==
  /\ At(s, t, "run")
  /\ Fault
  /\ \E reason \in {"Normal", "Abnormal"} :
       rt' = Put(s, Faulted([Moved(s, t, "hook") EXCEPT !.task[t].reason = reason]))
  /\ UNCHANGED <<config, store, answer>>

HookReturns(s, t) ==
  /\ At(s, t, "hook")
  /\ rt' = Put(s, Reported(s, t, "done", rt[s].task[t].reason))
  /\ UNCHANGED <<config, store, answer, bounds>>

\* An aborted task ends at an await, hence not inside a closure.
Cancelled(s, t) ==
  /\ rt[s].task[t].abort
  /\ \E pc \in {"init", "run", "hook"} : At(s, t, pc)
  /\ rt' = Put(s, [rt[s] EXCEPT !.task[t] = EndedTask(s, t, "cancelled")])
  /\ UNCHANGED <<config, store, answer, bounds>>

\* A panic ends the task without a report; init_tx is dropped.
Panic(s, t) ==
  /\ \E pc \in {"init", "run", "hook"} : At(s, t, pc)
  /\ Fault
  /\ rt' = Put(s, Faulted(InitTold(s, t,
             [rt[s] EXCEPT !.task[t] = EndedTask(s, t, "panicked")], "Closed")))
  /\ UNCHANGED <<config, store, answer>>

(***************************************************************************)
(* WorkerContext: each operation holds the lock of the shard the key is    *)
(* in, `update` all the while its closure runs.  One key; -1: absent.      *)
(***************************************************************************)

Use == uses < config.uses /\ uses' = uses + 1 /\ UNCHANGED <<calls, faults>>

Ctx(s) == store[rt[s].node]
StoreWith(s, e) == [store EXCEPT ![rt[s].node] = e]

Increment(v) == IF v = -1 THEN 1 ELSE v + 1

\* update: the entry is locked and its value read.
UpdateBegins(s, t) ==
  /\ At(s, t, "run")
  /\ Use
  /\ Ctx(s).holder = <<>>
  /\ store' = StoreWith(s, [Ctx(s) EXCEPT !.holder = <<s, t, Ctx(s).value>>])
  /\ rt' = Put(s, Moved(s, t, "update"))
  /\ UNCHANGED <<config, answer>>

\* The closure has returned Some(new value), or None to remove the key.
UpdateEnds(s, t) ==
  /\ At(s, t, "update")
  /\ Ctx(s).holder # <<>> /\ Ctx(s).holder[1] = s /\ Ctx(s).holder[2] = t
  /\ \/ store' = StoreWith(s, [value |-> Increment(Ctx(s).holder[3]),
                               expected |-> Increment(Ctx(s).expected), holder |-> <<>>])
     \/ store' = StoreWith(s, [value |-> -1, expected |-> -1, holder |-> <<>>])
  /\ rt' = Put(s, Moved(s, t, "run"))
  /\ UNCHANGED <<config, answer, bounds>>

SetOrDelete_Unlocked(s, t) ==
  /\ At(s, t, "run")
  /\ Use
  /\ \E v \in {-1, 0} : store' = StoreWith(s, [Ctx(s) EXCEPT !.value = v, !.expected = v])
  /\ UNCHANGED <<config, rt, answer>>

\* set or delete.
SetOrDelete(s, t) ==
  /\ At(s, t, "run")
  /\ Use
  /\ Ctx(s).holder = <<>>
  /\ \E v \in {-1, 0} : store' = StoreWith(s, [Ctx(s) EXCEPT !.value = v, !.expected = v])
  /\ UNCHANGED <<config, rt, answer>>

(***************************************************************************)
(* The specification.                                                      *)
(***************************************************************************)

Serves(s) ==
  \/ HandleQuery(s) \/ RefuseDuplicate(s) \/ HandleStartChild(s) \/ RefuseUnknown(s)
  \/ IgnoreReport(s) \/ DropChild(s) \/ Escalate(s) \/ Restart(s)
  \/ HandleRestartChild(s) \/ HandleStartChildLinked(s) \/ LinkOk(s)
  \/ \E a \in {"InitializationFailed", "InitializationTimeout"} : LinkFails(s, a)
  \/ HandleTerminateChild(s) \/ HandleShutdown(s)
  \/ BeginStop(s) \/ StopTimesOut(s) \/ FinishTerminate(s) \/ StopNext(s) \/ Exit(s)
  \/ RestartOne(s) \/ DrainAll(s) \/ RespawnHead(s) \/ EndRound(s)

\* What a worker does of its own accord.
Runs(s, t) ==
  \/ InitOk(s, t) \/ InitFails(s, t) \/ ShutdownSeen(s, t) \/ RunReturns(s, t)
  \/ HookReturns(s, t) \/ Panic(s, t) \/ UpdateBegins(s, t) \/ SetOrDelete(s, t)

\* What a task does as soon as it is scheduled.
MustRun(s, t) == ReportInitFailure(s, t) \/ Cancelled(s, t) \/ UpdateEnds(s, t)

Scheduled ==
  \E s \in DOMAIN rt :
    Serves(s) \/ TimerFires(s) \/ \E t \in DOMAIN rt[s].task : MustRun(s, t)

Next ==
  \/ Scheduled
  \/ \E c \in Client, k \in config.asks : Call(c, k)
  \/ \E s \in DOMAIN rt : \E t \in DOMAIN rt[s].task : Runs(s, t)

Spec == Init /\ [][Next]_vars

\* Tokio goes on with some ready task or elapsed timer as long as there is one,
\* and a closure given to `update` returns.  Nothing is assumed of initialize,
\* run or the hook, nor of callers.
FairSpec == Spec /\ WF_vars(Scheduled)

(***************************************************************************)
(* Properties.                                                             *)
(***************************************************************************)

Contexts == [value : Int, expected : Int, holder : Seq(Int)]

VarTypes ==
  /\ config \in Trees
  /\ rt \in Seq(Runtime)
  /\ store \in [DOMAIN config.nodes -> Contexts]
  /\ answer \in [Client -> Answer]
  /\ calls \in 0..config.calls
  /\ faults \in 0..config.faults
  /\ uses \in 0..config.uses

\* Every runtime but the root runs as a task of an earlier one, which lists it
\* under the name of its specification.
TreeShape ==
  \A s \in 2..Len(rt) :
    LET p == rt[s].up IN
    /\ p \in 1..(s - 1)
    /\ rt[s].slot \in DOMAIN rt[p].task
    /\ rt[p].task[rt[s].slot].kind = "Supervisor"
    /\ rt[p].task[rt[s].slot].id = SpecOf(s).name

\* The variables have their types and the runtimes form a tree, also after
\* subtrees were started anew in the middle of it (start_inner, respawn).
TypeOK == VarTypes /\ TreeShape

Held(s) == SetOf(rt[s].children) \cup SetOf(rt[s].work.todo) \cup SetOf(rt[s].work.back)

\* The parent of s has sent it Shutdown.
WasTold(s) == rt[rt[s].up].task[rt[s].slot].signal

\* Nothing in the tree is out of control: a runtime that still runs is the root,
\* or a child that a running parent holds, or it was told to stop and the message
\* is on its way or being carried out; likewise a worker that was not aborted is
\* held by a running supervisor (new, respawn, shutdown_children, Drop).
NoOrphanInTree ==
  \A s \in DOMAIN rt :
    /\ rt[s].status = "running" /\ s > 1 =>
         \/ rt[s].work.op \in {"shutdown", "escalate"}
         \/ \E k \in DOMAIN rt[s].queue : rt[s].queue[k].cmd = "Shutdown"
         \/ /\ rt[rt[s].up].status = "running"
            /\ \E c \in Held(rt[s].up) : c.kind = "Supervisor" /\ c.task = rt[s].slot
    /\ \A t \in DOMAIN rt[s].task :
         rt[s].task[t].kind = "Worker" /\ ~Ended(s, t) /\ ~rt[s].task[t].abort =>
           rt[s].status = "running" /\ \E c \in Held(s) : c.task = t

\* Two incarnations of one nested supervisor, and so two workers of each of its
\* ids, run beside each other only once the older one was told to stop: in every
\* strategy the shutdown precedes the respawn, also when the older one is itself
\* in the middle of a round (respawn, restart_all_children, restart_from).
OverlapOnlyOnceTold ==
  \A s, u \in DOMAIN rt :
    /\ s < u
    /\ rt[s].node = rt[u].node
    /\ rt[s].up = rt[u].up
    => rt[s].status # "running" \/ WasTold(s)

\* A nested supervisor that has stopped is not left in the list of its parent as
\* a dead handle: the parent has its report still to read, is waiting for the
\* delay of its restart, or is stopping it in order to replace it (start_inner's
\* report; the reason it exists is given there).
NoDeadHandle ==
  \A s \in DOMAIN rt :
    rt[s].status = "running" =>
      \A c \in SetOf(rt[s].children) :
        c.kind = "Supervisor" /\ Ended(s, c.task) =>
          \/ \E k \in DOMAIN rt[s].queue :
               rt[s].queue[k].cmd \in {"ChildTerminated", "RestartChild"} /\ rt[s].queue[k].by = c.task
          \/ \E m \in rt[s].timers : m.by = c.task
          \/ rt[s].work.op = "one" /\ Head(rt[s].work.todo) = c
          \/ rt[s].work.op = "all"

\* The operations on a context take effect one at a time, whatever workers of
\* whatever incarnation use it at once, and survive every restart: the value is
\* the one they give when applied in the order they finish.
ContextLinearizable ==
  \A n \in DOMAIN store : store[n].value = store[n].expected

\* A shutdown of the root brings the whole tree down: every runtime it ever
\* started returns and every worker ends.
TreeComesDown ==
  (\E k \in DOMAIN rt[1].queue : rt[1].queue[k].cmd = "Shutdown")
    ~> \A s \in DOMAIN rt : rt[s].status # "running" /\ \A t \in DOMAIN rt[s].task : Ended(s, t)

\* A runtime that was told to stop and has not, or has left a task behind.
Lingers(s) ==
  /\ s > 1 /\ WasTold(s)
  /\ rt[s].status = "running" \/ \E t \in DOMAIN rt[s].task : ~Ended(s, t)

\* A nested supervisor that was told to stop does stop, with all it started,
\* although nobody waits for it: the overlap with its successor ends.
OverlapEnds == []<>(\A s \in DOMAIN rt : ~Lingers(s))

(***************************************************************************)
(* The root runtime implements Supervisor, in which a nested supervisor is *)
(* a single task that stops some time after it was told to, or escalates.  *)
(***************************************************************************)

AsSeen(t) == IF t.pc = "update" THEN [t EXCEPT !.pc = "run"] ELSE t

Root == INSTANCE Supervisor WITH
  Configs   <- {c.nodes[1] : c \in Trees},
  Calls     <- UNION {c.asks : c \in Trees},
  MaxFaults <- MaxFaults + MaxFaults,
  Panics    <- TRUE,
  Blocks    <- FALSE,
  config    <- config.nodes[1],
  status    <- rt[1].status,
  queue     <- rt[1].queue,
  children  <- rt[1].children,
  work      <- rt[1].work,
  recent    <- rt[1].recent,
  tracked   <- rt[1].tracked,
  timers    <- rt[1].timers,
  task      <- [t \in DOMAIN rt[1].task |-> AsSeen(rt[1].task[t])],
  faults    <- rt[1].ends,
  rounds    <- rt[1].rounds

\* What the parent of a subtree may rely on: seen from the root, nested runtimes
\* behave as Supervisor assumes they do, whatever happens inside them.
ImplementsSupervisor == Root!Spec

================================================================================
