# ash-flare in TLA+

Specifications of [ash-flare](../src/README.md), an Erlang/OTP-style supervision
library for Tokio, with the TLC runs that check them and the TLAPS proofs about them.
Line numbers refer to the files under `src/src/`.

| module | what it is |
| --- | --- |
| `RestartPolicy` | vocabulary of supervision and the pure part of the restart decision |
| `Supervisor` | one supervisor, its tasks, its timers, its callers: the core |
| `MCSupervisor` | the instances of `Supervisor` that TLC checks |
| `SupervisorProofs` | type correctness, the inductive invariant and four safety theorems |
| `SupervisorRounds` | that backoff is kept for supervised children only, rounds stay within the budget, no round swaps two children, and no child is lost |
| `ChildLists`, `ChildListProofs` | what both supervisors do to a list of children, and what that keeps |
| `RestartAccounting` | the trackers behind the restart decision, with a clock and integer widths |
| `RestartBudget` | what a restart intensity promises, which `RestartAccounting` implements |
| `MCRestartAccounting` | the instances of `RestartAccounting` that TLC checks |
| `AccountingProofs` | the implementation, that no window holds too many restarts, that no width overflows and delays double |
| `SpecBuilder` | how a specification is built: the builder, the macro, the Python class |
| `StatefulTree` | every runtime of a tree of stateful supervisors, and the contexts their workers share |
| `MCStatefulTree` | the trees that TLC explores |
| `SpecTrees` | the shape of a tree of specifications |
| `TreeProofs` | that runtimes stay a tree, nothing is orphaned, replaced runtimes were told to stop, no dead handle stays, operations on a context take effect one at a time |
| `StatefulSpecBuilder` | the builder, macro and Python class of stateful specifications |
| `BuilderProofs` | that every worker gets the context of its own specification, and that builders yield the trees `StatefulTree` assumes |
| `RemoteCalls` | what a caller of a remote handle may rely on |
| `Distributed` | connections, frames, server tasks and faults, which implement `RemoteCalls` |
| `MCDistributed` | the instance of `Distributed` that TLC checks |
| `DistributedProofs` | the implementation, and that a shutdown is final |
| `Mailbox` | a mailbox and its operations |
| `PythonWorkers` | Python threads, the GIL, supervised callables, a mailbox |
| `MCPythonWorkers` | the callables and threads that TLC explores |
| `PythonProofs` | types and places, the mailbox's capacity, overlaps, one entry per incarnation |

## 1. The system

### Components

| component | state | operations | modelled |
| --- | --- | --- | --- |
| supervisor runtime (`supervisor/runtime.rs`) | children list, command channel, restart and backoff trackers | one handler per `SupervisorCommand`; restart rounds; shutdown | yes |
| supervisor handle (`supervisor/handle.rs`) | name and sender | start (linked or not), terminate, three queries, shutdown | yes |
| child (`supervisor/child.rs`) | worker process, or nested handle with its spec | policy, shutdown | yes |
| specification, errors (`supervisor/spec.rs`, `error.rs`) | children, strategy, intensity, backoff, timeout | builder | builder; no duplicate ids |
| restart decision (`supervisor_common.rs`, `restart.rs`) | none of its own | `decide_restart` | yes |
| restart accounting (`restart.rs`) | restart times, attempts per child | `record_restart`, `next_delay`, `reset_child`, `delay_for_attempt` | yes |
| worker task (`supervisor_common.rs`, `worker.rs`) | where `run_worker` is, shutdown watch, join handle | initialize, run, hook, report; spawn, stop, drop | yes |
| shutdown signal (`types.rs`) | watch channel | `cancelled` | partly, as flags |
| nested supervisor | a whole subtree | stops when told, escalates | as a black box in `Supervisor`, in full in `StatefulTree` |
| stateful supervisor (`supervisor_stateful.rs`) | as the runtime, plus a context shared by the workers of its specification | the same handlers, repeated | yes |
| worker context (`types.rs`) | concurrent map | get, set, delete, update | yes |
| distributed (`distributed.rs`) | one connection per call, one server task per connection | remote commands, framing, accepting | yes |
| mailbox (`mailbox.rs`) | bounded or unbounded queue | send, try_send, recv, try_recv | yes |
| macros (`macros.rs`) | none | write builder calls, worker impls, servers and clients | those that build specifications |
| Python bindings (`python/`) | GIL, a thread per running callable, a watcher, a mutex around the mailbox | handles, `PyWorker`, mailboxes, specifications | partly: no conversions, no remote handle |
| crate root (`lib.rs`) | none | re-exports | no |

### How they interact

A supervisor is one task that takes commands from one unbounded FIFO channel.
Callers of its handle, workers that end, nested supervisors that end and the timers
of deferred restarts all send to it. A caller awaits its answer on a oneshot
channel. A worker is a task of its own: the supervisor starts it, may signal it
(a watch channel), wait for it with a timeout, abort and join it, or abort it by
dropping it. A linked start makes the supervisor wait for the worker's
`initialize` before it takes the next command. A nested supervisor is only told to
shut down, through its own channel, and nobody waits for it; it reports its end upwards
like a worker. The workers of one stateful specification share a context, whose
entries are locked while an operation (or the closure of `update`) runs.

A remote handle opens a connection for every call, sends one frame and reads one; the
server has a task per connection, which calls the supervisor's handle and waits
for its answer. Python threads call handles with the GIL released; a supervised Python
callable runs on a thread of Tokio's blocking pool, which cannot be
interrupted, and learns from a flag that it should stop.

### What is hard

* A report names its child by id. Between the report and its handling, restart
  rounds, terminations and starts can put another incarnation, or another child
  altogether, under that id.
* Deferred restarts come back through the same channel and are looked up again.
* The supervisor is deaf while it awaits a stop or an initialization; tasks go on
  meanwhile, and their reports queue up.
* A stop races the end of the worker; an abort takes effect at an await, which may
  never come.
* A round takes the children list apart and rebuilds it around awaits.
* Bookkeeping (intensity, backoff) has to agree with what is really restarted.
* An old and a new incarnation of a subtree run beside each other for a while, each with
  its own queue, timers and rounds, and share their context.
* Once a remote call fails, the caller knows neither whether it took effect
  nor whether it still will.
* A Python body outlives the task that waits for it; its successor starts beside it.
  Whoever waits with the GIL in hand stops everybody.

`PROJECT.json` lists each of these as a hazard at its line, with the properties
that would catch it.

### What makes a component correct

* supervisor: an id names one child at most; no task runs that nobody will stop; two
  incarnations of a worker never overlap; a dead child is restarted, dropped or taken
  down; the budget of restarts holds; the start order survives; strategies keep what
  they promise; healthy children are left alone; callers are answered; a shutdown ends.
* worker task: exactly one report unless aborted (or panicked); the hook runs after
  `run`; a stop returns only when the task has ended.
* accounting: the window forgets only what is old; delays grow up to the ceiling and
  start again for a healthy child.
* stateful supervisor: a subtree looks to its parent as one task that stops when told; no
  runtime runs that nobody will stop; a dead handle is replaced; a shutdown brings the
  whole tree down. The context survives restarts and loses no update.
* distributed: a command takes effect at most once and atomically; an answer is true; a
  failed call says nothing; nobody is held up by somebody else's connection.
* mailbox: capacity kept, no sender left waiting beside a free place.
* Python worker: one body at a time unless the older one was told and given up; entered
  once; a body that asks is told; nobody waits for the supervisor with the GIL in hand.

## 2. `Supervisor` and the code

State: `children` is `self.children`; `queue` is `control_rx`; `work` is the handler
that awaits, if any (see below); `recent` counts `restart_tracker.restart_times`;
`tracked` holds the keys of `backoff_tracker.state`; `timers` are the sleeping tasks
of `defer_restart`; `task` records every task ever spawned, and the index of a task is
its incarnation; `answer` is what each caller got last. `rounds` is a history variable.

Handlers that do not await are one action each. A handler that awaits is split at its
awaits: its first action moves the children it works on into `work.todo` and sets
`work.op`, and the loop of the handler turns `work.todo` down:

| `work.op` | handler | `todo` | `back` |
| --- | --- | --- | --- |
| `link` | `handle_start_child_linked` 198-272 | the worker awaited | |
| `terminate` | `handle_terminate_child` 274-291 | the child removed | |
| `one` | `restart_child` 422-433 | the child, still listed | |
| `all`, then `respawn` | `restart_all_children` 435-469 | children to stop (still listed), then the drained list | `kept` |
| `from` | `restart_from` 509-539 | what `split_off` returned | `kept` |
| `shutdown`, `escalate` | `shutdown_children` 541-551, then `run` returns | the drained list | |

Every stop (`Child::shutdown`, `WorkerProcess::stop`) is `BeginStop`, possibly
`StopTimesOut`, and `HeadStopped` as the guard of whatever follows. With a zero
timeout the abort comes with the signal. `stop` returns when the task was joined;
`shutdown` of a nested supervisor returns at once.

`decide_restart` is `IgnoreReport`, `DropChild`, `Escalate`, `RestartNow` and
`RestartLater`: one action per decision, the guard of each being the conditions of the
code in their order, its effect the tracker updates and the carrying out in
`handle_child_terminated`.

A worker task goes `init` → `run` → `hook` → `done`, with `initerr` between telling
`init_tx` and reporting (no await there), and `blocked` for a `run` that holds its
thread. Tokio drops an aborted task at an await, so steps past an await remain
possible after the abort: the poll under way runs to its end. A worker that panics
ends without a report; in the code nothing catches the unwinding.

Everything is looked up by id, as in the code. Reports and deferred restarts carry
the incarnation they are about (`by`) for the properties' sake; no guard reads it.

What is abstracted: durations (a timeout or a sleep may end at any time, which covers
every duration; `delayed` and `patient` keep the two that the code compares with zero),
the restart window (see `Expiry`), error texts, names, and callers that give up while
they wait (the answer is then lost, nothing else changes). The two queues that the
code does not bound are not bounded here. Assumed: the children of a specification
have distinct ids (`ConfigsAssumption`); the Rust builder does not check it
(`spec.rs` 40), and with duplicates the second child could never be terminated or
reported by its id. `run` never sees its channel closed, as the runtime holds a sender
itself; lines 175-176 are unreachable and not modelled.

Operators `X_Y` written before `X` are `X` with a plausible mistake, used to show that
the properties notice (section 4).

### `RestartAccounting` and the code

`restart_times` and `state` are the fields of the two trackers (`restart.rs` 175-246), `now` is
`Instant::now()`; one action per operation that a supervisor performs on them. `Restart` and
`Escalate` are the two ends of `decide_restart` (`supervisor_common.rs` 71-78): both record the
restart, only the first asks for a delay. `reset_child` is what every way out of
supervision calls. `Tick` is the monotonic clock; between two ticks any number of
operations may happen, so equal instants are covered. `granted` and `given` are history.

The arithmetic is the code's: `checked_sub` falls back to the present (`Cutoff`),
`checked_shl`, `try_from` and `checked_mul` saturate each in its own way (`Factor`,
`delay_for_attempt`), the count of attempts saturates, `checked_add` falls back to the
present. The widths are constants: the proofs hold for all of them, the runs take
small ones so that every limit is met. Time is in ticks: an intensity's window and
a backoff's durations are numbers of them. A child that is restarted is taken to have ended when the
decision is made, as the code does; the time its report waited in the queue is not
told apart.

`RestartBudget` has no trackers: it counts all restarts ever granted that lie in the window.
`Supervisor` abstracts the same decision further: `recent` is the number of
remembered restarts, `Expiry` says whether they may leave the window, `tracked` is
`DOMAIN state`.

### `StatefulTree` and the code

`rt` is the sequence of all runtimes ever started, in order of creation: `up` and `slot` say
which runtime started it and as which of its tasks, `node` from which specification. A
runtime is the record of what `Supervisor` keeps in variables, and its handlers are those of
`supervisor_stateful.rs`, which repeats `runtime.rs` line for line (the map names the
repeated lines). What is new lies between runtimes:

* `Subtree` is `start_inner`: it starts a runtime and, by its `new`, those of the specifications
  nested in it. It is called at the start and by every respawn.
* Stopping a nested child is `Tell`: a `Shutdown` put into its queue. The parent goes
  on at once; the child stops when it gets to it, perhaps after a round.
* A runtime that returns (`Exit`) sends `ChildTerminated` to its parent, by `ReportedUp`, and with
  it the task that ran it ends.

`store` holds a context per specification, since `new` of a specification makes it and every
worker of every incarnation gets a clone; the module `BuilderProofs` proves that the builder
makes it so. One key is enough: entries are independent. `holder` is the lock of the entry
while the closure of `update` runs (`pc = "update"`; the closure cannot be aborted);
`expected` is history, the value that the operations give when they are applied one
after the other. Reads change nothing.

The root refines `Supervisor`: `Root == INSTANCE Supervisor WITH ...` reads its variables off
`rt[1]`. A worker inside a closure is seen as running; a nested supervisor that escalates or
stops is what `Supervisor` models as `NestedEscalates` and `NestedStops`.

### `RemoteCalls`, `Distributed` and the code

A connection is one call of a `RemoteSupervisorHandle`. `at` is where the caller is in
`send_command`, `task` where the server's task is in `handle_connection`; `up` and `down` say how
much of the request and of the reply was written: nothing, the length (or a part of the body), or
the whole frame. `cut` means that both ends know that the connection is gone,
`silent` that it is gone and neither will ever know. `sup` is the supervisor behind the server,
reduced to its queue and its children. Faults: a connection breaks (`Break`), a
peer falls silent, a caller gives up (drops the future), `accept` fails, which ends the listener
for good, the serving process crashes and another one starts (`Crash`, `Listen`), and a worker
ends. Frames too long are refused by the sender before anything is written.

`RemoteCalls` has no connections: a request asks its operations of the supervisor one at a
time (`Status` asks three), a call that returns has asked all of them, a call that fails may
have been or may still be carried out. The refinement lets an operation take effect when it is put
into the supervisor's queue: `Drained` is the supervisor once it has served what is queued.
That is what makes a shutdown, which is not awaited, final for calls made later. `due` is
history: the answers that are fixed but not given yet. `late`, `acked` and `life` remember
which calls were made after a shutdown was acknowledged, in which process.

### `PythonWorkers`, `Mailbox` and the code

Threads are callers and bodies; `place` says where each is, `gil` and `lock` who holds the GIL and
the mutex in `PyMailbox`. `Detached` is `block_on_without_gil`. A body is a thread of
the blocking pool, of which there are `setup.threads`; it waits (`queued`) while the pool is
full. An incarnation of `PyWorker` (`run[i]`) is its `run_worker` task, the watcher that `run` spawns
and the flag behind `should_stop`. `ShutdownSeen` drops `run` and calls `shutdown`, which
raises the flag and joins the body; `StopTimesOut` aborts the task, and the body is on its own.
`call_with_optional_args` is `Candidates`, `Accepted` and `Retried`: a callable whose signature
can be read is called once; otherwise candidates are tried until one is not refused.

`Mailbox` is the channel: Tokio hands a freed place to the sender that waited longest, which
puts its message when it runs next (`granted`). What messages say, and so their
order, is left to the channel.

### Builders

`SpecBuilder` and `StatefulSpecBuilder` are the methods of the builders, `supervision_tree!`,
`stateful_supervision_tree!` and the Python specification classes, as functions on specifications. A
stateful specification is the sequence of itself and those nested in it, in the order in
which their runtimes start; the context that `new` makes is an argument of `new`. The Python
classes refuse an id that is taken, a thing that cannot be called and a duration that is
none; `add_supervisor` does not check the name. The instances of the runs `rounds`, `calls`
and `tree` and of the others that use `Supervisor` are built with these operators, so that
what the runs start from is what a program can build.

## 3. Runs

`accounting` and `long_window` instantiate `RestartAccounting`, `tree`, `remote` and `python` the
modules of those parts, all others `Supervisor` through `MCSupervisor`. Bounds: `MaxCalls`
calls on handles and `MaxFaults` faults in a behaviour (a worker ends, fails, panics
or blocks of its own accord, a nested supervisor escalates, a connection breaks). Both bound the
causes; what follows from them is unbounded. In `tree` and `python` each tree and each setup
has bounds of its own, so that depth, calls and faults are not all multiplied with each
other. `CHECK_DEADLOCK FALSE` everywhere: a supervisor whose clients are silent and whose workers run
on has nothing to do, and a stopped one never will; in the accounting runs, no more happens when
the supervisor has escalated and the clock has reached `Latest`; a sender at a full mailbox
that nobody reads really waits for ever.

| run | instance | what it shows |
| --- | --- | --- |
| `rounds` (`Rounds.cfg`) | a permanent worker, a nested supervisor and a transient or temporary worker; each strategy; intensity 1 and 2; with backoff and timeout, and without; 2 faults, 1 termination | the child list, the tasks, the trackers and the order are right during and after every round: `TypeOK`, `UniqueIds`, `NoOrphan`, `OneIncarnation`, `NoLostChild`, `BackoffOnlyForSupervised`, `RoundsWithinBudget`, `NoMixedGenerations`, `StartOrderKept` |
| `calls` (`Calls.cfg`) | one id, two clients, 3 calls out of five, 2 faults with panics and blocked threads, restarts may leave the window | starts, stops, stale reports, deferred restarts, timeouts and shutdown in any order: `UniqueIds`, `NoOrphan`, `OneIncarnation`, `NoLostChild` |
| `liveness` (`Liveness.cfg`) | a worker and a nested supervisor, each strategy, one client, 2 calls, 1 fault, fair runtime | `DeadChildHandled`, `CallsReturn`, `ShutdownCompletes` |
| `panic_lost`, `stale_drop`, `temporary_restart`, `linked_failure` | the smallest instance in which it happens | findings 1 to 4 (section 6) |
| `accounting` (`Accounting.cfg`) | two children; limits of 0 to 3 restarts in windows of 0 to 3 ticks, all within the clock's reach; backoffs without a delay, with one beyond its ceiling, with a ceiling that doubling hits exactly and one that it does not; 4 ticks; small widths, so that shift, factor, product, count of attempts and the sum of instants all saturate | restarts are granted and refused exactly as the budget says (`ImplementsBudget`), no window holds more than its share (`WithinBudget`), delays double and start over as documented although every width is exceeded (`DelaysDouble`), and nothing leaves its width (`TypeOK`) |
| `long_window` (`LongWindow.cfg`) | a window longer than the clock reaches back | finding 5 |
| `tree` (`Tree.cfg`) | a worker beside a nested supervisor under each strategy, with and without delays and timeouts (1 fault anywhere, 1 call; under `OneForAll` also 2 faults); three levels, 2 faults; workers started and terminated beside a nested supervisor, 2 calls; two workers and their context, 3 uses | a subtree is, for its parent, the black box that `Supervisor` takes it for (`ImplementsSupervisor`); incarnations overlap only when the older was told (`OverlapOnlyOnceTold`) and not for ever (`OverlapEnds`); nothing runs that nobody stops (`NoOrphanInTree`), no dead handle is kept (`NoDeadHandle`), no update is lost (`ContextLinearizable`), a shutdown reaches every leaf (`TreeComesDown`) |
| `remote` (`Remote.cfg`) | two clients, 2 calls out of all commands, an id too long for a frame, two children of which a frame can list one, 1 fault of any kind | calls are atomic, happen at most once, and their answers are true (`ImplementsRemoteCalls`); `ShutdownIsFinal`; a status that has lost the strategy reports nothing else either (`StatusNotMixed`); only a silent connection of one's own holds a caller (`CallsReturn`) |
| `python` (`Python.cfg`) | one calling thread; callables that obey `should_stop`, read the mailbox or do neither, with and without arguments, and two whose signature is unknown; pools of one and two threads; mailboxes of capacity 1 and unbounded; two incarnations, up to 3 calls, 2 faults | `NoSilentOverlap`, `EnteredOnce`, `MailboxBounded`, `CallsReturn`, `AbandonedBodyEnds` |

Why the bounds are enough to be interesting: two faults are the least that make a
report stale (the second child ends while the first one's round runs) or that make a
restart meet a pending restart, and the least that exceed an intensity of 1; three
children are the least in which `RestForOne` has something before, at and after the
failed one; three calls are the least that terminate a child, start its id again and
do something to it. In a tree, three levels are the least with a supervisor that is child and
parent at once, and two faults the least that make a subtree escalate while its parent's round
is replacing it; two calls with one fault are the least in which a call that failed takes
effect after a later one, and a list longer than a frame the least that loses an answer without a
broken connection; two incarnations are the least that overlap. `Calls` uses symmetry of the clients, on which no operator
depends; no liveness property is checked with symmetry.

Fairness (`FairSpec`): the runtime's task is polled while it can go on, a sleep ends,
and a task that was aborted, that has an initialization failure to report, or a nested
supervisor that was told to stop, gets on. All of that is Tokio's scheduling of ready
tasks and timers. A timeout of the supervisor is part of its task's fairness: either
what it waits for happens or the timer does. Nothing is assumed of callers or of user code: `initialize`,
`run` and the hook may take forever, which is why `DeadChildHandled` and
`CallsReturn` depend on the timeouts and the abort. The exception is a `run` that
holds its thread: with `Blocks` the supervisor may wait for it forever (`stop` joins after
the abort), so the liveness run excludes it; `NoOrphan` and the others are checked with
it (`calls`).

`tree` and `remote` assume only that the runtime goes on with some ready task or timer while
there is one (`WF_vars(Scheduled)`), the closures of `update` being among them: that is enough,
as the causes are bounded and no task spins. `python` needs more: the runtime goes on; a
thread in Python gives the GIL up (the interpreter's switch interval) and every thread that
asks for it again and again gets it (`SF_vars(Attach(t))`); the mutex around the mailbox is granted; a
callable is entered, and a body that polls does so again and again. Nothing is assumed of
callers, of bodies that do not poll, or of the network.

## 4. The properties bite

Each property of a passing run is broken by a mutation of the code's model:

| property | mutated | as |
| --- | --- | --- |
| `TypeOK` | `Advanced` | the next child is taken for asked because the previous one was |
| `UniqueIds` (rounds) | `DrainAll` | the list is copied, not drained |
| `UniqueIds` (calls) | `Listed` | a start does not check the id |
| `NoOrphan` (rounds) | `RemoveAt` | removal truncates the list |
| `NoOrphan` (calls), `OneIncarnation` (rounds) | `HeadStopped` | a stop does not join |
| `OneIncarnation` (calls) | `Dropped` | dropping a worker detaches it |
| `NoLostChild` (rounds) | `IsOwnDoing` | a normal exit is ignored like a requested one |
| `NoLostChild` (calls) | `Reports` | linked workers do not report |
| `BackoffOnlyForSupervised` | `Forgotten` | the tracker never forgets a child |
| `RoundsWithinBudget` | `Exceeded` | one restart too many |
| `NoMixedGenerations` | `DrainAll` | respawning begins before all are stopped |
| `StartOrderKept` | `EndRound` | kept children are put in front |
| `DeadChildHandled` | `TimerFires` | the deferred restart is lost |
| `CallsReturn` | `LinkFails` | no timeout for the initialization |
| `ShutdownCompletes` | `StopTimesOut` | no abort after the timeout |
| `TypeOK` (accounting) | `next_delay` | attempts and instants are added without saturation |
| `ImplementsBudget` | `Exceeded` | the limit is refused, not what exceeds it |
| `WithinBudget` | `RecordRestart` | a restart exactly one window old is forgotten |
| `DelaysDouble` | `Healthy` | uptime counts from the decision, not from the end of the delay |
| `TypeOK` (tree) | `Subtree` | every nested runtime reports to the root |
| `NoOrphanInTree` | `LinkFails` | a worker that fails to initialize in time is detached, not aborted |
| `OverlapOnlyOnceTold` | `RespawnHead` | the new subtree is started before the old one was told |
| `NoDeadHandle` | `ReportedUp` | a nested supervisor does not report its end |
| `ContextLinearizable` | `SetOrDelete` | `set` ignores the entry's lock |
| `ImplementsSupervisor` | `ReportedUp` | an escalation is reported as a shutdown |
| `TreeComesDown` | `StopTimesOut` | no abort after the timeout |
| `OverlapEnds` | `Tell` | a nested supervisor is not told |
| `TypeOK` (remote) | `GiveUp` | a call that is given up keeps its stream |
| `ShutdownIsFinal` | `ServeShutdown` | the supervisor goes on serving |
| `StatusNotMixed` | `Ops` | the strategy is asked for last |
| `ImplementsRemoteCalls` | `Queued` | a shutdown goes to the front of the queue |
| `CallsReturn` (remote) | `Accept` | connections are served in turn |
| `TypeOK` (python) | `Put` | a sender keeps the place it was given |
| `MailboxBounded` | `TrySendTo` | `try_send` takes the place given to somebody else |
| `NoSilentOverlap` | `ShutdownSeen` | `shutdown` does not join the body |
| `EnteredOnce` | `Retried` | any `TypeError` is taken for a refused signature |
| `CallsReturn` (python) | `Detached` | the GIL is kept while waiting |
| `AbandonedBodyEnds` | `WatcherTells` | there is no watcher |

## 5. Proofs

For all ids, clients, specifications (without duplicate ids), calls and bounds,
from `ConfigsAssumption`, `CallsAssumption` and `BoundsAssumption` alone:

* `TypeCorrect`: `Spec => []TypeOK` (`SupervisorProofs`). `TypeOK` is inductive: the
  types need the shape of the handler in progress (`WorkShape`), because `Head` and
  `Tail` of `work.todo` are taken.
* `IdsStayUnique`, `NothingOrphaned`, `IncarnationsApart`, `GenerationsApart`:
  `UniqueIds`, `NoOrphan`, `OneIncarnation`, `NoMixedGenerations`
  (`SupervisorProofs`), all from `Safe`: `Spec => []IInv`.

None of the four is inductive. `UniqueIds` alone does not say that a respawned
child's task is the latest of its id; `OneIncarnation` speaks of all pairs of tasks, and a
step that spawns one would have to know that no other task of that id runs. So

    IInv == TypeOK /\ UniqueIds /\ NoOrphan /\ HeldTasks /\ Handled

adds `HeldTasks`, every child in hand runs as the latest task spawned under its id,
and `Handled`, what the handler in progress has established: the head of `todo`
was asked to stop (`HeadAsked`), and in a `OneForAll` round the children no longer
in `todo` are stopped (`RoundStops`). `OneIncarnation` follows: of two tasks of a worker's id,
the earlier one is no child's task by `HeldTasks` and `UniqueIds`, hence by `NoOrphan`
it has ended or was aborted.

The step is proved by classes of actions. `Grows` says that tasks are only added and that
ended, signalled and aborted tasks stay so; `Settles` that no task is spawned and nothing
new is taken in hand; `Spawns` that one task is, under an id nobody else in hand has;
`LetGo` that a child which leaves the hands was stopped or aborted. `GrowsKeeps` derives
the invariant from these; each action then has to show only its class, the unique ids
and what its handler establishes. Lemmas about sequences (`SetOf...`, `Distinct...`) say how ids
and elements behave under the concatenations and splits of the rounds.

About what rounds do to the books of a supervisor (`SupervisorRounds`), from
the same assumptions:

* `BackoffForSupervised`: `Spec => []BackoffOnlyForSupervised`. While a handler works, children
  are in `work.todo` and `work.back` too, but a worker whose linked start is awaited is not yet a
  child; so `Backed` says for each handler which children backoff may be kept for (`Kept`).
* `RoundsCovered`: `Spec => []RoundsWithinBudget`. What is owed (`Owed`: rounds done, timers,
  deferred restarts in the channel) is at most what the tracker counts (`InBudget`), and a step
  that makes it grow records a restart first. That limit holds between any two steps although
  an escalation records one restart beyond it, as it begins no round.
* `OrderSurvives`: `Spec => StartOrderKept`. A round takes the list apart (`SubSeq`, `Head`,
  `Tail`) and concatenates it again; `BeforeConcat` and `BeforeParts` say what that does to
  the order of two ids, `UniqueIds` that an id is in one part only.
* `NothingLost`: `Spec => []NoLostChild`. That some letter is to come for a child whose task has ended
  is not inductive: the report might have been read and ignored, or be about an older task. The
  invariant `Notes` therefore says two things more. A watched child (listed, put back by a round
  or linked, and not being stopped) was neither signalled nor aborted, so no report of it is
  one the code ignores (`Unasked`); and a letter about a task carries the id of that task, so that the
  lookup by id finds the child it is about (`Addressed`).

About a tree (`TreeProofs`), for every tree and bound, from the assumptions of `StatefulTree`:

* `TreeTyped`: `Spec => []TypeOK`, and with it that the runtimes stay a tree (`TreeShape`): a subtree
  started anew in the middle of a run is a contiguous piece of the specification's tree,
  so its runtimes can be numbered behind all others, parents first (`Branch`, `Least`).
* `NothingOrphanedInTree`, `OlderOnesAreTold`, `NoHandleIsDead`: `NoOrphanInTree`, `OverlapOnlyOnceTold`,
  `NoDeadHandle`.
* `UpdatesLinearize`: `Spec => []ContextLinearizable`. The invariant `Exact` says of the update
  under way that the value it read is still the one the finished operations give, which only
  holds because nothing else touches an entry whose lock is held.

The first four rest on one invariant: the types, a tree that is not empty, `Sound` of every
runtime and `TreeOk` of the tree. `Sound` is what one runtime can keep by itself: each child's
task or slot is in one place (`Placed`, `Distinct`), the handler in progress has the right shape
(`Shaped`, `Halted`, `Controlled`), a child that is gone was asked to (`Followed`,
`Unsignalled`, `Unasked`), letters carry the id of what they are about (`Addressed`), and a nested
runtime that has ended is awaited (`Awaited`). `TreeOk` relates a runtime to the one above it: a
slot has one runtime (`OneEach`), incarnations come in order (`InOrder`), and a runtime has what its
slot says, running, told or ended (`Obeys`). `StepInside` reduces a step of one runtime to its
own `Sound` and to what its slots show; only spawning, stopping and exiting touch two
levels. No dead handle stays because an exit is at once a letter in the parent's queue, and
`Awaited` follows that letter through the handler and the timer; an older incarnation was told
because a slot is only spawned anew once its predecessor is `Halted`.

About the trackers (`AccountingProofs`), for every intensity, backoff, clock and width, from
`LimitsAssumption` and `ClockAssumption` and one hypothesis, `ReachesBack`: at the
start, the present less any window is still an instant (finding 5 is what happens otherwise):

* `BudgetKept`: `Spec => []WithinBudget`.
* `TrackerImplements`: `Spec => ImplementsBudget`, the initial condition and the step
  condition of the refinement.

Both rest on one invariant. `WithinBudget` speaks of `granted`, the decisions read
`restart_times`; so `IInv` adds `Remembers`, the tracker holds all restarts but the first `d`
and those `d` are out of the window (`Forgets`), and `Ascending`, restarts are in order of
time, without which popping from the front might stop too early or forget too
much. `Recorded` then says that after `record_restart` the tracker holds exactly the window
and the present, and `Counted` that its length is one more than what the budget counts.

Without that hypothesis:

* `WidthsHold`: `Spec => []TypeOK`. No count of attempts and no instant leaves its width. An
  instant later than the last one is only ever computed, never stored as a start.
* `BackoffDoubles`: `WidthsFit /\ Spec => DelaysDouble`. `WidthsFit` asks that attempts can be
  counted up to the width of the shift, and that the largest factor is at most two to that width, as
  with `u32` and 64 bits. Powers of two are
  only known by recursion, on which the provers cannot do induction; `PowersOfTwo` gets
  what is needed from the library's count of the subsets of a finite set. `Tracked` relates the attempts
  and starts stored to the history of restarts; a start that cannot be represented lies beyond
  every instant of the run, so its child counts as unhealthy until then, as it should.

About remote calls (`DistributedProofs`), for all clients, children, commands and bounds, from
`DistributedAssumption` alone:

* `RemoteCallsImplemented`: `Spec => ImplementsRemoteCalls`, initial condition and step condition.
* `ShutdownFinal`, `StatusWhole`, `RemoteTypes`: the invariants `ShutdownIsFinal`, `StatusNotMixed`,
  `TypeOK`.

The refinement lets an operation take effect, and fixes its answer in `due`, when it is queued; the
answer is given later, by another task, perhaps because the supervisor stopped. What must
be shown is that it is the same answer. `Ahead(s, n)` is the supervisor once it has served the first
`n` messages, and the conjunct `Queues` of the invariant says of the request at place `i` that
its connection's last `due` is the answer of `Ahead(sup, i - 1)`; putting a message
behind changes no `Ahead` before it (`AheadAppend`), serving the first shifts them by one
(`AheadTail`). `Steps` relates `answers` and `due` at each place of a task, `Waits` says which
connection a client waits for, and `Closes` that a process once closed stays closed, for the calls that
`late` marks and from one question of a call to its next. Most steps only move
connections (`Moves`), which keeps each conjunct by one lemma; asking, invoking and a
new process are shown one by one.

About the builders (`BuilderProofs`), for all names, contexts and settings:

* `BuildersKeepContexts`: whatever sequence of builder methods, macro steps and Python methods
  makes a specification, every worker in it holds the context of the specification it is
  listed in, and every nested specification follows one that lists it.
* `PythonIdsStayDistinct`: the Python classes keep ids distinct as long as supervisors are
  added under names of their own.
* `BuildersYieldTrees`: specifications with distinct names come out as a tree (`WellFormed`): each nested
  one is listed once, by one before it, and every subtree is contiguous.

`StatefulTree` rests on the first and the last: it keeps one context per specification and assumes
that shape of its trees (`TreesAssumption`). The invariant is `Built`, and each method is a
lemma or a step.

About Python workers (`PythonProofs`), for all callers, setups, capacities and bounds, from
`PythonAssumption` alone (it keeps the callers apart from the numbers of the threads):

* `TypeCorrect`, `CapacityHeld`, `OverlapExplained`, `NotEnteredAgain`: `TypeOK`, `MailboxBounded`,
  `NoSilentOverlap`, `EnteredOnce`.

Everything a thread can hold is owed to exactly one thread: the GIL and the mutex to a thread
that is where it would hold them, each place given in the mailbox to one sender that waits for
it, each question to the thread that asked (`Asks`). So no step of another thread can take it
away, and the capacity counts correctly. `Doing` and `Tended` say that of all incarnations only
the latest has a task that has not ended; a body of an earlier one that still works was
therefore given up.

Checked by TLC only: `ImplementsSupervisor`, that the root of a tree of stateful supervisors
is a `Supervisor`, and all liveness properties (fairness is out of the prover's reach).

## 6. Findings

1. `panic_lost`: a worker that panics never reports (`supervisor_common.rs` 364-452), so a
   permanent child stays listed, dead, for ever, although `types.rs` 27-28 counts a panic
   as an abnormal termination.
2. `stale_drop`: a report is matched by id only (`runtime.rs` 321). Under `OneForAll` a
   second child that ended before the round is restarted by it, and then its old report drops
   the new, healthy incarnation: what `supervisor_common.rs` 49-54 sets out to prevent.
3. `temporary_restart`: a deferred restart is applied to whatever has the id when
   it fires, a healthy `Temporary` child included (`runtime.rs` 399-411 against 473-474).
4. `linked_failure`: a failed linked start sends `ChildTerminated` too
   (`supervisor_common.rs` 394-400); if the id is in use again by then, the report counts as a
   failure of the new child (`handle.rs` 141-142 says that it triggers no policy).

5. `long_window`: where the present less `within_seconds` is no `Instant` (a machine up for less
   than the window where instants start at boot, or a window meant as "for ever"), the cutoff is the
   present, all earlier restarts are forgotten, and the limit is never reached (`restart.rs`
   195-197 against 59-65).

Noted without a run: `restart.rs` 149 lets delays grow until they saturate at `max_delay`; with an
`initial_delay` of less than `max_delay / u32::MAX` they stop short of it, at
`initial_delay * u32::MAX` (hence the last condition of `DelaysDouble`). `architecture.md` (start-link diagram) applies the restart
policy to a failed linked start, which neither the code nor `handle.rs` does; its
worker diagram calls the hook after a failed `initialize`, and the code does not;
`types.rs` 43 announces no policy for supervisors in `ChildInfo`, and `child.rs` 41
gives `Permanent`.

Also noted: each nested stateful specification has a context of its own, while the doc of
`context()` (`supervisor_stateful.rs` 437) speaks of "this supervisor tree". `types.rs` 156 calls the
store lock-free; the entries of a `DashMap` are behind locks, and a closure of `update` that
touches the store again may wait for itself (left out: the model's closures do not).
`python/supervisor.rs` 21-26 promises that duplicates are refused; `add_supervisor` (108-111) does
not check. `try_recv` of the Python mailbox (`python/mailbox.rs` 114) waits for the mutex while
another thread is in `recv`, so it may block. `python/worker.rs` 196 says that a body is entered
once; a callable without a readable signature that runs no Python frame may be called again
(hence the condition of `EnteredOnce`). A body that was given up goes on reading the
mailbox of its successor.

## 7. Not modelled, and what is left

Not modelled, because TLC would learn nothing from it: serialization formats, logging, the wording of
errors, the crate root, the conversions of `python/types.rs` and `python/context.rs`, the
Python remote handle (a wrapper around `Distributed`'s), the macros that write `Worker`
impls, servers and clients, `ShutdownSignal::never`, examples and demos.

Left out of the models, and why:

* factories that panic: they run in the supervisor's own task and end it with everything it
  holds, so nothing remains to be checked;
* specifications with duplicate ids: everything is looked up by id, and the second child of
  an id is simply unreachable;
* closures of `update` that touch the store again: a deadlock by the contract of `DashMap`;
* the context of a dynamically started worker is whatever the caller passes; the tree
  gives it the specification's;
* a `send` cancelled because its task was aborted: in the model the waiting senders are threads of
  Python, which nothing aborts;
* the order of messages in a mailbox, which is the channel's.

Left to prove: `ImplementsSupervisor` of `StatefulTree`.
