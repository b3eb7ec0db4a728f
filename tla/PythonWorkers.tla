----------------------------- MODULE PythonWorkers -----------------------------
(***************************************************************************)
(* Python on top of the supervisor (python/): threads that share the GIL     *)
(* and call the library, and a supervised callable (PyWorker), which runs on *)
(* a thread of the blocking pool that nothing can interrupt.  Callers and    *)
(* callables use a mailbox (Mailbox.tla); the supervisor of the one worker   *)
(* appears as what it does to it: start, stop within a timeout, restart.     *)
(*                                                                           *)
(* A thread is at "python" while it holds the GIL, at "attach" while it      *)
(* waits for it, and otherwise in a call that has released it.               *)
(*                                                                           *)
(* An operator X_Y written just before X is X with a plausible mistake in    *)
(* it; the specification never uses it.                                      *)
(***************************************************************************)
EXTENDS Mailbox

CONSTANTS
  Caller,   \* Python threads that use handles
  Setups,   \* what is explored
  MaxRuns,  \* bound on incarnations of the worker
  MaxUses, MaxFaults  \* no setup has a larger bound

\* A callable: the positional arguments it takes (`limit` 3: any number), whether
\* its signature can be read, whether calling it runs Python frames; what its
\* body does: "polls" should_stop and never waits long, "receives" in between,
\* or is "deaf".
Callable == [required : 0..3, limit : 0..3, known : BOOLEAN, frames : BOOLEAN,
             body : {"polls", "receives", "deaf"}]

Use == {"send", "try_send", "which_children", "start_child", "start_child_linked",
        "terminate_child", "shutdown"}

\* A callable, with the context of a stateful supervisor or without; a mailbox;
\* the calls that threads make, and bounds on them and on faults.
Setup == [callable : Callable, context : BOOLEAN, capacity : MailboxConfig,
          calls : SUBSET Use, threads : Nat \ {0}, uses : 0..MaxUses, faults : 0..MaxFaults]

ASSUME PythonAssumption ==
  /\ Setups \subseteq Setup
  /\ MaxRuns \in Nat \ {0} /\ MaxUses \in Nat /\ MaxFaults \in Nat
  /\ Caller \cap (1..MaxRuns) = {}  \* the other threads run bodies
  \* starts are bounded by the calls: each one follows a terminate_child
  /\ \A c \in Setups : c.calls \cap {"start_child", "start_child_linked"} # {} =>
       c.faults = 0 /\ c.uses <= MaxRuns

Body == 1..MaxRuns
Thread == Caller \cup Body

VARIABLES
  setup,
  gil,    \* the thread that holds it, as a set that may be empty
  place,  \* where each thread is
  lock,   \* who holds the mutex around the Mailbox, likewise
  box,    \* the mailbox
  run,    \* the incarnations of the worker
  sup,    \* the supervisor
  uses, faults

vars == <<setup, gil, place, lock, box, run, sup, uses, faults>>
bounds == <<uses, faults>>

(***************************************************************************)
(* Calling a callable: call_with_optional_args.                            *)
(***************************************************************************)

\* Richest first: context and should_stop, or fewer.
Candidates == IF setup.context THEN <<2, 1, 0>> ELSE <<1, 0>>

Accepts(n) ==
  n >= setup.callable.required /\ (setup.callable.limit = 3 \/ n <= setup.callable.limit)

\* Candidates that get past the signature, in order.
Accepted == SelectSeq(Candidates, Accepts)

Retried_AnyTypeError(entries) ==
  ~setup.callable.known /\ entries < Len(Accepted)

\* Is an arity-like TypeError out of the body taken for one of the signature,
\* and the next candidate tried?  is_arity_error looks for a traceback.
Retried(entries) ==
  ~setup.callable.known /\ ~setup.callable.frames /\ entries < Len(Accepted)

(***************************************************************************)
(* States.                                                                 *)
(***************************************************************************)

\* PyWorker and its run_worker task.  `signal`: the supervisor's; `told`: the
\* flag behind should_stop; `watch`: is the watcher alive?; `entries`: how often
\* the body was entered; `aborted`: the task did not stop in time.
NewRun == [task |-> "start", signal |-> FALSE, told |-> FALSE, watch |-> FALSE,
           entries |-> 0, ended |-> "-", aborted |-> FALSE]

\* `cur`: the listed incarnation, or 0; `next`: what follows when it has stopped.
NewSup == [at |-> "serve", queue |-> <<>>, cur |-> 1, next |-> [do |-> "-"]]

Init ==
  /\ setup \in Setups
  /\ gil = {}
  /\ place = [t \in Thread |-> IF t \in Caller THEN "attach" ELSE "none"]
  /\ lock = {}
  /\ box = NewMailbox(setup.capacity)
  /\ run = <<NewRun>>
  /\ sup = NewSup
  /\ uses = 0 /\ faults = 0

Pending(i) == place[i] \notin {"none", "done"}
Alive(i) == Pending(i) /\ place[i] # "queued"

(***************************************************************************)
(* The GIL.                                                                *)
(***************************************************************************)

Attach(t) ==
  /\ place[t] = "attach"
  /\ gil = {}
  /\ gil' = {t}
  /\ place' = [place EXCEPT ![t] = "python"]
  /\ UNCHANGED <<setup, lock, box, run, sup, bounds>>

\* The interpreter lets another thread run.
Yield(t) ==
  /\ place[t] = "python"
  /\ gil' = {}
  /\ place' = [place EXCEPT ![t] = "attach"]
  /\ UNCHANGED <<setup, lock, box, run, sup, bounds>>

Detached_HoldsGil(t, p) == gil' = gil /\ place' = [place EXCEPT ![t] = p]

\* block_on_without_gil: thread t waits at p.
Detached(t, p) == gil' = {} /\ place' = [place EXCEPT ![t] = p]

\* The call is over; back to Python.
Returns(t) == place' = [place EXCEPT ![t] = "attach"]

Uses(call) ==
  /\ call \in setup.calls /\ uses < setup.uses
  /\ uses' = uses + 1

InPython(t) == place[t] = "python"
Entered(i) == run[i].entries > 0

\* Thread t runs Python code that may call the library: a caller, or the body of
\* a worker, unless it is deaf.
Free(t) == InPython(t) /\ (t \in Body => Entered(t) /\ setup.callable.body # "deaf")

(***************************************************************************)
(* Mailbox calls: PyMailboxHandle, PyMailbox.                              *)
(***************************************************************************)

\* send of a caller: done, waiting, or an error from a mailbox that is closed.
Send(t) ==
  /\ t \in Caller /\ InPython(t) /\ box.handles
  /\ Uses("send")
  /\ box' = IF box.open THEN SendTo(box, t) ELSE box
  /\ Detached(t, IF box.open /\ ~HasRoom(box) THEN "send" ELSE "attach")
  /\ UNCHANGED <<setup, lock, run, sup, faults>>

\* try_send keeps the GIL.
TrySend(t) ==
  /\ Free(t) /\ box.handles
  /\ Uses("try_send")
  /\ box' = TrySendTo(box)
  /\ UNCHANGED <<setup, gil, place, lock, run, sup, faults>>

SendGoesOn(t) ==
  /\ place[t] = "send"
  /\ t \in box.granted \/ ~box.open
  /\ box' = IF box.open THEN Put(box, t) ELSE box
  /\ Returns(t)
  /\ UNCHANGED <<setup, gil, lock, run, sup, bounds>>

\* recv or try_recv of a body: the mutex comes first.
Receive(t) ==
  /\ t \in Body /\ Free(t) /\ box.open
  /\ \/ setup.callable.body = "receives" /\ Detached(t, "lock for recv")
     \/ setup.callable.body = "polls" /\ Detached(t, "lock for try_recv")
  /\ UNCHANGED <<setup, lock, box, run, sup, bounds>>

Lock(t) ==
  /\ lock = {}
  /\ \/ /\ place[t] = "lock for recv"
        /\ lock' = {t}
        /\ place' = [place EXCEPT ![t] = "recv"]
        /\ UNCHANGED box
     \/ /\ place[t] = "lock for try_recv"
        /\ box' = IF box.len > 0 THEN TakenFrom(box) ELSE box
        /\ Returns(t)
        /\ UNCHANGED lock
  /\ UNCHANGED <<setup, gil, run, sup, bounds>>

\* recv returns a message, or None once nobody can send any more.
Received(t) ==
  /\ place[t] = "recv"
  /\ \/ box.len > 0 /\ box' = TakenFrom(box)
     \/ box.len = 0 /\ ~box.handles /\ UNCHANGED box
  /\ lock' = {}
  /\ Returns(t)
  /\ UNCHANGED <<setup, gil, run, sup, bounds>>

\* The last reference to the handle, or to the mailbox, is dropped.
DropHandles ==
  /\ box.handles
  /\ \A t \in Caller : place[t] # "send"
  /\ faults < setup.faults /\ faults' = faults + 1
  /\ box' = [box EXCEPT !.handles = FALSE]
  /\ UNCHANGED <<setup, gil, place, lock, run, sup, uses>>

DropMailbox ==
  /\ box.open
  /\ \A t \in Body : place[t] \notin {"lock for recv", "lock for try_recv", "recv"}
  /\ faults < setup.faults /\ faults' = faults + 1
  /\ box' = CloseReceiver(box)
  /\ UNCHANGED <<setup, gil, place, lock, run, sup, uses>>

(***************************************************************************)
(* Calls of the supervisor's handle: PySupervisorHandle.                   *)
(***************************************************************************)

\* A command is sent to the supervisor, with the GIL released until the answer is
\* there; after `shutdown` nothing is awaited.
\* A supervisor that is gone answers at once.
AskSupervisor(t, cmd) ==
  /\ Free(t) /\ Uses(cmd)
  /\ Detached(t, IF sup.at = "gone" \/ cmd = "shutdown" THEN "attach" ELSE "ask")
  /\ sup' = IF sup.at = "gone" THEN sup
            ELSE [sup EXCEPT !.queue = Append(@, [cmd |-> cmd, by |-> t])]
  /\ UNCHANGED <<setup, lock, box, run, faults>>

(***************************************************************************)
(* PyWorker: run, shutdown, and its body.                                  *)
(***************************************************************************)

\* run: the watcher is spawned and the call handed to the blocking pool.  Also
\* when the signal has been sent: it may be sent after select! has looked at it.
RunPolled(i) ==
  /\ run[i].task = "start"
  /\ run' = [run EXCEPT ![i].task = "run", ![i].watch = TRUE]
  /\ place' = [place EXCEPT ![i] = "queued"]
  /\ UNCHANGED <<setup, gil, lock, box, sup, bounds>>

\* The signal is seen first: `run` is dropped unpolled, `shutdown` has no body.
StoppedUnpolled(i) ==
  /\ run[i].task = "start" /\ run[i].signal
  /\ run' = [run EXCEPT ![i].task = "ended"]
  /\ UNCHANGED <<setup, gil, place, lock, box, sup, bounds>>

BodyStarts(i) ==
  /\ place[i] = "queued"
  /\ Cardinality({j \in Body : Alive(j)}) < setup.threads
  /\ place' = [place EXCEPT ![i] = "attach"]
  /\ UNCHANGED <<setup, gil, lock, box, run, sup, bounds>>

BodyEnds(i, how) ==
  /\ gil' = {}
  /\ place' = [place EXCEPT ![i] = "done"]
  /\ run' = [run EXCEPT ![i].ended = how]

\* The call itself, or a TypeError that no candidate fits.
EnterBody(i) ==
  /\ i \in Body /\ InPython(i) /\ ~Entered(i)
  /\ IF Accepted = <<>> THEN BodyEnds(i, "raised")
     ELSE run' = [run EXCEPT ![i].entries = 1] /\ UNCHANGED <<gil, place>>
  /\ UNCHANGED <<setup, lock, box, sup, bounds>>

\* A body that polls and is told to stop returns.
BodyObeys(i) ==
  /\ i \in Body /\ Free(i) /\ run[i].told
  /\ BodyEnds(i, "returned")
  /\ UNCHANGED <<setup, lock, box, sup, bounds>>

Fault == faults < setup.faults /\ faults' = faults + 1 /\ UNCHANGED uses

BodyReturns(i) ==
  /\ i \in Body /\ InPython(i) /\ Entered(i)
  /\ Fault
  /\ BodyEnds(i, "returned")
  /\ UNCHANGED <<setup, lock, box, sup>>

\* The body raises; a TypeError may make call_with_optional_args call again.
BodyRaises(i) ==
  /\ i \in Body /\ InPython(i) /\ Entered(i)
  /\ Fault
  /\ \/ BodyEnds(i, "raised")
     \/ /\ Retried(run[i].entries)
        /\ run' = [run EXCEPT ![i].entries = @ + 1]
        /\ UNCHANGED <<gil, place>>
  /\ UNCHANGED <<setup, lock, box, sup>>

WatcherTells_Never(i) == FALSE /\ UNCHANGED vars

\* The watcher outlives a `run` that was dropped.
WatcherTells(i) ==
  /\ run[i].watch /\ run[i].signal
  /\ run' = [run EXCEPT ![i].told = TRUE, ![i].watch = FALSE]
  /\ UNCHANGED <<setup, gil, place, lock, box, sup, bounds>>

\* run returns what the body gave; the supervisor is told.
RunReturns(i) ==
  /\ run[i].task = "run" /\ place[i] = "done"
  /\ run' = [run EXCEPT ![i].task = "ended", ![i].watch = FALSE]
  /\ sup' = IF sup.at = "gone" THEN sup
            ELSE [sup EXCEPT !.queue = Append(@, [cmd |-> "report"])]
  /\ UNCHANGED <<setup, gil, place, lock, box, bounds>>

ShutdownSeen_NotJoined(i) ==
  /\ run[i].task = "run" /\ run[i].signal
  /\ run' = [run EXCEPT ![i].task = "ended", ![i].told = TRUE]
  /\ UNCHANGED <<setup, gil, place, lock, box, sup, bounds>>

\* `run` is dropped and `shutdown` called: it raises the flag and joins the body.
ShutdownSeen(i) ==
  /\ run[i].task = "run" /\ run[i].signal
  /\ run' = [run EXCEPT ![i].task = "join", ![i].told = TRUE]
  /\ UNCHANGED <<setup, gil, place, lock, box, sup, bounds>>

Joined(i) ==
  /\ run[i].task = "join" /\ place[i] = "done"
  /\ run' = [run EXCEPT ![i].task = "ended"]
  /\ UNCHANGED <<setup, gil, place, lock, box, sup, bounds>>

(***************************************************************************)
(* The supervisor, for one permanent worker.                               *)
(***************************************************************************)

Serves(cmd) == sup.at = "serve" /\ sup.queue # <<>> /\ Head(sup.queue).cmd = cmd
Rest == [sup EXCEPT !.queue = Tail(@)]
Resumed == [sup EXCEPT !.at = "serve", !.next = [do |-> "-"]]

ServeQuery ==
  /\ Serves("which_children")
  /\ sup' = Rest
  /\ Returns(Head(sup.queue).by)
  /\ UNCHANGED <<setup, gil, lock, box, run, bounds>>

\* start_child refuses an id in use; a linked start waits for `initialize`.  MaxRuns
\* bounds the incarnations started.
ServeStart ==
  /\ Serves("start_child") \/ Serves("start_child_linked")
  /\ sup.cur = 0 => Len(run) < MaxRuns
  /\ LET t == Head(sup.queue).by IN
     IF sup.cur # 0 THEN sup' = Rest /\ Returns(t) /\ UNCHANGED run
     ELSE /\ run' = Append(run, NewRun)
          /\ IF Head(sup.queue).cmd = "start_child"
             THEN sup' = [Rest EXCEPT !.cur = Len(run) + 1] /\ Returns(t)
             ELSE /\ sup' = [Rest EXCEPT !.at = "link", !.next = [do |-> "answer", to |-> t]]
                  /\ UNCHANGED place
  /\ UNCHANGED <<setup, gil, lock, box, bounds>>

\* PyWorker's `initialize` has nothing to do.
LinkOk ==
  /\ sup.at = "link" /\ run[Len(run)].task # "start"
  /\ sup' = [Resumed EXCEPT !.cur = Len(run)]
  /\ Returns(sup.next.to)
  /\ UNCHANGED <<setup, gil, lock, box, run, bounds>>

\* The process is dropped, and with it the sender of its signal; its task is
\* aborted, perhaps as it hands the body to the pool.
LinkTimesOut ==
  /\ sup.at = "link" /\ run[Len(run)].task = "start"
  /\ sup' = Resumed
  /\ \E begun \in BOOLEAN :
       /\ run' = [run EXCEPT ![Len(run)] = [@ EXCEPT !.task = "ended", !.signal = TRUE,
                                             !.aborted = TRUE, !.watch = begun]]
       /\ place' = [place EXCEPT ![sup.next.to] = "attach",
                                 ![Len(run)] = IF begun THEN "queued" ELSE @]
  /\ UNCHANGED <<setup, gil, lock, box, bounds>>

\* WorkerProcess::stop: the signal is sent; `next` comes when the task has ended.
Stop(s, next) ==
  /\ sup' = [s EXCEPT !.at = "stop", !.next = next]
  /\ run' = [run EXCEPT ![sup.cur].signal = TRUE]

ServeTerminate ==
  /\ Serves("terminate_child")
  /\ IF sup.cur = 0 THEN sup' = Rest /\ Returns(Head(sup.queue).by) /\ UNCHANGED run
     ELSE Stop(Rest, [do |-> "answer", to |-> Head(sup.queue).by]) /\ UNCHANGED place
  /\ UNCHANGED <<setup, gil, lock, box, bounds>>

ServeShutdown ==
  /\ Serves("shutdown")
  /\ IF sup.cur = 0 THEN sup' = [Rest EXCEPT !.at = "stop", !.next = [do |-> "exit"]] /\ UNCHANGED run
     ELSE Stop(Rest, [do |-> "exit"])
  /\ UNCHANGED <<setup, gil, place, lock, box, bounds>>

\* A report restarts whatever incarnation is listed, up to the intensity.
ServeReport ==
  /\ Serves("report")
  /\ IF sup.cur = 0 THEN sup' = Rest /\ UNCHANGED run
     ELSE Stop(Rest, [do |-> IF Len(run) < MaxRuns THEN "restart" ELSE "exit"])
  /\ UNCHANGED <<setup, gil, place, lock, box, bounds>>

\* A sibling fails under OneForAll.
SiblingFails ==
  /\ sup.at = "serve" /\ sup.cur # 0 /\ Len(run) < MaxRuns
  /\ Fault
  /\ Stop(sup, [do |-> "restart"])
  /\ UNCHANGED <<setup, gil, place, lock, box>>

\* The timeout is over and the task aborted.  Its body is not affected.
StopTimesOut ==
  /\ sup.at = "stop" /\ sup.cur # 0
  /\ run[sup.cur].task # "ended"
  /\ run' = [run EXCEPT ![sup.cur].task = "ended", ![sup.cur].aborted = TRUE]
  /\ UNCHANGED <<setup, gil, place, lock, box, sup, bounds>>

Stopped == sup.at = "stop" /\ (sup.cur # 0 => run[sup.cur].task = "ended")

AnswerTerminate ==
  /\ Stopped /\ sup.next.do = "answer"
  /\ sup' = [Resumed EXCEPT !.cur = 0]
  /\ Returns(sup.next.to)
  /\ UNCHANGED <<setup, gil, lock, box, run, bounds>>

Respawn ==
  /\ Stopped /\ sup.next.do = "restart"
  /\ run' = Append(run, NewRun)
  /\ sup' = [Resumed EXCEPT !.cur = Len(run) + 1]
  /\ UNCHANGED <<setup, gil, place, lock, box, bounds>>

\* The channel closes: who waits for an answer gets an error.
SupervisorReturns ==
  /\ Stopped /\ sup.next.do = "exit"
  /\ sup' = [at |-> "gone", queue |-> <<>>, cur |-> 0, next |-> [do |-> "-"]]
  /\ place' = [t \in Thread |-> IF place[t] = "ask" THEN "attach" ELSE place[t]]
  /\ UNCHANGED <<setup, gil, lock, box, run, bounds>>

(***************************************************************************)
(* The specification.                                                      *)
(***************************************************************************)

Supervises ==
  \/ ServeQuery \/ ServeStart \/ LinkOk \/ LinkTimesOut
  \/ ServeTerminate \/ ServeShutdown \/ ServeReport
  \/ StopTimesOut \/ AnswerTerminate \/ Respawn \/ SupervisorReturns

Tasks(i) ==
  \/ RunPolled(i) \/ StoppedUnpolled(i) \/ RunReturns(i) \/ ShutdownSeen(i) \/ Joined(i)
  \/ WatcherTells(i) \/ BodyStarts(i)

\* What the tokio runtime does as soon as it can.
Runtime ==
  Supervises \/ (\E i \in DOMAIN run : Tasks(i)) \/ \E t \in Thread : SendGoesOn(t)

Python(t) ==
  \/ Send(t) \/ TrySend(t) \/ Receive(t)
  \/ \E cmd \in Use \ {"send", "try_send"} : AskSupervisor(t, cmd)

Next ==
  \/ Runtime \/ SiblingFails \/ DropHandles \/ DropMailbox
  \/ \E t \in Thread : Attach(t) \/ Yield(t) \/ Lock(t) \/ Received(t) \/ Python(t)
  \/ \E i \in DOMAIN run : EnterBody(i) \/ BodyObeys(i) \/ BodyReturns(i) \/ BodyRaises(i)

Spec == Init /\ [][Next]_vars

\* The runtime goes on; so does a call of a body's mailbox that can.  A thread in
\* Python is made to give the GIL up, which is handed round; a call is entered,
\* and a body that polls does so again and again.  Nothing is assumed of
\* callers and of other bodies.
Fairness ==
  /\ WF_vars(Runtime)
  /\ WF_vars(\E t \in Thread : Yield(t))
  /\ \A t \in Thread : SF_vars(Attach(t))
  /\ \A i \in Body :
       /\ WF_vars(Lock(i) \/ Received(i))
       /\ SF_vars(i \in DOMAIN run /\ (EnterBody(i) \/ BodyObeys(i)))

FairSpec == Spec /\ Fairness

(***************************************************************************)
(* Properties.                                                             *)
(***************************************************************************)

Places == {"none", "queued", "attach", "python", "send", "lock for recv",
           "lock for try_recv", "recv", "ask", "done"}

\* The variables have their types, and the GIL, the mutex and the mailbox agree
\* with where the threads are.
TypeOK ==
  /\ setup \in Setups
  /\ place \in [Thread -> Places]
  /\ gil \in SUBSET Thread /\ lock \in SUBSET Thread
  /\ Cardinality(gil) <= 1 /\ Cardinality(lock) <= 1
  /\ \A t \in Thread :
       /\ gil = {t} <=> (place[t] = "python")
       /\ lock = {t} <=> (place[t] = "recv")
       /\ WaitsToSend(box, t) => place[t] = "send"
  /\ Len(run) \in 1..MaxRuns
  /\ \A i \in DOMAIN run :
       /\ run[i].task \in {"start", "run", "join", "ended"}
       /\ (place[i] = "done") <=> (run[i].ended # "-")
  /\ sup.at \in {"serve", "link", "stop", "gone"} /\ sup.cur \in 0..Len(run)
  /\ uses \in 0..MaxUses /\ faults \in 0..MaxFaults

\* A bounded mailbox never holds more than its capacity, not even when senders
\* that wait, senders that do not (try_send) and receivers of two incarnations
\* meet, and no sender is left waiting beside a free place.
MailboxBounded == CapacityKept(box)

\* The successor of a worker does not run on top of it: two bodies are at work
\* only if the older one did not stop in time, and it was told to (the reason
\* `PyWorker::shutdown` gives for joining the body).
NoSilentOverlap ==
  \A i, j \in DOMAIN run :
    i < j /\ Alive(j) /\ Pending(i) => run[i].aborted /\ run[i].signal

\* The body of a callable written in Python is entered at most once per
\* incarnation, whatever it raises (call_with_optional_args, is_arity_error).
EnteredOnce ==
  \A i \in DOMAIN run : setup.callable.frames => run[i].entries <= 1

\* A call of the supervisor's handle returns, also one that a worker makes to
\* terminate itself, and whatever other threads wait for in a call of theirs:
\* nobody waits for the supervisor with the GIL in hand.
CallsReturn == \A t \in Thread : place[t] = "ask" ~> InPython(t)

\* A body whose task is gone, because it was aborted before or while it was asked
\* to stop, still learns of it, and ends if it polls (the watcher of `run`).
AbandonedBodyEnds ==
  \A i \in Body :
    (i \in DOMAIN run /\ run[i].task = "ended" /\ setup.callable.body = "polls")
      ~> ~Pending(i)

================================================================================
