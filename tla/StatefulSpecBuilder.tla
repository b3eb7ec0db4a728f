-------------------------- MODULE StatefulSpecBuilder --------------------------
(***************************************************************************)
(* How the specification of a stateful tree comes about: the builder of    *)
(* StatefulSupervisorSpec (supervisor_stateful.rs), stateful_supervision_- *)
(* tree! (macros.rs) and the Python class (python/stateful.rs).            *)
(*                                                                         *)
(* A specification is the sequence of itself and the specifications nested *)
(* in it, in the order in which their runtimes are started.  Each `new`    *)
(* makes a WorkerContext, here its argument `context`; a worker holds the  *)
(* one of the specification it was added to.  Nodes says what StatefulTree *)
(* starts from.                                                            *)
(***************************************************************************)
EXTENDS Integers, SequencesExt, RestartPolicy

Plain == INSTANCE SpecBuilder

Worker(id, policy, context) ==
  [id |-> id, kind |-> "Worker", policy |-> policy, context |-> context]
Nested(name) == [id |-> name, kind |-> "Supervisor", policy |-> "Permanent"]

new(name, context) ==
  <<[name |-> name, children |-> <<>>, restart_strategy |-> "OneForOne",
     restart_intensity |-> Plain!DefaultIntensity, restart_backoff |-> Plain!DefaultBackoff,
     shutdown_timeout |-> Plain!DEFAULT_SHUTDOWN_TIMEOUT, context |-> context]>>

with_restart_strategy(spec, strategy) == [spec EXCEPT ![1].restart_strategy = strategy]
with_restart_intensity(spec, intensity) == [spec EXCEPT ![1].restart_intensity = intensity]
with_restart_backoff(spec, backoff) == [spec EXCEPT ![1].restart_backoff = backoff]
with_restart_delay(spec, delay) ==
  with_restart_backoff(spec, Plain!exponential(delay, delay))
with_shutdown_timeout(spec, timeout) == [spec EXCEPT ![1].shutdown_timeout = timeout]

with_worker(spec, id, policy) ==
  [spec EXCEPT ![1].children = Append(@, Worker(id, policy, spec[1].context))]
with_supervisor(spec, supervisor) ==
  [spec EXCEPT ![1].children = Append(@, Nested(supervisor[1].name))] \o supervisor

context_of(spec) == spec[1].context

\* stateful_supervision_tree!: as supervision_tree!.
stateful_supervision_tree(name, context, strategy, intensity, workers, supervisors) ==
  LET base == with_restart_strategy(new(name, context), strategy)
      timed == IF intensity = {} THEN base
               ELSE with_restart_intensity(base, CHOOSE i \in intensity : TRUE)
      staffed == FoldLeft(LAMBDA s, w : with_worker(s, w.id, w.policy), timed, workers)
  IN  FoldLeft(with_supervisor, staffed, supervisors)

(***************************************************************************)
(* PyStatefulSupervisorSpec.                                               *)
(***************************************************************************)

has_child(spec, id) == \E i \in DOMAIN spec[1].children : spec[1].children[i].id = id

PyWithShutdownTimeout(spec, seconds) ==
  IF Plain!duration_from_secs(seconds) = {} THEN spec
  ELSE with_shutdown_timeout(spec, 1000 * seconds)

PyAddWorker(spec, id, policy, callable) ==
  IF ~callable \/ has_child(spec, id) THEN spec ELSE with_worker(spec, id, policy)

PyAddSupervisor(spec, supervisor) == with_supervisor(spec, supervisor)

(***************************************************************************)
(* What the runtimes make of it.                                           *)
(***************************************************************************)

Node(own) ==
  [name |-> own.name,
   children |-> [i \in DOMAIN own.children |->
     [id |-> own.children[i].id, kind |-> own.children[i].kind,
      policy |-> own.children[i].policy]],
   strategy |-> own.restart_strategy, max_restarts |-> own.restart_intensity.max_restarts,
   delayed |-> Plain!Delays(own.restart_backoff), patient |-> own.shutdown_timeout > 0]

Nodes(spec) == [n \in DOMAIN spec |-> Node(spec[n])]

================================================================================
