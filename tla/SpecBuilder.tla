------------------------------ MODULE SpecBuilder ------------------------------
(***************************************************************************)
(* How the specification of a supervisor comes about: the builder methods  *)
(* of SupervisorSpec (supervisor/spec.rs), the supervision_tree! macro     *)
(* (macros.rs), and the Python class that registers children through       *)
(* checks of its own (python/supervisor.rs).                               *)
(*                                                                         *)
(* A builder method takes a specification and returns another one.  Times  *)
(* are in milliseconds.  Configuration says what Supervisor starts from.   *)
(***************************************************************************)
EXTENDS Naturals, Integers, SequencesExt, RestartPolicy

Worker(id, policy) == [id |-> id, kind |-> "Worker", policy |-> policy]
Nested(name) == [id |-> name, kind |-> "Supervisor", policy |-> "Permanent"]

exponential(initial_delay, max_delay) ==
  [initial_delay |-> initial_delay, max_delay |-> max_delay]
none == exponential(0, 0)

DefaultBackoff == exponential(100, 30000)
DefaultIntensity == [max_restarts |-> 3, within_seconds |-> 5]
DEFAULT_SHUTDOWN_TIMEOUT == 5000

new(name) ==
  [name |-> name, children |-> <<>>, restart_strategy |-> "OneForOne",
   restart_intensity |-> DefaultIntensity, restart_backoff |-> DefaultBackoff,
   shutdown_timeout |-> DEFAULT_SHUTDOWN_TIMEOUT]

with_restart_strategy(spec, strategy) == [spec EXCEPT !.restart_strategy = strategy]
with_restart_intensity(spec, intensity) == [spec EXCEPT !.restart_intensity = intensity]
with_restart_backoff(spec, backoff) == [spec EXCEPT !.restart_backoff = backoff]
with_restart_delay(spec, delay) == with_restart_backoff(spec, exponential(delay, delay))
with_shutdown_timeout(spec, timeout) == [spec EXCEPT !.shutdown_timeout = timeout]

with_worker(spec, id, policy) ==
  [spec EXCEPT !.children = Append(@, Worker(id, policy))]
with_supervisor(spec, supervisor) ==
  [spec EXCEPT !.children = Append(@, Nested(supervisor.name))]

\* supervision_tree!: an intensity, if one is given, as a set; then all workers,
\* then all supervisors.
supervision_tree(name, strategy, intensity, workers, supervisors) ==
  LET base == with_restart_strategy(new(name), strategy)
      timed == IF intensity = {} THEN base
               ELSE with_restart_intensity(base, CHOOSE i \in intensity : TRUE)
      staffed == FoldLeft(LAMBDA s, w : with_worker(s, w.id, w.policy), timed, workers)
  IN  FoldLeft(with_supervisor, staffed, supervisors)

(***************************************************************************)
(* PySupervisorSpec.  A call that raises leaves the specification as it    *)
(* was.                                                                    *)
(***************************************************************************)

\* A negative number stands for every float that is no Duration.
duration_from_secs(seconds) == IF seconds >= 0 THEN {1000 * seconds} ELSE {}

has_child(spec, id) == \E i \in DOMAIN spec.children : spec.children[i].id = id

PyWithRestartDelay(spec, seconds) ==
  IF duration_from_secs(seconds) = {} THEN spec
  ELSE [spec EXCEPT !.restart_backoff = exponential(1000 * seconds, 1000 * seconds)]

PyWithRestartBackoff(spec, initial_seconds, max_seconds) ==
  IF duration_from_secs(initial_seconds) = {} \/ duration_from_secs(max_seconds) = {} THEN spec
  ELSE [spec EXCEPT !.restart_backoff = exponential(1000 * initial_seconds, 1000 * max_seconds)]

PyWithShutdownTimeout(spec, seconds) ==
  IF duration_from_secs(seconds) = {} THEN spec
  ELSE with_shutdown_timeout(spec, 1000 * seconds)

ensure_unique_id(spec, id) == ~has_child(spec, id)

PyAddWorker(spec, id, policy, callable) ==
  IF callable /\ ensure_unique_id(spec, id) THEN with_worker(spec, id, policy) ELSE spec

\* No check of the name.
PyAddSupervisor(spec, supervisor) == with_supervisor(spec, supervisor)

(***************************************************************************)
(* What the runtime makes of it.                                           *)
(***************************************************************************)

\* A delay is zero for every attempt or for none (delay_for_attempt).
Delays(backoff) == backoff.initial_delay > 0 /\ backoff.max_delay > 0

Configuration(spec) ==
  [children |-> spec.children, strategy |-> spec.restart_strategy,
   max_restarts |-> spec.restart_intensity.max_restarts,
   delayed |-> Delays(spec.restart_backoff), patient |-> spec.shutdown_timeout > 0]

================================================================================
