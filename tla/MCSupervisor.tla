----------------------------- MODULE MCSupervisor ------------------------------
(***************************************************************************)
(* The instances of Supervisor that TLC checks: the specifications a       *)
(* supervisor starts from and the calls its clients make.                  *)
(***************************************************************************)
EXTENDS Supervisor, TLC

Build == INSTANCE SpecBuilder

W(id, policy) == [id |-> id, policy |-> policy]

\* The builder's methods one by one; delays and timeouts are only told apart from zero.
Base(strategy, max, delayed, patient) ==
  LET spec == Build!with_restart_intensity(
                Build!with_restart_strategy(Build!new("sup"), strategy),
                [max_restarts |-> max, within_seconds |-> 5])
      paced == IF delayed THEN spec ELSE Build!with_restart_backoff(spec, Build!none)
  IN  IF patient THEN paced ELSE Build!with_shutdown_timeout(paced, 0)

Staffed(spec, workers) ==
  Build!FoldLeft(LAMBDA s, w : Build!with_worker(s, w.id, w.policy), spec, workers)

Config(workers, strategy, max, delayed, patient) ==
  Build!Configuration(Staffed(Base(strategy, max, delayed, patient), workers))

Asks(cmd, id, policy) == [cmd |-> cmd, id |-> id, policy |-> policy]

\* Rounds: every strategy over a worker, a nested supervisor and a worker that
\* may leave; with and without backoff, with and without shutdown timeout.
RoundConfigs ==
  {Build!Configuration(
     Build!with_worker(
       Build!with_supervisor(Staffed(Base(s, max, d, d), <<W("a", "Permanent")>>), Build!new("n")),
       "b", IF d THEN "Transient" ELSE "Temporary")) :
     s \in Strategy, d \in BOOLEAN, max \in 1..2}
RoundCalls == {Asks("TerminateChild", "a", "Permanent")}

\* Calls: two clients contend for one id.
CallConfigs ==
  {Config(<<W("a", "Permanent")>>, "OneForOne", 1, d, TRUE) : d \in BOOLEAN}
CallCalls ==
  {Asks("StartChildLinked", "a", "Transient"), Asks("StartChild", "a", "Temporary"),
   Asks("TerminateChild", "a", "Permanent"), Asks("Query", "a", "Permanent"),
   Asks("Shutdown", "a", "Permanent")}
Symmetry == Permutations(Client)

\* Liveness.
LiveConfigs ==
  {Build!Configuration(
     Build!with_supervisor(Staffed(Base(s, 1, d, d), <<W("a", "Permanent")>>), Build!new("n"))) :
     s \in Strategy, d \in BOOLEAN}
LiveCalls ==
  {Asks("StartChildLinked", "b", "Transient"), Asks("TerminateChild", "a", "Permanent"),
   Asks("Shutdown", "a", "Permanent")}

\* Violations.
NoCalls == {}
PanicConfigs == {Config(<<W("a", "Permanent")>>, "OneForOne", 2, FALSE, TRUE)}
DropConfigs ==
  {Config(<<W("a", "Permanent"), W("b", "Transient")>>, "OneForAll", 2, FALSE, TRUE)}
TemporaryConfigs == {Config(<<W("a", "Permanent")>>, "OneForOne", 2, TRUE, TRUE)}
TemporaryCalls ==
  {Asks("TerminateChild", "a", "Permanent"), Asks("StartChild", "a", "Temporary")}
LinkConfigs == {Config(<<>>, "OneForOne", 2, FALSE, TRUE)}
LinkCalls ==
  {Asks("StartChildLinked", "a", "Permanent"), Asks("StartChild", "a", "Permanent")}

================================================================================
