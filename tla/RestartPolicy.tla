----------------------------- MODULE RestartPolicy -----------------------------
(***************************************************************************)
(* The vocabulary of supervision (restart.rs, types.rs) and the part of    *)
(* `decide_restart` that is a pure function of a child's policy and of its *)
(* exit reason.  The part that depends on the trackers is in the actions   *)
(* of the supervisor that calls it.                                        *)
(***************************************************************************)

\* RestartStrategy, RestartPolicy, ChildExitReason and ChildType.
Strategy == {"OneForOne", "OneForAll", "RestForOne"}
Policy   == {"Permanent", "Temporary", "Transient"}
Reason   == {"Normal", "Abnormal", "Shutdown"}
Kind     == {"Worker", "Supervisor"}

\* What `restart_policy_for_decision` answers: a nested supervisor has no
\* policy of its own (None in the code).
NoPolicy == "None"

IsOwnDoing_Normal(reason) == reason \in {"Shutdown", "Normal"}

\* An exit the supervisor asked for is never fed back through the policy.
IsOwnDoing(reason) == reason = "Shutdown"

\* The policy check of `decide_restart`; nested supervisors are permanent.
ShouldRestart(policy, reason) ==
  \/ policy \in {NoPolicy, "Permanent"}
  \/ policy = "Transient" /\ reason = "Abnormal"

================================================================================
