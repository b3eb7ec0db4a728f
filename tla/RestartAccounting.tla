--------------------------- MODULE RestartAccounting ---------------------------
(***************************************************************************)
(* The bookkeeping behind `decide_restart`, with time: RestartTracker,     *)
(* which forgets what left the intensity window, and BackoffTracker, which *)
(* doubles the delay of a child that keeps failing.  Instants are integers *)
(* between the earliest and the latest the platform can represent, and the *)
(* arithmetic that the code checks or saturates has the widths given by    *)
(* the constants.                                                          *)
(*                                                                         *)
(* An operator X_Y written just before X is X with a plausible mistake in  *)
(* it; the specification never uses it.                                    *)
(***************************************************************************)
EXTENDS Integers, Sequences, FiniteSets

CONSTANTS
  Id,                  \* child ids
  Intensities,         \* restart intensities to choose from
  Backoffs,            \* restart backoffs to choose from
  Earliest, Latest,    \* the range of an Instant; Latest also bounds the runs
  Start,               \* when the supervisor is started
  ShiftBits,           \* width of the shifted multiplier (64 in the code)
  FactorMax,           \* u32::MAX, the largest factor of a Duration
  AttemptsMax,         \* u32::MAX, where the count of attempts saturates
  DurationMax          \* Duration::MAX

ASSUME LimitsAssumption ==
  /\ Intensities \subseteq [max_restarts : Nat, within : Nat]
  /\ Backoffs \subseteq [initial_delay : 0..DurationMax, max_delay : 0..DurationMax]

ASSUME ClockAssumption ==
  /\ {Earliest, Latest, Start} \subseteq Int
  /\ Earliest <= Start /\ Start <= Latest

ASSUME WidthsAssumption ==
  {ShiftBits, FactorMax, AttemptsMax, DurationMax} \subseteq Nat

VARIABLES
  intensity,      \* restart_tracker.intensity
  backoff,        \* backoff_tracker.backoff
  now,            \* Instant::now()
  restart_times,  \* restart_tracker.restart_times
  state,          \* backoff_tracker.state
  exhausted,      \* decide_restart has escalated: the supervisor is over
  granted,        \* history: when restarts were granted
  given           \* history: a child's last restart and its delay

vars == <<intensity, backoff, now, restart_times, state, exhausted, granted, given>>

Minimum(a, b) == IF a <= b THEN a ELSE b

(***************************************************************************)
(* RestartTracker.                                                         *)
(***************************************************************************)

\* Instants do not go back beyond Earliest: the cutoff is then the present.
Cutoff ==
  IF now - intensity.within >= Earliest THEN now - intensity.within ELSE now

RecordRestart_Half ==
  \E k \in 0..Len(restart_times) :
    /\ \A i \in 1..k : restart_times[i] <= Cutoff
    /\ k < Len(restart_times) => restart_times[k + 1] > Cutoff
    /\ restart_times' = Append(SubSeq(restart_times, k + 1, Len(restart_times)), now)

\* Pops from the front what is older than the cutoff, then adds the present.
RecordRestart ==
  \E k \in 0..Len(restart_times) :
    /\ \A i \in 1..k : restart_times[i] < Cutoff
    /\ k < Len(restart_times) => restart_times[k + 1] >= Cutoff
    /\ restart_times' = Append(SubSeq(restart_times, k + 1, Len(restart_times)), now)

Exceeded_AtLimit == Len(restart_times') >= intensity.max_restarts
Exceeded == Len(restart_times') > intensity.max_restarts

(***************************************************************************)
(* RestartBackoff and BackoffTracker.                                      *)
(***************************************************************************)

\* 1 << attempt, saturating at the width of the shift and then at u32::MAX.
Factor(attempt) ==
  IF attempt < ShiftBits THEN Minimum(2 ^ attempt, FactorMax) ELSE FactorMax

\* The product gives way to the ceiling when it is no Duration.
delay_for_attempt(attempt) ==
  LET product == backoff.initial_delay * Factor(attempt)
  IN  IF product <= DurationMax THEN Minimum(product, backoff.max_delay)
      ELSE backoff.max_delay

Healthy_SinceDecision(id) ==
  id \in DOMAIN given => now - given[id].at >= backoff.max_delay

\* It has been up for max_delay since its last restart, if there was one.
Healthy(id) ==
  LET uptime == IF id \in DOMAIN state /\ now >= state[id].started_at
                THEN now - state[id].started_at ELSE 0
  IN  uptime >= backoff.max_delay

\* The restart number the next delay is for.
Attempt(id) ==
  IF id \in DOMAIN state /\ ~Healthy(id) THEN state[id].attempts ELSE 0

With(f, id, value) == [i \in DOMAIN f \cup {id} |-> IF i = id THEN value ELSE f[i]]
Without(f, id) == [i \in DOMAIN f \ {id} |-> f[i]]

next_delay_Unbounded(id) ==
  LET delay == delay_for_attempt(Attempt(id))
  IN /\ state' = With(state, id,
          [attempts |-> Attempt(id) + 1, started_at |-> now + delay])
     /\ given' = With(given, id, [at |-> now, delay |-> delay])

next_delay(id) ==
  LET delay == delay_for_attempt(Attempt(id))
  IN /\ state' = With(state, id,
          [attempts |-> Minimum(Attempt(id) + 1, AttemptsMax),
           started_at |-> IF now + delay <= Latest THEN now + delay ELSE now])
     /\ given' = With(given, id, [at |-> now, delay |-> delay])

(***************************************************************************)
(* The decisions.                                                          *)
(***************************************************************************)

Init ==
  /\ intensity \in Intensities
  /\ backoff \in Backoffs
  /\ now = Start
  /\ restart_times = <<>>
  /\ state = <<>>
  /\ exhausted = FALSE
  /\ granted = <<>>
  /\ given = <<>>

Restart(id) ==
  /\ ~exhausted
  /\ RecordRestart
  /\ ~Exceeded
  /\ next_delay(id)
  /\ granted' = Append(granted, now)
  /\ UNCHANGED <<intensity, backoff, now, exhausted>>

Escalate ==
  /\ ~exhausted
  /\ RecordRestart
  /\ Exceeded
  /\ exhausted' = TRUE
  /\ UNCHANGED <<intensity, backoff, now, state, granted, given>>

\* The child leaves supervision.
reset_child(id) ==
  /\ ~exhausted
  /\ state' = Without(state, id)
  /\ given' = Without(given, id)
  /\ UNCHANGED <<intensity, backoff, now, restart_times, exhausted, granted>>

Tick ==
  /\ now < Latest
  /\ now' = now + 1
  /\ UNCHANGED <<intensity, backoff, restart_times, state, exhausted, granted, given>>

Next ==
  \/ \E id \in Id : Restart(id) \/ reset_child(id)
  \/ Escalate
  \/ Tick

Spec == Init /\ [][Next]_vars

(***************************************************************************)
(* Properties.                                                             *)
(***************************************************************************)

\* The limit, the clock and the restarts are what they should be ...
TrackerTypes ==
  /\ intensity \in Intensities
  /\ now \in Start..Latest
  /\ exhausted \in BOOLEAN
  /\ restart_times \in Seq(Int)
  /\ granted \in Seq(Int)

\* ... and the backoff of a child has a start and a count that can be stored.
BackoffTypes ==
  /\ backoff \in Backoffs
  /\ DOMAIN state \subseteq Id
  /\ \A id \in DOMAIN state :
       state[id] \in [attempts : 0..AttemptsMax, started_at : Start..Latest]

\* The variables have their types: in particular no count of attempts and no
\* instant leaves its width (saturating_add and checked_add in next_delay).
TypeOK == TrackerTypes /\ BackoffTypes

\* The clock reaches back a whole window from the start on.
ReachesBack == \A i \in Intensities : Start - i.within >= Earliest

Budget == INSTANCE RestartBudget

\* The tracker grants and refuses exactly what the intensity promises, although
\* it remembers only a suffix of the restarts (RestartTracker::record_restart).
ImplementsBudget == Budget!Spec

\* Of any max_restarts + 1 restarts granted, the last is more than a window
\* after the first (RestartTracker::record_restart, decide_restart).
WithinBudget ==
  \A i \in DOMAIN granted :
    i + intensity.max_restarts \in DOMAIN granted =>
      granted[i + intensity.max_restarts] - granted[i] > intensity.within

\* No width gets in the way of doubling: attempts are told apart until the shift
\* gives out, and by then the largest factor is reached (u32 and 64 bits).
WidthsFit == ShiftBits <= AttemptsMax /\ FactorMax <= 2 ^ ShiftBits

\* When the child was up again after its last restart.
UpSince(id) == given[id].at + given[id].delay

\* Delays double up to the ceiling for a child that fails again before it was
\* up for max_delay, and start over for one that was; whatever the widths in
\* which attempts, factors and instants are computed.  (Unless the largest
\* factor is too small to reach the ceiling.)
DelaysDouble ==
  [][\A id \in DOMAIN given' :
       /\ granted' # granted
       /\ id \notin DOMAIN given \/ given'[id] # given[id]
       /\ backoff.initial_delay * FactorMax >= backoff.max_delay
       => given'[id].delay =
            Minimum(backoff.max_delay,
                    IF id \in DOMAIN given /\ now - UpSince(id) < backoff.max_delay
                    THEN 2 * given[id].delay ELSE backoff.initial_delay)]_vars

================================================================================
