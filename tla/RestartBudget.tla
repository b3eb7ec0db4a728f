----------------------------- MODULE RestartBudget -----------------------------
(***************************************************************************)
(* What a restart intensity promises: a restart is granted as long as      *)
(* fewer than max_restarts were granted within the window that ends now;   *)
(* the first restart beyond that is refused, and none follows it.          *)
(***************************************************************************)
EXTENDS Integers, Sequences, FiniteSets

CONSTANT Intensities    \* the limits to choose from, records as in RestartIntensity

VARIABLES
  intensity,  \* the limit in force
  now,        \* the clock
  granted,    \* when restarts were granted
  exhausted   \* one was refused

vars == <<intensity, now, granted, exhausted>>

InWindow == {i \in DOMAIN granted : granted[i] >= now - intensity.within}

Init ==
  /\ intensity \in Intensities
  /\ now \in Int
  /\ granted = <<>>
  /\ exhausted = FALSE

Grant ==
  /\ ~exhausted
  /\ Cardinality(InWindow) < intensity.max_restarts
  /\ granted' = Append(granted, now)
  /\ UNCHANGED <<intensity, now, exhausted>>

Refuse ==
  /\ ~exhausted
  /\ Cardinality(InWindow) >= intensity.max_restarts
  /\ exhausted' = TRUE
  /\ UNCHANGED <<intensity, now, granted>>

TimePasses ==
  /\ now' \in Int
  /\ now' > now
  /\ UNCHANGED <<intensity, granted, exhausted>>

Next == Grant \/ Refuse \/ TimePasses

Spec == Init /\ [][Next]_vars

================================================================================
