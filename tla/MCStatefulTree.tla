---------------------------- MODULE MCStatefulTree -----------------------------
(***************************************************************************)
(* The trees that TLC explores.  Each has bounds of its own, so that deep  *)
(* trees, many calls and many faults are not multiplied with each other.   *)
(***************************************************************************)
EXTENDS StatefulTree

Build == INSTANCE StatefulSpecBuilder

W(id, policy) == [id |-> id, policy |-> policy]

\* stateful_supervision_tree! and the two settings it has no syntax for; delays
\* and timeouts are only told apart from zero.
Specified(name, strategy, max, delayed, patient, workers, supervisors) ==
  LET tree == Build!stateful_supervision_tree(name, name, strategy,
                {[max_restarts |-> max, within_seconds |-> 5]}, workers, supervisors)
      paced == IF delayed THEN tree
               ELSE Build!with_restart_backoff(tree, Build!Plain!none)
  IN  IF patient THEN paced ELSE Build!with_shutdown_timeout(paced, 0)

Asks(cmd, id, policy) == [cmd |-> cmd, id |-> id, policy |-> policy]
StopAsks == {Asks("Shutdown", "a", "Permanent"), Asks("TerminateChild", "n", "Permanent")}

TreeOf(spec, asks, n, m, u) ==
  [nodes |-> Build!Nodes(spec), asks |-> asks, calls |-> n, faults |-> m, uses |-> u]

\* A worker beside a nested supervisor; faults on both levels, a stop from above.
\* With two faults the root may exceed its own intensity too.
Pair(strategy, delayed, patient, n, m) ==
  TreeOf(Specified("r", strategy, 1, delayed, TRUE, <<W("a", "Permanent")>>,
           <<Specified("n", "OneForOne", 0, FALSE, patient, <<W("b", "Permanent")>>, <<>>)>>),
         StopAsks, n, m, 0)
Family ==
  {Pair(strategy, d, d, 1, 1) : strategy \in Strategy, d \in BOOLEAN}
    \cup {Pair("OneForAll", FALSE, FALSE, 0, 2)}

\* Three levels: the middle supervisor is child and parent.
Deep ==
  {TreeOf(Specified("r", "OneForOne", 1, FALSE, TRUE, <<>>,
            <<Specified("n", "OneForAll", k, FALSE, TRUE, <<>>,
                <<Specified("m", "RestForOne", 0, FALSE, TRUE, <<W("b", "Transient")>>, <<>>)>>)>>),
          StopAsks, 1, 2, 0) : k \in 0..1}

\* Workers that come and go while a nested supervisor runs.
Dynamic ==
  {TreeOf(Specified("r", "OneForOne", 1, FALSE, TRUE, <<>>,
            <<Specified("n", "OneForOne", 1, FALSE, TRUE, <<>>, <<>>)>>),
          {Asks("StartChild", "a", "Temporary"), Asks("StartChildLinked", "a", "Transient"),
           Asks("TerminateChild", "a", "Permanent"), Asks("Query", "a", "Permanent")},
          2, 1, 0)}

\* Two workers of one specification and their context.
Shared ==
  {TreeOf(Specified("r", "OneForOne", 1, FALSE, TRUE, <<>>,
            <<Specified("n", "OneForAll", k, FALSE, TRUE,
                <<W("a", "Permanent"), W("b", "Temporary")>>, <<>>)>>),
          {}, 0, 1, 3) : k \in 0..1}

AllTrees == Family \cup Deep \cup Dynamic \cup Shared

================================================================================
