-------------------------- MODULE MCRestartAccounting --------------------------
(***************************************************************************)
(* The instances of RestartAccounting that TLC checks.  Widths are scaled  *)
(* down so that shift, factor, product, count and clock all saturate.      *)
(***************************************************************************)
EXTENDS RestartAccounting

Limit(max, within) == [max_restarts |-> max, within |-> within]
Delays(initial, max) == [initial_delay |-> initial, max_delay |-> max]

MCIntensities == {Limit(0, 1), Limit(1, 3), Limit(2, 2), Limit(3, 0)}
\* A window that reaches beyond the earliest instant.
LongWindow == {Limit(1, 5)}
MCBackoffs == {Delays(0, 2), Delays(1, 4), Delays(3, 4), Delays(3, 2), Delays(1, 0)}

================================================================================
