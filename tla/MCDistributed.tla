----------------------------- MODULE MCDistributed -----------------------------
(***************************************************************************)
(* Two callers, two children, and a frame that can list one child.         *)
(***************************************************************************)
EXTENDS Distributed

CommandsAsked ==
  {[cmd |-> "Shutdown"], [cmd |-> "WhichChildren"], [cmd |-> "Status"]}
    \cup [cmd : {"TerminateChild"}, id : {"a", "long"}]

================================================================================
