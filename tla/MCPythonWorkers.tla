---------------------------- MODULE MCPythonWorkers ----------------------------
(***************************************************************************)
(* One calling thread, and callables of the kinds that differ.             *)
(***************************************************************************)
EXTENDS PythonWorkers

Function(required, limit, body) ==
  [required |-> required, limit |-> limit, known |-> TRUE, frames |-> TRUE, body |-> body]
Opaque(frames) ==
  [required |-> 0, limit |-> 3, known |-> FALSE, frames |-> frames, body |-> "polls"]

On(callable, context, capacity, used, threads, n, m) ==
  [callable |-> callable, context |-> context, capacity |-> capacity,
   calls |-> used, threads |-> threads, uses |-> n, faults |-> m]

Asking == {"which_children", "terminate_child"}

SetupsExplored ==
  {\* a body that ignores should_stop, also in a pool it fills, and one that obeys
   \* it and may call back
   On(Function(0, 0, "deaf"), FALSE, 1, Asking, 2, 2, 1),
   On(Function(0, 0, "deaf"), FALSE, 1, Asking, 1, 1, 1),
   On(Function(1, 1, "polls"), FALSE, 1, {"terminate_child", "shutdown"}, 2, 2, 1),
   \* one that is started again by hand
   On(Function(1, 1, "polls"), FALSE, 1, {"terminate_child", "start_child_linked"}, 2, 2, 0),
   On(Function(0, 0, "deaf"), FALSE, 1, {"terminate_child", "start_child"}, 2, 2, 0),
   \* a full mailbox, whose receiver may be replaced while it waits
   On(Function(2, 2, "receives"), TRUE, 1, {"send", "try_send"}, 2, 3, 1),
   On(Function(1, 1, "polls"), FALSE, 0, {"send"}, 2, 2, 0),
   \* a callable that fits no candidate, and two whose signature is unknown
   On(Function(3, 3, "polls"), TRUE, 1, {"which_children"}, 2, 1, 0),
   On(Opaque(TRUE), TRUE, 1, {}, 2, 0, 2), On(Opaque(FALSE), TRUE, 1, {}, 2, 0, 2)}

================================================================================
