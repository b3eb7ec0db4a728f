------------------------------ MODULE RemoteCalls ------------------------------
(***************************************************************************)
(* What a caller of RemoteSupervisorHandle may rely on, with no connection,  *)
(* frame, task or queue in sight: a call asks its questions of the remote    *)
(* supervisor one after the other, each at one instant and once; a call that *)
(* returns an answer has asked them all; a call that fails says nothing: it  *)
(* may have taken effect, or may yet do so, behind calls made since.         *)
(*                                                                           *)
(* Ops_StrategyLast is Ops with a plausible mistake in it; the specification *)
(* never uses it.                                                            *)
(***************************************************************************)
EXTENDS Integers, Sequences

CONSTANTS Client, Id, Asks

VARIABLES tree, request, outcome

vars == <<tree, request, outcome>>

Ops_StrategyLast(m) ==
  IF m.cmd = "Status" THEN <<"GetUptime", "WhichChildren", "GetRestartStrategy">> ELSE <<m.cmd>>

\* What process_command asks of the supervisor, in order.
Ops(m) ==
  IF m.cmd = "Status" THEN <<"GetRestartStrategy", "GetUptime", "WhichChildren">> ELSE <<m.cmd>>

\* An answer of the supervisor; the children matter to WhichChildren only.
Says(w, cs) == [say |-> w, children |-> cs]
Closed == Says("ShuttingDown", {})

\* What the supervisor in state s says to operation op of command m.
Answer(s, op, m) ==
  IF ~s.open THEN Closed
  ELSE CASE op = "WhichChildren" -> Says("Ok", s.children)
         [] op = "TerminateChild" -> Says(IF m.id \in s.children THEN "Ok" ELSE "ChildNotFound", {})
         [] OTHER -> Says("Ok", {})

\* What the operation makes of the supervisor.
After(s, op, m) ==
  CASE op = "TerminateChild" -> [s EXCEPT !.children = @ \ {m.id}]
    [] op = "Shutdown" -> [open |-> FALSE, children |-> {}]
    [] OTHER -> s

\* How the handle's methods present the answers; `shutdown` drops an error.
Verdict(m, answers) ==
  LET said == answers[1].say IN
  CASE m.cmd = "Status" -> "Status"
    [] m.cmd = "Shutdown" -> "Ok"
    [] said # "Ok" -> "RemoteError"
    [] m.cmd = "WhichChildren" -> "Children"
    [] OTHER -> "Ok"

\* What a method returns once it has all answers; `shutdown` returns ().
Returned(m, answers) ==
  [is |-> Verdict(m, answers), said |-> IF m.cmd = "Shutdown" THEN <<>> ELSE answers]

Fresh == [open |-> TRUE, children |-> Id]
None == [is |-> "-", said |-> <<>>]
Waiting == [is |-> "waiting", said |-> <<>>]
Failed == [is |-> "failed", said |-> <<>>]

Init ==
  /\ tree = Fresh
  /\ request = <<>>
  /\ outcome = [c \in Client |-> None]

Invoke(c, m) ==
  /\ outcome[c] # Waiting
  /\ request' = Append(request, [client |-> c, command |-> m, answers |-> <<>>])
  /\ outcome' = [outcome EXCEPT ![c] = Waiting]
  /\ UNCHANGED tree

Effect(k) ==
  LET r == request[k]  n == Len(r.answers) + 1 IN
  /\ n <= Len(Ops(r.command))
  /\ request' = [request EXCEPT ![k].answers =
                   Append(@, Answer(tree, Ops(r.command)[n], r.command))]
  /\ tree' = After(tree, Ops(r.command)[n], r.command)
  /\ UNCHANGED outcome

\* A client waits for its latest request.
Current(c, k) ==
  /\ outcome[c] = Waiting
  /\ request[k].client = c
  /\ \A j \in (k + 1)..Len(request) : request[j].client # c

Return(c, k) ==
  /\ Current(c, k)
  /\ Len(request[k].answers) = Len(Ops(request[k].command))
  /\ outcome' = [outcome EXCEPT ![c] = Returned(request[k].command, request[k].answers)]
  /\ UNCHANGED <<tree, request>>

Fail(c) ==
  /\ outcome[c] = Waiting
  /\ outcome' = [outcome EXCEPT ![c] = Failed]
  /\ UNCHANGED <<tree, request>>

\* A worker that is not restarted ends.
Leave(id) ==
  /\ tree' = [tree EXCEPT !.children = @ \ {id}]
  /\ UNCHANGED <<request, outcome>>

\* The remote process dies; another one may take its place.
Die == tree' = [open |-> FALSE, children |-> {}] /\ UNCHANGED <<request, outcome>>
Replace == tree' = Fresh /\ UNCHANGED <<request, outcome>>

Next ==
  \/ \E c \in Client, m \in Asks : Invoke(c, m)
  \/ \E k \in DOMAIN request : Effect(k)
  \/ \E c \in Client, k \in DOMAIN request : Return(c, k)
  \/ \E c \in Client : Fail(c)
  \/ \E id \in Id : Leave(id)
  \/ Die
  \/ Replace

Spec == Init /\ [][Next]_vars

================================================================================
