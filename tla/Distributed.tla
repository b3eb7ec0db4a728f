------------------------------ MODULE Distributed ------------------------------
(***************************************************************************)
(* Remote supervision (distributed.rs): handles that open a connection per  *)
(* call, a listener that serves each connection in a task of its own, and    *)
(* the supervisor they share, whose handlers Supervisor.tla models and which *)
(* appears here as its queue and its children.                               *)
(*                                                                           *)
(* A frame is a length and a body: nothing, a part or the whole of it has    *)
(* been written.  Connections break, losing what was not read, fall silent   *)
(* without either side noticing, and are given up by callers; the serving    *)
(* process crashes and is replaced.                                          *)
(*                                                                           *)
(* An operator X_Y written just before X is X with a plausible mistake in    *)
(* it; the specification never uses it.                                      *)
(***************************************************************************)
EXTENDS Integers, Sequences, FiniteSets

CONSTANTS
  Client,    \* tasks holding a handle
  Id,        \* the children of the supervisor
  LongId,    \* ids too long for a frame (MAX_MESSAGE_BYTES)
  Listable,  \* how many children a frame can list
  Asks,      \* the commands clients send
  MaxCalls, MaxFaults  \* bounds

RemoteCommand ==
  [cmd : {"Shutdown", "WhichChildren", "Status"}] \cup [cmd : {"TerminateChild"}, id : Id \cup LongId]

ASSUME DistributedAssumption ==
  /\ Asks \subseteq RemoteCommand
  /\ Listable \in Nat /\ MaxCalls \in Nat /\ MaxFaults \in Nat

VARIABLES
  sup,       \* the supervisor behind the server
  listener,  \* "open", "closed" after a failed accept, "dead" after a crash
  conn,      \* every connection, in the order of the calls
  result,    \* what each client's last call returned, or "waiting"
  calls, faults

vars == <<sup, listener, conn, result, calls, faults>>
bounds == <<calls, faults>>

\* The operators on commands and answers are those of the specification.
Calls == INSTANCE RemoteCalls WITH
  tree <- [open |-> sup.running, children |-> sup.children], request <- <<>>, outcome <- <<>>

Ops(m) == Calls!Ops(m)

\* `life` tells the supervisors of successive processes apart.
Fresh(life) == [running |-> TRUE, children |-> Id, queue |-> <<>>, life |-> life]
Stopped == [sup EXCEPT !.running = FALSE, !.children = {}, !.queue = <<>>]

\* A call that has not connected yet.  `due`, `late`, `acked`, `life`: history.
NewConn(c, m, late) ==
  [client |-> c, command |-> m, at |-> "connect", task |-> "none",
   up |-> "none", down |-> "none", cut |-> FALSE, silent |-> FALSE,
   answers |-> <<>>, due |-> <<>>, late |-> late, acked |-> FALSE, life |-> 0]

Init ==
  /\ sup = Fresh(0)
  /\ listener = "open"
  /\ conn = <<>>
  /\ result = [c \in Client |-> Calls!None]
  /\ calls = 0 /\ faults = 0

Fault == faults < MaxFaults /\ faults' = faults + 1 /\ UNCHANGED calls

(***************************************************************************)
(* The caller: send_command and the methods around it.                     *)
(***************************************************************************)

Invoke(c, m) ==
  /\ result[c] # Calls!Waiting
  /\ calls < MaxCalls
  /\ calls' = calls + 1
  /\ conn' = Append(conn, NewConn(c, m, \E j \in DOMAIN conn :
                                          conn[j].acked /\ conn[j].life = sup.life))
  /\ result' = [result EXCEPT ![c] = Calls!Waiting]
  /\ UNCHANGED <<sup, listener, faults>>

\* The call ends and the stream is dropped.
Left(k) == [conn[k] EXCEPT !.at = "left", !.cut = TRUE]

Fails(k, error) ==
  /\ conn' = [conn EXCEPT ![k] = Left(k)]
  /\ result' = [result EXCEPT ![conn[k].client] = [is |-> error, said |-> <<>>]]
  /\ UNCHANGED <<sup, listener>>

Connect(k) ==
  /\ conn[k].at = "connect"
  /\ listener = "open"
  /\ conn' = [conn EXCEPT ![k].at = "write", ![k].task = "backlog",
                          ![k].life = sup.life]
  /\ UNCHANGED <<sup, listener, result, bounds>>

ConnectRefused(k) ==
  /\ conn[k].at = "connect"
  /\ listener # "open"
  /\ Fails(k, "Io")
  /\ UNCHANGED bounds

TooLong(m) == m.cmd = "TerminateChild" /\ m.id \in LongId

\* send_message refuses before it writes anything.
RequestTooLarge(k) ==
  /\ conn[k].at = "write"
  /\ TooLong(conn[k].command)
  /\ Fails(k, "MessageTooLarge")
  /\ UNCHANGED bounds

Written(progress) == IF progress = "none" THEN "part" ELSE "whole"

\* send_message: the length, then the body.
WriteRequest(k) ==
  /\ conn[k].at = "write"
  /\ ~TooLong(conn[k].command)
  /\ ~conn[k].cut /\ ~conn[k].silent
  /\ conn' = [conn EXCEPT ![k].up = Written(@),
                          ![k].at = IF conn[k].up = "part" THEN "read" ELSE @]
  /\ UNCHANGED <<sup, listener, result, bounds>>

\* receive_message and the method's reading of the response.
ReadReply(k) ==
  /\ conn[k].at = "read"
  /\ conn[k].down = "whole"
  /\ ~conn[k].silent
  /\ conn' = [conn EXCEPT ![k] = [Left(k) EXCEPT !.acked = conn[k].command.cmd = "Shutdown"]]
  /\ result' = [result EXCEPT ![conn[k].client] =
                  Calls!Returned(conn[k].command, conn[k].answers)]
  /\ UNCHANGED <<sup, listener, bounds>>

\* The connection ended before the request or the reply was whole.
CallBroken(k) ==
  /\ \/ conn[k].at = "write" /\ ~TooLong(conn[k].command)
     \/ conn[k].at = "read" /\ conn[k].down # "whole"
  /\ conn[k].cut /\ ~conn[k].silent
  /\ Fails(k, "Io")
  /\ UNCHANGED bounds

GiveUp_KeepsStream(k) ==
  /\ conn[k].at \in {"connect", "write", "read"}
  /\ result' = [result EXCEPT ![conn[k].client] = [is |-> "Abandoned", said |-> <<>>]]
  /\ UNCHANGED <<sup, listener, conn>>
  /\ Fault

\* The caller drops the future, for instance because of a timeout of its own.
GiveUp(k) ==
  /\ conn[k].at \in {"connect", "write", "read"}
  /\ Fails(k, "Abandoned")
  /\ Fault

(***************************************************************************)
(* The network.                                                            *)
(***************************************************************************)

\* Both ends learn that the connection is gone; of what was on its way, what
\* was not read may be lost.
Break(k) ==
  /\ conn[k].task # "none" /\ ~conn[k].cut
  /\ \E u \in {conn[k].up, "none"}, d \in {conn[k].down, "none"} :
       conn' = [conn EXCEPT ![k].cut = TRUE, ![k].up = u, ![k].down = d]
  /\ Fault
  /\ UNCHANGED <<sup, listener, result>>

\* Nothing arrives any more and neither end learns of it.
FallSilent(k) ==
  /\ conn[k].task # "none" /\ ~conn[k].silent
  /\ conn[k].at # "left"
  /\ conn' = [conn EXCEPT ![k].silent = TRUE]
  /\ Fault
  /\ UNCHANGED <<sup, listener, result>>

(***************************************************************************)
(* The server: listen_unix, listen_tcp, handle_connection, process_command.*)
(***************************************************************************)

Accept_InTurn(k) ==
  /\ listener = "open"
  /\ conn[k].task = "backlog"
  /\ \A j \in DOMAIN conn : conn[j].task \in {"none", "backlog", "ended"}
  /\ conn' = [conn EXCEPT ![k].task = "read"]
  /\ UNCHANGED <<sup, listener, result, bounds>>

\* A task for each connection.
Accept(k) ==
  /\ listener = "open"
  /\ conn[k].task = "backlog"
  /\ conn' = [conn EXCEPT ![k].task = "read"]
  /\ UNCHANGED <<sup, listener, result, bounds>>

\* An error of accept ends the listener; connections not accepted are reset,
\* those being served are not affected.
AcceptFails ==
  /\ listener = "open"
  /\ listener' = "closed"
  /\ conn' = [k \in DOMAIN conn |->
                IF conn[k].task = "backlog" THEN [conn[k] EXCEPT !.task = "ended", !.cut = TRUE]
                ELSE conn[k]]
  /\ Fault
  /\ UNCHANGED <<sup, result>>

\* The task returns and the stream is dropped.
Ended(k) == [conn[k] EXCEPT !.task = "ended", !.cut = TRUE]

Receive(k) ==
  /\ conn[k].task = "read"
  /\ conn[k].up = "whole"
  /\ ~conn[k].silent
  /\ conn' = [conn EXCEPT ![k].task = "ask"]
  /\ UNCHANGED <<sup, listener, result, bounds>>

ReceiveFails(k) ==
  /\ conn[k].task = "read"
  /\ conn[k].up # "whole"
  /\ conn[k].cut /\ ~conn[k].silent
  /\ conn' = [conn EXCEPT ![k] = Ended(k)]
  /\ UNCHANGED <<sup, listener, result, bounds>>

NextOp(k) == Ops(conn[k].command)[Len(conn[k].answers) + 1]

\* Connection k once an operation of its command was answered.
Answered(k, a) ==
  [conn[k] EXCEPT !.answers = Append(@, a),
                  !.task = IF Len(conn[k].answers) + 1 = Len(Ops(conn[k].command))
                           THEN "write" ELSE "ask"]

\* The supervisor once it has served what is queued.
Drained ==
  LET q == {sup.queue[i] : i \in DOMAIN sup.queue}
      gone == {m.id : m \in {n \in q : n.op \in {"TerminateChild", "ChildTerminated"}}}
      open == sup.running /\ \A m \in q : m.op # "Shutdown"
  IN [open |-> open, children |-> IF open THEN sup.children \ gone ELSE {}]

\* The operation is sent to the supervisor; `due` is what it will say.
Asked(k, ask) ==
  [ask EXCEPT !.due = Append(@, Calls!Answer(Drained, NextOp(k), conn[k].command))]

Request(k) ==
  IF NextOp(k) = "TerminateChild"
  THEN [op |-> "TerminateChild", conn |-> k, id |-> conn[k].command.id]
  ELSE [op |-> NextOp(k), conn |-> k]

Queued_ShutdownFirst(m) == IF m.op = "Shutdown" THEN <<m>> \o sup.queue ELSE Append(sup.queue, m)

\* The supervisor's channel is unbounded and in order.
Queued(m) == Append(sup.queue, m)

\* process_command: the handle sends one operation.  `shutdown` does not wait;
\* a supervisor that has stopped answers nothing more.
Ask(k) ==
  /\ conn[k].task = "ask"
  /\ \/ /\ ~sup.running
        /\ conn' = [conn EXCEPT ![k] = Asked(k, Answered(k, Calls!Closed))]
        /\ UNCHANGED sup
     \/ /\ sup.running /\ NextOp(k) = "Shutdown"
        /\ sup' = [sup EXCEPT !.queue = Queued(Request(k))]
        /\ conn' = [conn EXCEPT ![k] = Asked(k, Answered(k, Calls!Says("Ok", {})))]
     \/ /\ sup.running /\ NextOp(k) # "Shutdown"
        /\ sup' = [sup EXCEPT !.queue = Queued(Request(k))]
        /\ conn' = [conn EXCEPT ![k] = Asked(k, [conn[k] EXCEPT !.task = "await"])]
  /\ UNCHANGED <<listener, result, bounds>>

ReplyTooLarge(k) ==
  conn[k].command.cmd = "WhichChildren" /\ Cardinality(conn[k].answers[1].children) > Listable

\* A reply too large for a frame, or a connection that is gone: the client is
\* not told what was done.
ReplyFails(k) ==
  /\ conn[k].task = "write"
  /\ ReplyTooLarge(k) \/ (conn[k].cut /\ ~conn[k].silent)
  /\ conn' = [conn EXCEPT ![k] = Ended(k)]
  /\ UNCHANGED <<sup, listener, result, bounds>>

WriteReply(k) ==
  /\ conn[k].task = "write"
  /\ ~ReplyTooLarge(k)
  /\ ~conn[k].cut \/ conn[k].silent
  /\ conn' = [conn EXCEPT ![k] = [(IF conn[k].down = "part" THEN Ended(k) ELSE conn[k])
                                    EXCEPT !.down = Written(@)]]
  /\ UNCHANGED <<sup, listener, result, bounds>>

(***************************************************************************)
(* The supervisor serves its queue in order.                               *)
(***************************************************************************)

ServeShutdown_KeepsServing ==
  /\ sup.running /\ sup.queue # <<>>
  /\ Head(sup.queue).op = "Shutdown"
  /\ sup' = [sup EXCEPT !.children = {}, !.queue = Tail(@)]
  /\ UNCHANGED <<listener, conn, result, bounds>>

\* Who still waits for an answer is told that the supervisor has stopped.
ServeShutdown ==
  /\ sup.running /\ sup.queue # <<>>
  /\ Head(sup.queue).op = "Shutdown"
  /\ conn' = [k \in DOMAIN conn |->
                IF conn[k].task = "await" THEN Answered(k, Calls!Closed) ELSE conn[k]]
  /\ sup' = Stopped
  /\ UNCHANGED <<listener, result, bounds>>

ServeCommand ==
  /\ sup.running /\ sup.queue # <<>>
  /\ LET m == Head(sup.queue)
         now == [open |-> TRUE, children |-> sup.children]
     IN /\ m.op \notin {"Shutdown", "ChildTerminated"}
        /\ sup' = [sup EXCEPT !.queue = Tail(@), !.children = Calls!After(now, m.op, m).children]
        /\ conn' = [conn EXCEPT ![m.conn] = Answered(m.conn, Calls!Answer(now, m.op, m))]
  /\ UNCHANGED <<listener, result, bounds>>

\* A worker that is not restarted has ended and reports.
ChildEnds(id) ==
  /\ sup.running /\ id \in sup.children
  /\ sup' = [sup EXCEPT !.queue = Queued([op |-> "ChildTerminated", id |-> id])]
  /\ Fault
  /\ UNCHANGED <<listener, conn, result>>

ServeChildTerminated ==
  /\ sup.running /\ sup.queue # <<>>
  /\ Head(sup.queue).op = "ChildTerminated"
  /\ sup' = [sup EXCEPT !.queue = Tail(@), !.children = @ \ {Head(sup.queue).id}]
  /\ UNCHANGED <<listener, conn, result, bounds>>

\* The serving process dies with all its tasks.
Crash ==
  /\ listener # "dead"
  /\ listener' = "dead"
  /\ sup' = Stopped
  /\ conn' = [k \in DOMAIN conn |->
                IF conn[k].task = "none" THEN conn[k] ELSE Ended(k)]
  /\ Fault
  /\ UNCHANGED result

\* Another process starts the tree and listens at the same address; the socket
\* file a Unix listener left behind is removed first.
Listen ==
  /\ listener = "dead"
  /\ listener' = "open"
  /\ sup' = Fresh(sup.life + 1)
  /\ conn' = [k \in DOMAIN conn |-> [conn[k] EXCEPT !.late = FALSE]]
  /\ UNCHANGED <<result, bounds>>

(***************************************************************************)
(* The specification.                                                      *)
(***************************************************************************)

Calling(k) ==
  \/ Connect(k) \/ ConnectRefused(k) \/ RequestTooLarge(k) \/ WriteRequest(k)
  \/ ReadReply(k) \/ CallBroken(k)

Serving(k) ==
  Accept(k) \/ Receive(k) \/ ReceiveFails(k) \/ Ask(k) \/ ReplyFails(k) \/ WriteReply(k)

Supervising == ServeShutdown \/ ServeCommand \/ ServeChildTerminated

Scheduled == Supervising \/ \E k \in DOMAIN conn : Calling(k) \/ Serving(k)

Failing ==
  \/ \E k \in DOMAIN conn : GiveUp(k) \/ Break(k) \/ FallSilent(k)
  \/ \E id \in Id : ChildEnds(id)
  \/ AcceptFails \/ Crash

Next ==
  \/ Scheduled \/ Failing \/ Listen
  \/ \E c \in Client, m \in Asks : Invoke(c, m)

Spec == Init /\ [][Next]_vars

\* The runtimes of both processes go on with some ready task while there is one,
\* and the supervisor's handlers return (Supervisor.tla).  Nothing is assumed
\* of callers, of the network or of whoever replaces a dead process.
FairSpec == Spec /\ WF_vars(Scheduled)

(***************************************************************************)
(* Properties.                                                             *)
(***************************************************************************)

Answers == Seq([say : {"Ok", "ChildNotFound", "ShuttingDown"}, children : SUBSET Id])
Progress == {"none", "part", "whole"}
Conn == [client : Client, command : Asks, at : {"connect", "write", "read", "left"},
         task : {"none", "backlog", "read", "ask", "await", "write", "ended"},
         up : Progress, down : Progress, cut : BOOLEAN, silent : BOOLEAN,
         answers : Answers, due : Answers, late : BOOLEAN, acked : BOOLEAN, life : 0..MaxFaults]
Verdicts == {"-", "waiting", "Ok", "Children", "Status", "RemoteError", "Io",
             "MessageTooLarge", "Abandoned"}

\* The variables have their types; a client waits for exactly one connection, and
\* keeps none of the calls that returned or that it gave up.
TypeOK ==
  /\ sup.running \in BOOLEAN /\ sup.life \in 0..MaxFaults /\ sup.children \subseteq Id
  /\ \A i \in DOMAIN sup.queue : sup.queue[i].op \in {"Shutdown", "WhichChildren",
       "TerminateChild", "GetRestartStrategy", "GetUptime", "ChildTerminated"}
  /\ listener \in {"open", "closed", "dead"}
  /\ conn \in Seq(Conn)
  /\ result \in [Client -> [is : Verdicts, said : Answers]]
  /\ \A c \in Client :
       Cardinality({k \in DOMAIN conn : conn[k].client = c /\ conn[k].at # "left"})
         = IF result[c] = Calls!Waiting THEN 1 ELSE 0
  /\ calls \in 0..MaxCalls /\ faults \in 0..MaxFaults

\* Once shutdown() has returned Ok to anyone, no call made later, by whoever,
\* reads or changes the supervisor any more, although the shutdown was only
\* requested and each call is served by a task of its own (Shutdown in
\* process_command, SupervisorHandle::shutdown).
ShutdownIsFinal ==
  \A k \in DOMAIN conn :
    conn[k].late /\ conn[k].command.cmd # "Shutdown" =>
      \A i \in DOMAIN conn[k].answers : conn[k].answers[i].say = "ShuttingDown"

StatusRead(k) ==
  conn[k].command.cmd = "Status" /\ Len(conn[k].answers) = Len(Ops(conn[k].command))
Knows(k, op) ==
  \E i \in DOMAIN conn[k].answers :
    Ops(conn[k].command)[i] = op /\ conn[k].answers[i].say = "Ok"

\* The three questions behind one Status may find the supervisor stopping between
\* them, but a status that does not know the strategy any more does not report
\* children or an uptime either (the order of process_command's questions; the
\* defaults it puts in place of an error).
StatusNotMixed ==
  \A k \in DOMAIN conn :
    StatusRead(k) /\ ~Knows(k, "GetRestartStrategy") =>
      ~Knows(k, "GetUptime") /\ ~Knows(k, "WhichChildren")

\* Every call either returns, whatever breaks or crashes, or its own connection
\* has fallen silent: there is no timeout, but a peer that stops talking in the
\* middle of a frame holds up nobody else (a task per connection).
CallsReturn ==
  \A c \in Client :
    result[c] = Calls!Waiting
      ~> (result[c] # Calls!Waiting
            \/ \E k \in DOMAIN conn : conn[k].client = c /\ conn[k].at # "left" /\ conn[k].silent)

\* The abstract calls: an operation takes effect when it is queued, as all that
\* changes the supervisor goes through the queue.
Abstract == INSTANCE RemoteCalls WITH
  tree    <- Drained,
  request <- [k \in DOMAIN conn |->
                [client |-> conn[k].client, command |-> conn[k].command, answers |-> conn[k].due]],
  outcome <- [c \in Client |->
                IF result[c].is \in {"Io", "MessageTooLarge", "Abandoned"}
                THEN Calls!Failed ELSE result[c]]

\* A remote call takes effect at most once and atomically, a call that returns has
\* taken effect, and its answer is that of the supervisor at that instant; only a
\* failed call is in doubt (send_command, handle_connection, process_command).
ImplementsRemoteCalls == Abstract!Spec

================================================================================
