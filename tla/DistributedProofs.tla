---------------------------- MODULE DistributedProofs -----------------------------
(***************************************************************************)
(* Theorems about Distributed, for every set of clients, children and      *)
(* commands and for every bound: among them, that it implements            *)
(* RemoteCalls.                                                            *)
(***************************************************************************)
EXTENDS Distributed, SequenceTheorems, FiniteSetTheorems, TLAPS

(***************************************************************************)
(* Commands and answers.                                                   *)
(***************************************************************************)

Op == {"Shutdown", "WhichChildren", "TerminateChild", "GetRestartStrategy", "GetUptime"}
Saying == [say : {"Ok", "ChildNotFound", "ShuttingDown"}, children : SUBSET Id]

\* The operations of a command; only Status has several.
LEMMA OpsType ==
  ASSUME NEW m \in RemoteCommand
  PROVE  /\ Ops(m) \in Seq(Op) /\ Len(Ops(m)) \in Nat \ {0}
         /\ \A i \in 1..Len(Ops(m)) :
              /\ Ops(m)[i] \in Op
              /\ Ops(m)[i] = "TerminateChild" <=> m.cmd = "TerminateChild"
              /\ Ops(m)[i] = "Shutdown" <=> m.cmd = "Shutdown"
         /\ m.cmd = "Status" =>
              Len(Ops(m)) = 3 /\ Ops(m)[1] = "GetRestartStrategy"
         /\ m.cmd = "Shutdown" => Len(Ops(m)) = 1
<1>1. CASE m.cmd = "Status"
  <2>1. Ops(m) = <<"GetRestartStrategy", "GetUptime", "WhichChildren">>
    BY <1>1 DEF Ops, Calls!Ops
  <2> QED BY <1>1, <2>1 DEF Op
<1>2. CASE m.cmd # "Status"
  <2>1. Ops(m) = <<m.cmd>> /\ m.cmd \in Op
    BY <1>2 DEF Ops, Calls!Ops, RemoteCommand, Op
  <2> QED BY <1>2, <2>1
<1> QED BY <1>1, <1>2

\* A supervisor that is closed answers Closed, one that is open does not.
LEMMA AnswerType ==
  ASSUME NEW s, s.children \subseteq Id, NEW op, NEW m
  PROVE  /\ Calls!Answer(s, op, m) \in Saying
         /\ ~s.open => Calls!Answer(s, op, m) = Calls!Closed
         /\ s.open => Calls!Answer(s, op, m).say # "ShuttingDown"
         /\ op # "TerminateChild" => Calls!Answer(s, op, m).say # "ChildNotFound"
BY DEF Calls!Answer, Calls!Closed, Calls!Says, Saying

\* The answer depends on the command by the child that it names.
LEMMA AnswerById ==
  ASSUME NEW s, NEW op, NEW m, NEW n, op = "TerminateChild" => m.id = n.id
  PROVE  Calls!Answer(s, op, m) = Calls!Answer(s, op, n)
BY DEF Calls!Answer, Calls!Closed, Calls!Says

(***************************************************************************)
(* The supervisor and its queue.                                           *)
(***************************************************************************)

Message ==
  [op : Op \ {"TerminateChild"}, conn : Nat]
    \cup [op : {"TerminateChild"}, conn : Nat, id : Id \cup LongId]
    \cup [op : {"ChildTerminated"}, id : Id]

Supervisor == [running : BOOLEAN, children : SUBSET Id, queue : Seq(Message), life : 0..MaxFaults]

Drops(m, id) == m.op \in {"TerminateChild", "ChildTerminated"} /\ m.id = id

\* What a message makes of the supervisor when it is served.
Gone == [open |-> FALSE, children |-> {}]
Served(s, m) ==
  IF s.open /\ m.op # "Shutdown"
  THEN [open |-> TRUE, children |-> {id \in s.children : ~Drops(m, id)}]
  ELSE Gone

\* Supervisor s once it has served the first n messages of its queue, and all.
Stays(s, n, id) == \A j \in 1..n : ~Drops(s.queue[j], id)
Ahead(s, n) ==
  IF \A j \in 1..n : s.queue[j].op # "Shutdown"
  THEN [open |-> TRUE, children |-> {id \in s.children : Stays(s, n, id)}]
  ELSE Gone

DrainedOf(s) == IF s.running THEN Ahead(s, Len(s.queue)) ELSE Gone

\* That is how Drained computes it, now and after a step.
LEMMA DrainedIs ==
  /\ sup \in Supervisor => Drained = DrainedOf(sup)
  /\ sup' \in Supervisor => Drained' = DrainedOf(sup')
<1> DEFINE Queue(s) == {s.queue[i] : i \in DOMAIN s.queue}
           Left_(s) == {m.id : m \in {n \in Queue(s) : n.op \in {"TerminateChild", "ChildTerminated"}}}
           Open(s) == s.running /\ \A m \in Queue(s) : m.op # "Shutdown"
           Result(s) == [open |-> Open(s), children |-> IF Open(s) THEN s.children \ Left_(s) ELSE {}]
<1>1. Drained = Result(sup) /\ Drained' = Result(sup')
  BY DEF Drained
<1>2. ASSUME NEW s \in Supervisor PROVE Result(s) = DrainedOf(s)
  <2>1. DOMAIN s.queue = 1..Len(s.queue)
    BY LenProperties DEF Supervisor
  <2>2. Open(s) <=> s.running /\ \A j \in 1..Len(s.queue) : s.queue[j].op # "Shutdown"
    BY <2>1
  <2>3. s.children \ Left_(s) = {id \in s.children : Stays(s, Len(s.queue), id)}
    BY <2>1 DEF Drops, Stays
  <2>4. (Open(s) => Open(s) = TRUE) /\ (~Open(s) => Open(s) = FALSE)
    OBVIOUS
  <2> HIDE DEF Left_, Open
  <2>5. CASE Open(s)
    <3>1. Result(s) = [open |-> TRUE, children |-> s.children \ Left_(s)]
      BY <2>4, <2>5
    <3>2. s.running /\ \A j \in 1..Len(s.queue) : s.queue[j].op # "Shutdown"
      BY <2>2, <2>5
    <3> QED BY <2>3, <3>1, <3>2 DEF DrainedOf, Ahead
  <2>6. CASE ~Open(s)
    <3>1. Result(s) = Gone
      BY <2>4, <2>6 DEF Gone
    <3>2. s.running => Ahead(s, Len(s.queue)) = Gone
      BY <2>2, <2>6 DEF Ahead
    <3> QED BY <3>1, <3>2 DEF DrainedOf
  <2> QED BY <2>5, <2>6
<1> QED BY <1>1, <1>2

\* What is ahead is a state of the supervisor.
LEMMA AheadType ==
  ASSUME NEW s \in Supervisor
  PROVE  /\ \A n : Ahead(s, n).children \subseteq Id
         /\ DrainedOf(s).children \subseteq Id
         /\ \/ DrainedOf(s) = Gone
            \/ DrainedOf(s) = [open |-> TRUE, children |-> DrainedOf(s).children]
<1>1. \A n : /\ Ahead(s, n).children \subseteq Id
             /\ \/ Ahead(s, n) = Gone
                \/ Ahead(s, n) = [open |-> TRUE, children |-> Ahead(s, n).children]
  BY DEF Ahead, Gone, Supervisor
<1>2. Gone.children = {}
  BY DEF Gone
<1> QED BY <1>1, <1>2 DEF DrainedOf

\* A message is queued: what is ahead of the others stays.
LEMMA AheadAppend ==
  ASSUME NEW s \in Supervisor, NEW t \in Supervisor, NEW m \in Message,
         t.queue = Append(s.queue, m), t.children = s.children, t.running <=> s.running
  PROVE  /\ \A n \in 0..Len(s.queue) : Ahead(t, n) = Ahead(s, n)
         /\ s.running => DrainedOf(t) = Served(DrainedOf(s), m)
<1> DEFINE l == Len(s.queue)
<1>1. /\ l \in Nat /\ Len(t.queue) = l + 1 /\ t.queue[l + 1] = m
      /\ \A i \in 1..l : t.queue[i] = s.queue[i]
  BY AppendProperties, LenProperties DEF Supervisor
<1> HIDE DEF l
<1>2. ASSUME NEW n \in 0..l PROVE Ahead(t, n) = Ahead(s, n)
  <2>1. \A j \in 1..n : t.queue[j] = s.queue[j]
    BY <1>1
  <2>2. \A id : Stays(t, n, id) <=> Stays(s, n, id)
    BY <2>1 DEF Stays
  <2> QED BY <2>1, <2>2 DEF Ahead
<1>3. Ahead(t, l + 1) = Served(Ahead(s, l), m)
  <2>1. \A j : j \in 1..(l + 1) <=> j \in 1..l \/ j = l + 1
    BY <1>1
  <2>2. (\A j \in 1..(l + 1) : t.queue[j].op # "Shutdown")
          <=> (\A j \in 1..l : s.queue[j].op # "Shutdown") /\ m.op # "Shutdown"
    BY <1>1, <2>1
  <2>3. \A id : Stays(t, l + 1, id) <=> Stays(s, l, id) /\ ~Drops(m, id)
    BY <1>1, <2>1 DEF Stays
  <2>4. CASE \A j \in 1..l : s.queue[j].op # "Shutdown"
    <3>1. Ahead(s, l) = [open |-> TRUE, children |-> {id \in s.children : Stays(s, l, id)}]
      BY <2>4 DEF Ahead
    <3>2. {id \in t.children : Stays(t, l + 1, id)} = {id \in Ahead(s, l).children : ~Drops(m, id)}
      BY <2>3, <3>1
    <3>3. Ahead(t, l + 1) = IF m.op # "Shutdown"
                            THEN [open |-> TRUE, children |-> {id \in t.children : Stays(t, l + 1, id)}]
                            ELSE Gone
      BY <2>2, <2>4 DEF Ahead
    <3>4. Ahead(s, l).open = TRUE
      BY <3>1
    <3> QED BY <3>2, <3>3, <3>4 DEF Served
  <2>5. CASE ~\A j \in 1..l : s.queue[j].op # "Shutdown"
    <3>1. Ahead(s, l) = Gone /\ Ahead(t, l + 1) = Gone
      BY <2>2, <2>5 DEF Ahead
    <3>2. Gone.open = FALSE
      BY DEF Gone
    <3> QED BY <3>1, <3>2 DEF Served
  <2> QED BY <2>4, <2>5
<1> QED BY <1>1, <1>2, <1>3 DEF DrainedOf, l

\* The first message is served: what is ahead of the others stays.
LEMMA AheadTail ==
  ASSUME NEW s \in Supervisor, NEW t \in Supervisor, s.queue # <<>>,
         Head(s.queue).op # "Shutdown", t.queue = Tail(s.queue), t.running <=> s.running,
         t.children = {id \in s.children : ~Drops(Head(s.queue), id)}
  PROVE  /\ \A n \in 1..Len(s.queue) : Ahead(t, n - 1) = Ahead(s, n)
         /\ DrainedOf(t) = DrainedOf(s)
<1> DEFINE l == Len(s.queue)
           m == Head(s.queue)
<1>1. /\ l \in Nat \ {0} /\ s.queue[1] = m /\ Len(t.queue) = l - 1
      /\ \A i \in 1..(l - 1) : t.queue[i] = s.queue[i + 1]
  <2>1. s.queue \in Seq(Message) /\ l \in Nat \ {0}
    BY EmptySeq DEF Supervisor
  <2>2. /\ s.queue[1] = m /\ Len(Tail(s.queue)) = l - 1
        /\ \A i \in 1..Len(Tail(s.queue)) : Tail(s.queue)[i] = s.queue[i + 1]
    BY <2>1, HeadTailProperties
  <2> QED BY <2>1, <2>2
<1>2. m.op # "Shutdown" /\ t.children = {id \in s.children : ~Drops(m, id)}
  OBVIOUS
<1> HIDE DEF l, m
<1>3. ASSUME NEW n \in 1..l PROVE Ahead(t, n - 1) = Ahead(s, n)
  <2>1. /\ \A j : j \in 1..n <=> j = 1 \/ (j - 1 \in 1..(n - 1) /\ j = (j - 1) + 1)
        /\ \A j \in 1..(n - 1) : j + 1 \in 1..n
    BY <1>1
  <2>2. \A j \in 1..(n - 1) : t.queue[j] = s.queue[j + 1]
    BY <1>1
  <2>3. (\A j \in 1..n : s.queue[j].op # "Shutdown")
          <=> \A j \in 1..(n - 1) : t.queue[j].op # "Shutdown"
    <3>1. ASSUME \A j \in 1..n : s.queue[j].op # "Shutdown", NEW j \in 1..(n - 1)
          PROVE  t.queue[j].op # "Shutdown"
      BY <2>1, <2>2, <3>1
    <3>2. ASSUME \A j \in 1..(n - 1) : t.queue[j].op # "Shutdown", NEW j \in 1..n
          PROVE  s.queue[j].op # "Shutdown"
      <4>1. CASE j = 1
        BY <1>1, <1>2, <4>1
      <4>2. CASE j # 1
        <5>1. j - 1 \in 1..(n - 1) /\ s.queue[j] = t.queue[j - 1]
          BY <2>1, <2>2, <4>2
        <5> QED BY <3>2, <5>1
      <4> QED BY <4>1, <4>2
    <3> QED BY <3>1, <3>2
  <2>4. \A id : Stays(s, n, id) <=> ~Drops(m, id) /\ Stays(t, n - 1, id)
    BY <1>1, <2>1, <2>2 DEF Stays
  <2>5. {id \in t.children : Stays(t, n - 1, id)} = {id \in s.children : Stays(s, n, id)}
    BY <1>2, <2>4
  <2> QED BY <2>3, <2>5 DEF Ahead
<1>4. l \in 1..l
  BY <1>1
<1> QED BY <1>1, <1>3, <1>4 DEF DrainedOf, l

(***************************************************************************)
(* The inductive invariant.                                                *)
(***************************************************************************)

\* A dead process serves nobody.
VarTypes ==
  /\ sup \in Supervisor
  /\ listener \in {"open", "closed", "dead"}
  /\ conn \in Seq(Conn)
  /\ result \in [Client -> [is : Verdicts, said : Answers]]
  /\ calls \in 0..MaxCalls /\ faults \in 0..MaxFaults
  /\ sup.life + (IF listener = "dead" THEN 1 ELSE 0) <= faults
  /\ listener = "dead" => \A k \in DOMAIN conn : conn[k].task \in {"none", "ended"}

\* A client waits for the last of its connections, and for nothing else.
Waits ==
  /\ \A k \in DOMAIN conn : conn[k].at # "left" =>
       /\ result[conn[k].client] = Calls!Waiting
       /\ \A j \in DOMAIN conn : j > k => conn[j].client # conn[k].client
  /\ \A c \in Client : result[c] = Calls!Waiting =>
       \E k \in DOMAIN conn : conn[k].client = c /\ conn[k].at # "left"

\* How far a connection is with the operations of its command: `due` is ahead of
\* the answers by the one that is awaited, and agrees with them (but for a
\* shutdown, which is answered before it is served).
Step(c) ==
  LET n == Len(Ops(c.command)) IN
  /\ c.at = "connect" => c.task = "none"
  /\ c.task \in {"none", "backlog", "read"} => c.answers = <<>> /\ c.due = <<>>
  /\ c.task = "ask" => Len(c.answers) < n /\ Len(c.due) = Len(c.answers)
  /\ c.task = "await" =>
       Len(c.answers) < n /\ Len(c.due) = Len(c.answers) + 1 /\ c.command.cmd # "Shutdown"
  /\ c.task = "write" \/ c.down # "none" => Len(c.answers) = n /\ Len(c.due) = n
  /\ c.down # "none" => c.task \in {"write", "ended"}
  /\ Len(c.answers) <= Len(c.due) /\ Len(c.due) <= n
  /\ c.command.cmd # "Shutdown" =>
       \A i \in 1..Len(c.answers) : c.answers[i] = c.due[i]

Steps == \A k \in DOMAIN conn : Step(conn[k])

IsRequest(m) == m.op \notin {"Shutdown", "ChildTerminated"}

\* A request is the one its connection awaits, and what was predicted is what it
\* will be answered when what is ahead of it is served.
Predicted(i) ==
  LET m == sup.queue[i]  k == sup.queue[i].conn IN
  /\ k \in DOMAIN conn /\ conn[k].task = "await"
  /\ m.op = Ops(conn[k].command)[Len(conn[k].due)]
  /\ m.op = "TerminateChild" => m.id = conn[k].command.id
  /\ conn[k].due[Len(conn[k].due)] = Calls!Answer(Ahead(sup, i - 1), m.op, m)

\* Each connection that waits has one request in the queue, and no other has any.
Queues ==
  /\ ~sup.running => sup.queue = <<>>
  /\ \A i \in DOMAIN sup.queue : IsRequest(sup.queue[i]) =>
       /\ Predicted(i)
       /\ \A j \in DOMAIN sup.queue :
            IsRequest(sup.queue[j]) /\ sup.queue[j].conn = sup.queue[i].conn => j = i
  /\ \A k \in DOMAIN conn : conn[k].task = "await" =>
       \E i \in DOMAIN sup.queue : IsRequest(sup.queue[i]) /\ sup.queue[i].conn = k

\* Operation i was sent to a supervisor that is closed.
Refused(c, i) == c.due[i].say = "ShuttingDown"

\* Closed stays closed while the process lives, for calls made after a shutdown
\* returned and from one question of a call to its next: what that means for
\* connection c when the process is in its given life, and open or not.
Shuts(c, life, open) ==
  /\ c.life <= life
  /\ c.acked => c.command.cmd = "Shutdown" /\ c.due # <<>>
  /\ c.command.cmd = "Shutdown" /\ c.due # <<>> /\ c.life = life => ~open
  /\ c.late => ~open /\ \A i \in 1..Len(c.due) : Refused(c, i)
  /\ c.task \in {"ask", "await"} /\ (\E i \in 1..Len(c.due) : Refused(c, i)) => ~open
  /\ \A i, j \in 1..Len(c.due) : i < j /\ Refused(c, i) => Refused(c, j)
  /\ c.command.cmd = "Status" => \A i \in 1..Len(c.due) : c.due[i].say # "ChildNotFound"

Closes == \A k \in DOMAIN conn : Shuts(conn[k], sup.life, Drained.open)

IInv == VarTypes /\ Waits /\ Steps /\ Queues /\ Closes

(***************************************************************************)
(* Moves: what every step does to the connections but the sending of an    *)
(* operation, a new call, and nothing.                                     *)
(***************************************************************************)

\* What a connection keeps, and that it keeps Step.
Moved(c, d) ==
  /\ d.client = c.client /\ d.command = c.command /\ d.due = c.due
  /\ d.late => c.late
  /\ d.task \in {"ask", "await"} => c.task \in {"ask", "await"} \/ c.due = <<>>
  /\ d.life # c.life => d.life = sup.life /\ c.due = <<>>
  /\ d.acked => c.acked \/ (c.command.cmd = "Shutdown" /\ c.due # <<>>)
  /\ c.task \in {"none", "ended"} => d.task = c.task \/ listener = "open"
  /\ Step(d)

Moves ==
  /\ DOMAIN conn' = DOMAIN conn /\ conn' \in Seq(Conn)
  /\ \A k \in DOMAIN conn : Moved(conn[k], conn'[k])

\* None begins or ends to wait for the supervisor, or leaves.
SameAwait == \A k \in DOMAIN conn : conn'[k].task = "await" <=> conn[k].task = "await"
SameAt == \A k \in DOMAIN conn : conn'[k].at = "left" <=> conn[k].at = "left"

\* What a connection in hand is known to be.
LEMMA ConnIs ==
  ASSUME VarTypes, Steps, NEW k \in DOMAIN conn
  PROVE  /\ conn[k] \in Conn /\ Step(conn[k]) /\ conn[k].command \in RemoteCommand
         /\ conn[k].answers \in Seq(Saying) /\ conn[k].due \in Seq(Saying)
         /\ DOMAIN conn = 1..Len(conn) /\ Len(conn) \in Nat /\ k \in 1..Len(conn)
<1>1. conn \in Seq(Conn)
  BY DEF VarTypes
<1>2. conn[k] \in Conn /\ DOMAIN conn = 1..Len(conn) /\ Len(conn) \in Nat
  BY <1>1, ElementOfSeq, LenProperties
<1>3. conn[k].command \in RemoteCommand
  BY <1>2, DistributedAssumption DEF Conn
<1>4. conn[k].answers \in Seq(Saying) /\ conn[k].due \in Seq(Saying)
  BY <1>2 DEF Conn, Answers, Saying
<1> QED BY <1>2, <1>3, <1>4 DEF Steps

\* One connection changes.
LEMMA OneChanges ==
  ASSUME VarTypes, NEW k \in DOMAIN conn, NEW r \in Conn, conn' = [conn EXCEPT ![k] = r]
  PROVE  /\ DOMAIN conn' = DOMAIN conn /\ conn' \in Seq(Conn) /\ conn'[k] = r
         /\ \A j \in DOMAIN conn : j # k => conn'[j] = conn[j]
<1>1. conn \in Seq(Conn)
  BY DEF VarTypes
<1>2. conn' \in Seq(Conn)
  BY <1>1, ExceptSeq
<1> QED BY <1>1, <1>2

\* One connection moves.
LEMMA OneMoves ==
  ASSUME VarTypes, Steps, NEW k \in DOMAIN conn, NEW r \in Conn, conn' = [conn EXCEPT ![k] = r],
         Moved(conn[k], r)
  PROVE  /\ Moves /\ conn'[k] = r
         /\ \A j \in DOMAIN conn : j # k => conn'[j] = conn[j]
         /\ (r.task = "await" <=> conn[k].task = "await") => SameAwait
         /\ (r.at = "left" <=> conn[k].at = "left") => SameAt
<1>1. /\ DOMAIN conn' = DOMAIN conn /\ conn' \in Seq(Conn) /\ conn'[k] = r
      /\ \A j \in DOMAIN conn : j # k => conn'[j] = conn[j]
  BY OneChanges
<1>2. \A j \in DOMAIN conn : Step(conn[j])
  BY DEF Steps
<1>3. \A j \in DOMAIN conn : Moved(conn[j], conn'[j])
  BY <1>1, <1>2 DEF Moved
<1>4. (r.task = "await" <=> conn[k].task = "await") => SameAwait
  BY <1>1 DEF SameAwait
<1>5. (r.at = "left" <=> conn[k].at = "left") => SameAt
  BY <1>1 DEF SameAt
<1> QED BY <1>1, <1>3, <1>4, <1>5 DEF Moves

(***************************************************************************)
(* The caller and the network.                                             *)
(***************************************************************************)

\* A call ends; only a reply tells that a shutdown was asked for.
LEMMA LeftMoves ==
  ASSUME NEW c \in Conn, Step(c), NEW b \in BOOLEAN, NEW r,
         \/ r = [c EXCEPT !.at = "left", !.cut = TRUE]
         \/ /\ r = [[c EXCEPT !.at = "left", !.cut = TRUE] EXCEPT !.acked = b]
            /\ b => c.command.cmd = "Shutdown" /\ c.due # <<>>
  PROVE  r \in Conn /\ Moved(c, r) /\ r.at = "left" /\ r.task = c.task
<1>1. CASE r = [c EXCEPT !.at = "left", !.cut = TRUE]
  <2>1. /\ r \in Conn /\ r.client = c.client /\ r.command = c.command /\ r.due = c.due
        /\ r.late = c.late /\ r.life = c.life /\ r.acked = c.acked
        /\ r.at = "left" /\ r.task = c.task /\ r.answers = c.answers /\ r.down = c.down
    BY <1>1 DEF Conn
  <2> QED BY <2>1 DEF Moved, Step
<1>2. CASE /\ r = [[c EXCEPT !.at = "left", !.cut = TRUE] EXCEPT !.acked = b]
           /\ b => c.command.cmd = "Shutdown" /\ c.due # <<>>
  <2>1. /\ r \in Conn /\ r.client = c.client /\ r.command = c.command /\ r.due = c.due
        /\ r.late = c.late /\ r.life = c.life /\ r.acked = b
        /\ r.at = "left" /\ r.task = c.task /\ r.answers = c.answers /\ r.down = c.down
    BY <1>2 DEF Conn
  <2> QED BY <1>2, <2>1 DEF Moved, Step
<1> QED BY <1>1, <1>2

\* It connects, writes, or the network cuts it off.
LEMMA UnderWayMoves ==
  ASSUME VarTypes, NEW c \in Conn, Step(c), NEW r,
         \/ /\ c.at = "connect" /\ listener = "open"
            /\ r = [c EXCEPT !.at = "write", !.task = "backlog", !.life = sup.life]
         \/ \E u \in Progress, a \in {"read", "write"} :
              c.at = "write" /\ r = [c EXCEPT !.up = u, !.at = a]
         \/ \E u \in Progress, d \in {c.down, "none"} :
              r = [c EXCEPT !.cut = TRUE, !.up = u, !.down = d]
         \/ r = [c EXCEPT !.silent = TRUE]
  PROVE  /\ r \in Conn /\ Moved(c, r)
         /\ (r.at = "left" <=> c.at = "left") /\ (r.task = "await" <=> c.task = "await")
<1>1. CASE /\ c.at = "connect" /\ listener = "open"
           /\ r = [c EXCEPT !.at = "write", !.task = "backlog", !.life = sup.life]
  <2>1. sup.life \in 0..MaxFaults
    BY DEF VarTypes, Supervisor
  <2>2. /\ r \in Conn /\ r.client = c.client /\ r.command = c.command /\ r.due = c.due
        /\ r.late = c.late /\ r.life = sup.life /\ r.acked = c.acked
        /\ r.at = "write" /\ r.task = "backlog" /\ r.answers = c.answers /\ r.down = c.down
    BY <1>1, <2>1 DEF Conn
  <2> QED BY <1>1, <2>2 DEF Moved, Step
<1>2. CASE \E u \in Progress, a \in {"read", "write"} :
             c.at = "write" /\ r = [c EXCEPT !.up = u, !.at = a]
  <2> PICK u \in Progress, a \in {"read", "write"} :
             c.at = "write" /\ r = [c EXCEPT !.up = u, !.at = a]
    BY <1>2
  <2>1. /\ r \in Conn /\ r.client = c.client /\ r.command = c.command /\ r.due = c.due
        /\ r.late = c.late /\ r.life = c.life /\ r.acked = c.acked
        /\ r.at = a /\ r.task = c.task /\ r.answers = c.answers /\ r.down = c.down
    BY DEF Conn
  <2> QED BY <2>1 DEF Moved, Step
<1>3. CASE \E u \in Progress, d \in {c.down, "none"} :
             r = [c EXCEPT !.cut = TRUE, !.up = u, !.down = d]
  <2> PICK u \in Progress, d \in {c.down, "none"} :
             r = [c EXCEPT !.cut = TRUE, !.up = u, !.down = d]
    BY <1>3
  <2>1. d \in Progress
    BY DEF Conn, Progress
  <2>2. /\ r \in Conn /\ r.client = c.client /\ r.command = c.command /\ r.due = c.due
        /\ r.late = c.late /\ r.life = c.life /\ r.acked = c.acked
        /\ r.at = c.at /\ r.task = c.task /\ r.answers = c.answers /\ r.down = d
    BY <2>1 DEF Conn
  <2> QED BY <2>2 DEF Moved, Step
<1>4. CASE r = [c EXCEPT !.silent = TRUE]
  <2>1. /\ r \in Conn /\ r.client = c.client /\ r.command = c.command /\ r.due = c.due
        /\ r.late = c.late /\ r.life = c.life /\ r.acked = c.acked
        /\ r.at = c.at /\ r.task = c.task /\ r.answers = c.answers /\ r.down = c.down
    BY <1>4 DEF Conn
  <2> QED BY <2>1 DEF Moved, Step
<1> QED BY <1>1, <1>2, <1>3, <1>4

\* The call of connection k ends, by a failure or with a reply.
Leaves(k) ==
  /\ conn[k].at # "left" /\ conn'[k].at = "left"
  /\ \A j \in DOMAIN conn : j # k => conn'[j] = conn[j]
  /\ UNCHANGED <<sup, listener>>

CallFails(k) ==
  ConnectRefused(k) \/ RequestTooLarge(k) \/ CallBroken(k) \/ GiveUp(k)

Failure == {"Io", "MessageTooLarge", "Abandoned"}

LEMMA FailingMoves ==
  ASSUME IInv, NEW k \in DOMAIN conn, CallFails(k)
  PROVE  /\ Moves /\ SameAwait /\ Leaves(k)
         /\ \E e \in Failure : result' = [result EXCEPT ![conn[k].client] = [is |-> e, said |-> <<>>]]
<1>1. \E e \in Failure : Fails(k, e)
  BY DEF CallFails, ConnectRefused, RequestTooLarge, CallBroken, GiveUp, Failure
<1>2. conn[k].at # "left"
  BY DEF CallFails, ConnectRefused, RequestTooLarge, CallBroken, GiveUp
<1>3. /\ conn' = [conn EXCEPT ![k] = Left(k)] /\ UNCHANGED <<sup, listener>>
      /\ \E e \in Failure : result' = [result EXCEPT ![conn[k].client] = [is |-> e, said |-> <<>>]]
  BY <1>1 DEF Fails
<1>4. conn[k] \in Conn /\ Step(conn[k]) /\ VarTypes /\ Steps
  BY ConnIs DEF IInv
<1>5. Left(k) \in Conn /\ Moved(conn[k], Left(k)) /\ Left(k).at = "left" /\ Left(k).task = conn[k].task
  BY <1>4, LeftMoves DEF Left
<1>6. /\ Moves /\ conn'[k] = Left(k) /\ SameAwait
      /\ \A j \in DOMAIN conn : j # k => conn'[j] = conn[j]
  BY <1>3, <1>4, <1>5, OneMoves
<1> QED BY <1>2, <1>3, <1>5, <1>6 DEF Leaves

LEMMA ReplyMoves ==
  ASSUME IInv, NEW k \in DOMAIN conn, ReadReply(k)
  PROVE  Moves /\ SameAwait /\ Leaves(k)
<1>1. conn[k] \in Conn /\ Step(conn[k]) /\ VarTypes /\ Steps /\ conn[k].command \in RemoteCommand
  BY ConnIs DEF IInv
<1> DEFINE b == (conn[k].command.cmd = "Shutdown")
           r == [[conn[k] EXCEPT !.at = "left", !.cut = TRUE] EXCEPT !.acked = b]
<1>2. conn[k].due # <<>>
  <2>1. conn[k].down # "none" /\ Len(Ops(conn[k].command)) # 0
    BY <1>1, OpsType DEF ReadReply
  <2> QED BY <1>1, <2>1 DEF Step
<1>3. r \in Conn /\ Moved(conn[k], r) /\ r.at = "left" /\ r.task = conn[k].task
  <2>1. b \in BOOLEAN /\ (b => conn[k].command.cmd = "Shutdown")
    OBVIOUS
  <2> HIDE DEF b
  <2> QED BY <1>1, <1>2, <2>1, LeftMoves
<1>4. conn' = [conn EXCEPT ![k] = r]
  BY DEF ReadReply, Left
<1> HIDE DEF r
<1>5. /\ Moves /\ conn'[k] = r /\ SameAwait
      /\ \A j \in DOMAIN conn : j # k => conn'[j] = conn[j]
  BY <1>1, <1>3, <1>4, OneMoves
<1> QED BY <1>3, <1>5 DEF Leaves, ReadReply

LEMMA UnderWay ==
  ASSUME IInv, NEW k \in DOMAIN conn,
         Connect(k) \/ WriteRequest(k) \/ Break(k) \/ FallSilent(k)
  PROVE  Moves /\ SameAwait /\ SameAt /\ UNCHANGED <<sup, listener, result>>
<1>1. conn[k] \in Conn /\ Step(conn[k]) /\ VarTypes /\ Steps
  BY ConnIs DEF IInv
<1>2. conn \in Seq(Conn)
  BY <1>1 DEF VarTypes
<1> DEFINE c == conn[k]
<1>3. \E r :
        /\ conn' = [conn EXCEPT ![k] = r]
        /\ \/ /\ c.at = "connect" /\ listener = "open"
              /\ r = [c EXCEPT !.at = "write", !.task = "backlog", !.life = sup.life]
           \/ \E u \in Progress, a \in {"read", "write"} :
                c.at = "write" /\ r = [c EXCEPT !.up = u, !.at = a]
           \/ \E u \in Progress, d \in {c.down, "none"} :
                r = [c EXCEPT !.cut = TRUE, !.up = u, !.down = d]
           \/ r = [c EXCEPT !.silent = TRUE]
  <2>1. CASE Connect(k)
    <3> WITNESS [c EXCEPT !.at = "write", !.task = "backlog", !.life = sup.life]
    <3>1. conn' = [conn EXCEPT ![k] = [c EXCEPT !.at = "write", !.task = "backlog", !.life = sup.life]]
      BY <1>2, <2>1 DEF Connect
    <3> QED BY <2>1, <3>1 DEF Connect
  <2>2. CASE WriteRequest(k)
    <3> DEFINE u == Written(c.up)
               a == IF c.up = "part" THEN "read" ELSE c.at
    <3>1. conn' = [conn EXCEPT ![k] = [c EXCEPT !.up = u, !.at = a]]
      BY <1>2, <2>2 DEF WriteRequest
    <3>2. u \in Progress /\ a \in {"read", "write"} /\ c.at = "write"
      BY <2>2 DEF WriteRequest, Written, Progress
    <3> HIDE DEF u, a
    <3> QED BY <3>1, <3>2
  <2>3. CASE Break(k)
    <3> PICK u \in {c.up, "none"}, d \in {c.down, "none"} :
          conn' = [conn EXCEPT ![k].cut = TRUE, ![k].up = u, ![k].down = d]
      BY <2>3 DEF Break
    <3>1. conn' = [conn EXCEPT ![k] = [c EXCEPT !.cut = TRUE, !.up = u, !.down = d]]
      BY <1>2
    <3>2. u \in Progress
      BY <1>1 DEF Conn, Progress
    <3> QED BY <3>1, <3>2
  <2>4. CASE FallSilent(k)
    <3>1. conn' = [conn EXCEPT ![k] = [c EXCEPT !.silent = TRUE]]
      BY <1>2, <2>4 DEF FallSilent
    <3> QED BY <3>1
  <2> QED BY <2>1, <2>2, <2>3, <2>4
<1>4. PICK r :
        /\ conn' = [conn EXCEPT ![k] = r]
        /\ \/ /\ c.at = "connect" /\ listener = "open"
              /\ r = [c EXCEPT !.at = "write", !.task = "backlog", !.life = sup.life]
           \/ \E u \in Progress, a \in {"read", "write"} :
                c.at = "write" /\ r = [c EXCEPT !.up = u, !.at = a]
           \/ \E u \in Progress, d \in {c.down, "none"} :
                r = [c EXCEPT !.cut = TRUE, !.up = u, !.down = d]
           \/ r = [c EXCEPT !.silent = TRUE]
  BY <1>3
<1>5. /\ r \in Conn /\ Moved(c, r)
      /\ (r.at = "left" <=> c.at = "left") /\ (r.task = "await" <=> c.task = "await")
  BY <1>1, <1>4, UnderWayMoves
<1>6. Moves /\ SameAwait /\ SameAt
  BY <1>1, <1>4, <1>5, OneMoves
<1>7. UNCHANGED <<sup, listener, result>>
  BY DEF Connect, WriteRequest, Break, FallSilent
<1> QED BY <1>6, <1>7

(***************************************************************************)
(* The tasks of the server.                                                *)
(***************************************************************************)

\* Many connections move at once.
LEMMA ManyMove ==
  ASSUME VarTypes, conn' = [k \in DOMAIN conn |-> conn'[k]],
         \A k \in DOMAIN conn : conn'[k] \in Conn /\ Moved(conn[k], conn'[k])
  PROVE  Moves
<1>1. Len(conn) \in Nat /\ DOMAIN conn = 1..Len(conn)
  BY LenProperties DEF VarTypes
<1>2. conn' \in [1..Len(conn) -> Conn]
  BY <1>1
<1>3. conn' \in Seq(Conn)
  BY <1>1, <1>2, SeqDef
<1> QED BY <1>2, <1>3, <1>1 DEF Moves

\* A task is handed the connection, has read the request, or returns.
LEMMA TaskMoves ==
  ASSUME NEW c \in Conn, c.command \in RemoteCommand, Step(c), NEW r,
         \/ c.task = "backlog" /\ r = [c EXCEPT !.task = "read"]
         \/ c.task = "read" /\ r = [c EXCEPT !.task = "ask"]
         \/ c.task # "none" /\ r = [c EXCEPT !.task = "ended", !.cut = TRUE]
         \/ \E d \in Progress :
              c.task = "write" /\ r = [(IF c.down = "part"
                                        THEN [c EXCEPT !.task = "ended", !.cut = TRUE]
                                        ELSE c) EXCEPT !.down = d]
  PROVE  /\ r \in Conn /\ Moved(c, r) /\ r.at = c.at
         /\ r.task # "await"
         /\ c.task = "none" <=> r.task = "none"
<1>1. CASE c.task = "backlog" /\ r = [c EXCEPT !.task = "read"]
  <2>1. /\ r \in Conn /\ r.client = c.client /\ r.command = c.command /\ r.due = c.due
        /\ r.late = c.late /\ r.life = c.life /\ r.acked = c.acked
        /\ r.at = c.at /\ r.task = "read" /\ r.answers = c.answers /\ r.down = c.down
    BY <1>1 DEF Conn
  <2> QED BY <1>1, <2>1 DEF Moved, Step
<1>2. CASE c.task = "read" /\ r = [c EXCEPT !.task = "ask"]
  <2>1. /\ r \in Conn /\ r.client = c.client /\ r.command = c.command /\ r.due = c.due
        /\ r.late = c.late /\ r.life = c.life /\ r.acked = c.acked
        /\ r.at = c.at /\ r.task = "ask" /\ r.answers = c.answers /\ r.down = c.down
    BY <1>2 DEF Conn
  <2>2. c.answers = <<>> /\ c.due = <<>> /\ Len(Ops(c.command)) > 0
    BY <1>2, OpsType DEF Step
  <2> QED BY <1>2, <2>1, <2>2 DEF Moved, Step
<1>3. CASE c.task # "none" /\ r = [c EXCEPT !.task = "ended", !.cut = TRUE]
  <2>1. /\ r \in Conn /\ r.client = c.client /\ r.command = c.command /\ r.due = c.due
        /\ r.late = c.late /\ r.life = c.life /\ r.acked = c.acked
        /\ r.at = c.at /\ r.task = "ended" /\ r.answers = c.answers /\ r.down = c.down
    BY <1>3 DEF Conn
  <2> QED BY <1>3, <2>1 DEF Moved, Step
<1>4. CASE \E d \in Progress :
              c.task = "write" /\ r = [(IF c.down = "part"
                                        THEN [c EXCEPT !.task = "ended", !.cut = TRUE]
                                        ELSE c) EXCEPT !.down = d]
  <2> PICK d \in Progress :
              c.task = "write" /\ r = [(IF c.down = "part"
                                        THEN [c EXCEPT !.task = "ended", !.cut = TRUE]
                                        ELSE c) EXCEPT !.down = d]
    BY <1>4
  <2>1. CASE c.down = "part"
    <3>1. r = [[c EXCEPT !.task = "ended", !.cut = TRUE] EXCEPT !.down = d]
      BY <2>1
    <3>2. /\ r \in Conn /\ r.client = c.client /\ r.command = c.command /\ r.due = c.due
          /\ r.late = c.late /\ r.life = c.life /\ r.acked = c.acked
          /\ r.at = c.at /\ r.task = "ended" /\ r.answers = c.answers /\ r.down = d
      BY <3>1 DEF Conn
    <3> QED BY <3>2 DEF Moved, Step
  <2>2. CASE c.down # "part"
    <3>1. r = [c EXCEPT !.down = d]
      BY <2>2
    <3>2. /\ r \in Conn /\ r.client = c.client /\ r.command = c.command /\ r.due = c.due
          /\ r.late = c.late /\ r.life = c.life /\ r.acked = c.acked
          /\ r.at = c.at /\ r.task = "write" /\ r.answers = c.answers /\ r.down = d
      BY <3>1 DEF Conn
    <3> QED BY <3>2 DEF Moved, Step
  <2> QED BY <2>1, <2>2
<1> QED BY <1>1, <1>2, <1>3, <1>4

\* What a task does besides asking the supervisor.
Handles(k) == Accept(k) \/ Receive(k) \/ ReceiveFails(k) \/ ReplyFails(k) \/ WriteReply(k)

LEMMA HandlesMoves ==
  ASSUME IInv, NEW k \in DOMAIN conn, Handles(k)
  PROVE  Moves /\ SameAwait /\ SameAt /\ UNCHANGED <<sup, listener, result>>
<1>1. /\ conn[k] \in Conn /\ Step(conn[k]) /\ conn[k].command \in RemoteCommand
      /\ VarTypes /\ Steps /\ conn \in Seq(Conn)
  BY ConnIs DEF IInv, VarTypes
<1> DEFINE c == conn[k]
           OneOf(r) ==
             \/ c.task = "backlog" /\ r = [c EXCEPT !.task = "read"]
             \/ c.task = "read" /\ r = [c EXCEPT !.task = "ask"]
             \/ c.task # "none" /\ r = [c EXCEPT !.task = "ended", !.cut = TRUE]
             \/ \E d \in Progress :
                  c.task = "write" /\ r = [(IF c.down = "part"
                                            THEN [c EXCEPT !.task = "ended", !.cut = TRUE]
                                            ELSE c) EXCEPT !.down = d]
<1>2. \E r : conn' = [conn EXCEPT ![k] = r] /\ OneOf(r)
  <2>1. CASE Accept(k)
    <3>1. conn' = [conn EXCEPT ![k] = [c EXCEPT !.task = "read"]] /\ c.task = "backlog"
      BY <1>1, <2>1 DEF Accept
    <3> QED BY <3>1
  <2>2. CASE Receive(k)
    <3>1. conn' = [conn EXCEPT ![k] = [c EXCEPT !.task = "ask"]] /\ c.task = "read"
      BY <1>1, <2>2 DEF Receive
    <3> QED BY <3>1
  <2>3. CASE ReceiveFails(k) \/ ReplyFails(k)
    <3>1. conn' = [conn EXCEPT ![k] = [c EXCEPT !.task = "ended", !.cut = TRUE]] /\ c.task # "none"
      BY <2>3 DEF ReceiveFails, ReplyFails, Ended
    <3> QED BY <3>1
  <2>4. CASE WriteReply(k)
    <3> DEFINE b == IF c.down = "part" THEN [c EXCEPT !.task = "ended", !.cut = TRUE] ELSE c
               d == Written(b.down)
    <3>1. conn' = [conn EXCEPT ![k] = [b EXCEPT !.down = d]]
      <4>1. b = IF conn[k].down = "part" THEN Ended(k) ELSE conn[k]
        BY DEF Ended
      <4>2. conn' = [conn EXCEPT ![k] = [(IF conn[k].down = "part" THEN Ended(k) ELSE conn[k])
                                           EXCEPT !.down = Written(@)]]
        BY <2>4 DEF WriteReply
      <4> HIDE DEF b
      <4> QED BY <4>1, <4>2
    <3>2. d \in Progress /\ c.task = "write"
      BY <2>4 DEF WriteReply, Written, Progress
    <3> HIDE DEF d
    <3> QED BY <3>1, <3>2
  <2> QED BY <2>1, <2>2, <2>3, <2>4 DEF Handles
<1>3. PICK r : conn' = [conn EXCEPT ![k] = r] /\ OneOf(r)
  BY <1>2
<1>4. r \in Conn /\ Moved(c, r) /\ r.at = c.at /\ r.task # "await"
  BY <1>1, <1>3, TaskMoves
<1>5. c.task # "await"
  BY DEF Handles, Accept, Receive, ReceiveFails, ReplyFails, WriteReply
<1>6. Moves /\ SameAwait /\ SameAt
  BY <1>1, <1>3, <1>4, <1>5, OneMoves
<1>7. UNCHANGED <<sup, listener, result>>
  BY DEF Handles, Accept, Receive, ReceiveFails, ReplyFails, WriteReply
<1> QED BY <1>6, <1>7

\* The listener ends, or the process with all tasks.
LEMMA EndingMoves ==
  ASSUME IInv, AcceptFails \/ Crash
  PROVE  /\ Moves /\ SameAt /\ UNCHANGED result
         /\ AcceptFails => SameAwait
         /\ Crash => \A k \in DOMAIN conn : conn'[k].task \in {"none", "ended"}
<1> DEFINE Hit(k) == IF AcceptFails THEN conn[k].task = "backlog" ELSE conn[k].task # "none"
           End(k) == [conn[k] EXCEPT !.task = "ended", !.cut = TRUE]
<1>1. conn' = [k \in DOMAIN conn |-> IF Hit(k) THEN End(k) ELSE conn[k]]
  <2>1. CASE AcceptFails
    <3>1. conn' = [k \in DOMAIN conn |-> IF conn[k].task = "backlog" THEN End(k) ELSE conn[k]]
      BY <2>1 DEF AcceptFails
    <3>2. \A k \in DOMAIN conn : Hit(k) <=> conn[k].task = "backlog"
      BY <2>1
    <3> HIDE DEF Hit, End
    <3> QED BY <3>1, <3>2
  <2>2. CASE ~AcceptFails
    <3>1. conn' = [k \in DOMAIN conn |-> IF conn[k].task = "none" THEN conn[k] ELSE Ended(k)]
      BY <2>2 DEF Crash
    <3> QED BY <2>2, <3>1 DEF Ended
  <2> QED BY <2>1, <2>2
<1>2. ASSUME NEW k \in DOMAIN conn
      PROVE  /\ conn'[k] \in Conn /\ Moved(conn[k], conn'[k]) /\ conn'[k].at = conn[k].at
             /\ AcceptFails => (conn'[k].task = "await" <=> conn[k].task = "await")
             /\ ~AcceptFails => conn'[k].task \in {"none", "ended"}
  <2>1. /\ conn[k] \in Conn /\ Step(conn[k]) /\ conn[k].command \in RemoteCommand
    BY ConnIs DEF IInv
  <2>2. CASE Hit(k)
    <3>1. conn'[k] = End(k) /\ conn[k].task # "none"
      BY <1>1, <2>2
    <3>2. conn'[k] \in Conn /\ Moved(conn[k], conn'[k]) /\ conn'[k].at = conn[k].at
      BY <2>1, <3>1, TaskMoves
    <3>3. conn'[k].task = "ended"
      BY <2>1, <3>1 DEF Conn
    <3> QED BY <2>2, <3>2, <3>3
  <2>3. CASE ~Hit(k)
    <3>1. conn'[k] = conn[k]
      BY <1>1, <2>3
    <3>2. Moved(conn[k], conn[k])
      BY <2>1 DEF Moved
    <3> QED BY <2>1, <2>3, <3>1, <3>2
  <2> QED BY <2>2, <2>3
<1>3. conn' = [k \in DOMAIN conn |-> conn'[k]]
  BY <1>1
<1>4. Moves
  BY <1>2, <1>3, ManyMove DEF IInv
<1>5. UNCHANGED result
  BY DEF AcceptFails, Crash
<1>6. Crash => ~AcceptFails
  BY DEF Crash, AcceptFails
<1> QED BY <1>2, <1>4, <1>5, <1>6 DEF SameAt, SameAwait

(***************************************************************************)
(* The supervisor serves its queue.                                        *)
(***************************************************************************)

\* What the queue is known to be.
LEMMA QueueIs ==
  ASSUME VarTypes
  PROVE  /\ sup \in Supervisor /\ sup.queue \in Seq(Message) /\ Len(sup.queue) \in Nat
         /\ DOMAIN sup.queue = 1..Len(sup.queue)
         /\ \A i \in 1..Len(sup.queue) : sup.queue[i] \in Message
         /\ sup.queue # <<>> =>
              /\ 1 \in 1..Len(sup.queue) /\ Head(sup.queue) = sup.queue[1]
              /\ Tail(sup.queue) \in Seq(Message) /\ Len(Tail(sup.queue)) = Len(sup.queue) - 1
              /\ \A i \in 1..(Len(sup.queue) - 1) : Tail(sup.queue)[i] = sup.queue[i + 1]
<1>1. /\ sup \in Supervisor /\ sup.queue \in Seq(Message)
  BY DEF VarTypes, Supervisor
<1>2. /\ Len(sup.queue) \in Nat /\ DOMAIN sup.queue = 1..Len(sup.queue)
      /\ \A i \in 1..Len(sup.queue) : sup.queue[i] \in Message
  BY <1>1, LenProperties, ElementOfSeq
<1>3. ASSUME sup.queue # <<>>
      PROVE  /\ 1 \in 1..Len(sup.queue) /\ Head(sup.queue) = sup.queue[1]
             /\ Tail(sup.queue) \in Seq(Message) /\ Len(Tail(sup.queue)) = Len(sup.queue) - 1
             /\ \A i \in 1..(Len(sup.queue) - 1) : Tail(sup.queue)[i] = sup.queue[i + 1]
  <2>1. Len(sup.queue) \in Nat \ {0}
    BY <1>1, <1>3, EmptySeq
  <2>2. /\ Tail(sup.queue) \in Seq(Message) /\ Len(Tail(sup.queue)) = Len(sup.queue) - 1
        /\ \A i \in 1..Len(Tail(sup.queue)) : Tail(sup.queue)[i] = sup.queue[i + 1]
    BY <1>1, <1>3, HeadTailProperties
  <2>3. Head(sup.queue) = sup.queue[1]
    BY <1>1, <1>3
  <2> QED BY <2>1, <2>2, <2>3
<1> QED BY <1>1, <1>2, <1>3

\* An answer arrives that was predicted.
LEMMA AnsweredMoves ==
  ASSUME NEW c \in Conn, c.command \in RemoteCommand, Step(c), c.task = "await",
         NEW a \in Saying, a = c.due[Len(c.due)], NEW r,
         r = [c EXCEPT !.answers = Append(c.answers, a),
                       !.task = IF Len(c.answers) + 1 = Len(Ops(c.command)) THEN "write" ELSE "ask"]
  PROVE  r \in Conn /\ Moved(c, r) /\ r.at = c.at /\ r.task \in {"write", "ask"}
<1> DEFINE n == Len(Ops(c.command))
           l == Len(c.answers)
           s == Append(c.answers, a)
           t == IF l + 1 = n THEN "write" ELSE "ask"
<1>1. c.answers \in Seq(Saying) /\ c.due \in Seq(Saying)
  BY DEF Conn, Answers, Saying
<1>2. /\ s \in Seq(Saying) /\ Len(s) = l + 1 /\ l \in Nat /\ s[l + 1] = a
      /\ \A i \in 1..l : s[i] = c.answers[i]
  BY <1>1, AppendProperties, LenProperties
<1>3. s \in Answers /\ n \in Nat /\ t \in {"write", "ask"}
  BY <1>2, OpsType DEF Answers, Saying
<1>4. /\ l < n /\ Len(c.due) = l + 1 /\ c.command.cmd # "Shutdown" /\ c.down = "none"
      /\ \A i \in 1..l : c.answers[i] = c.due[i]
      /\ c.at # "connect"
  <2>1. c.down # "none" => c.task \in {"write", "ended"}
    BY DEF Step
  <2> QED BY <2>1 DEF Step
<1>5. r = [c EXCEPT !.answers = s, !.task = t]
  OBVIOUS
<1>6. (t = "write" => l + 1 = n) /\ (t = "ask" => l + 1 < n)
  BY <1>2, <1>3, <1>4
<1>7. \A i \in 1..(l + 1) : s[i] = c.due[i]
  <2> SUFFICES ASSUME NEW i \in 1..(l + 1) PROVE s[i] = c.due[i]
    OBVIOUS
  <2>1. CASE i = l + 1
    BY <1>2, <1>4, <2>1
  <2>2. CASE i \in 1..l
    BY <1>2, <1>4, <2>2
  <2> QED BY <1>2, <2>1, <2>2
<1> HIDE DEF s, t
<1>8. /\ r \in Conn /\ r.client = c.client /\ r.command = c.command /\ r.due = c.due
      /\ r.late = c.late /\ r.life = c.life /\ r.acked = c.acked
      /\ r.at = c.at /\ r.task = t /\ r.answers = s /\ r.down = c.down
  BY <1>3, <1>5 DEF Conn
<1>9. Step(r)
  <2>1. /\ Len(r.answers) = l + 1 /\ Len(r.due) = l + 1 /\ Len(Ops(r.command)) = n
        /\ r.task \in {"write", "ask"} /\ r.down = "none" /\ r.at # "connect"
        /\ r.task = "write" => l + 1 = n
        /\ r.task = "ask" => l + 1 < n
        /\ \A i \in 1..Len(r.answers) : r.answers[i] = r.due[i]
    BY <1>2, <1>3, <1>4, <1>6, <1>7, <1>8
  <2> QED BY <1>2, <1>3, <1>4, <2>1 DEF Step
<1> QED BY <1>3, <1>8, <1>9 DEF Moved

\* A request at the head of the queue is answered as predicted.
LEMMA HeadRequest ==
  ASSUME IInv, ServeCommand
  PROVE  LET m == Head(sup.queue)  k == m.conn IN
         /\ k \in DOMAIN conn /\ conn[k].task = "await"
         /\ Calls!Answer([open |-> TRUE, children |-> sup.children], m.op, m) \in Saying
         /\ Calls!Answer([open |-> TRUE, children |-> sup.children], m.op, m)
              = conn[k].due[Len(conn[k].due)]
         /\ \A j \in DOMAIN sup.queue :
              IsRequest(sup.queue[j]) /\ sup.queue[j].conn = k => j = 1
<1> DEFINE m == Head(sup.queue)
           now == [open |-> TRUE, children |-> sup.children]
<1>1. sup.queue # <<>> /\ IsRequest(m)
  BY DEF ServeCommand, IsRequest
<1>2. 1 \in DOMAIN sup.queue /\ m = sup.queue[1] /\ sup \in Supervisor
  BY <1>1, QueueIs DEF IInv
<1>3. now = Ahead(sup, 0) /\ sup.children \subseteq Id
  <2>1. \A id : Stays(sup, 0, id)
    BY DEF Stays
  <2>2. sup.children = {id \in sup.children : Stays(sup, 0, id)}
    BY <2>1
  <2>3. \A j \in 1..0 : FALSE
    OBVIOUS
  <2>4. Ahead(sup, 0) = [open |-> TRUE, children |-> {id \in sup.children : Stays(sup, 0, id)}]
    BY <2>3 DEF Ahead
  <2>5. sup.children \subseteq Id
    BY <1>2 DEF Supervisor
  <2> QED BY <2>2, <2>4, <2>5
<1>4. Predicted(1) /\ \A j \in DOMAIN sup.queue :
                        IsRequest(sup.queue[j]) /\ sup.queue[j].conn = m.conn => j = 1
  BY <1>1, <1>2 DEF IInv, Queues
<1>5. /\ m.conn \in DOMAIN conn /\ conn[m.conn].task = "await"
      /\ conn[m.conn].due[Len(conn[m.conn].due)] = Calls!Answer(Ahead(sup, 0), m.op, m)
  <2>1. 1 - 1 = 0
    OBVIOUS
  <2> QED BY <1>2, <1>4, <2>1 DEF Predicted
<1>6. Calls!Answer(now, m.op, m) \in Saying
  BY <1>3, AnswerType
<1> QED BY <1>3, <1>4, <1>5, <1>6

LEMMA ServeCommandMoves ==
  ASSUME IInv, ServeCommand
  PROVE  LET k == Head(sup.queue).conn IN
         /\ Moves /\ SameAt /\ UNCHANGED <<listener, result>>
         /\ k \in DOMAIN conn /\ conn'[k].task # "await"
         /\ \A j \in DOMAIN conn : j # k => conn'[j] = conn[j]
<1> DEFINE m == Head(sup.queue)
           k == m.conn
           a == Calls!Answer([open |-> TRUE, children |-> sup.children], m.op, m)
           r == [conn[k] EXCEPT !.answers = Append(conn[k].answers, a),
                                !.task = IF Len(conn[k].answers) + 1 = Len(Ops(conn[k].command))
                                         THEN "write" ELSE "ask"]
<1>1. k \in DOMAIN conn /\ conn[k].task = "await" /\ a \in Saying
      /\ a = conn[k].due[Len(conn[k].due)]
  BY HeadRequest
<1>2. /\ conn[k] \in Conn /\ Step(conn[k]) /\ conn[k].command \in RemoteCommand
      /\ VarTypes /\ Steps
  BY <1>1, ConnIs DEF IInv
<1>3. conn' = [conn EXCEPT ![k] = r]
  BY DEF ServeCommand, Answered
<1> HIDE DEF a, k
<1>4. r \in Conn /\ Moved(conn[k], r) /\ r.at = conn[k].at /\ r.task \in {"write", "ask"}
  <2> DEFINE c == conn[k]
  <2>1. c.task = "await" /\ a = c.due[Len(c.due)]
    BY <1>1
  <2>2. r = [c EXCEPT !.answers = Append(c.answers, a),
                      !.task = IF Len(c.answers) + 1 = Len(Ops(c.command)) THEN "write" ELSE "ask"]
    OBVIOUS
  <2>3. c \in Conn /\ c.command \in RemoteCommand /\ Step(c) /\ a \in Saying
    BY <1>1, <1>2
  <2> HIDE DEF c, r
  <2>4. r \in Conn /\ Moved(c, r) /\ r.at = c.at /\ r.task \in {"write", "ask"}
    BY <2>1, <2>2, <2>3, AnsweredMoves
  <2> QED BY <2>4 DEF c
<1> HIDE DEF r
<1>5. /\ Moves /\ conn'[k] = r /\ SameAt
      /\ \A j \in DOMAIN conn : j # k => conn'[j] = conn[j]
  BY <1>1, <1>2, <1>3, <1>4, OneMoves
<1> QED BY <1>1, <1>4, <1>5 DEF ServeCommand, k

\* Who waits when the supervisor stops is told what was predicted: Closed.
LEMMA ServeShutdownMoves ==
  ASSUME IInv, ServeShutdown
  PROVE  /\ Moves /\ SameAt /\ UNCHANGED <<listener, result>>
         /\ \A k \in DOMAIN conn : conn'[k].task # "await"
<1>1. conn' = [k \in DOMAIN conn |->
                 IF conn[k].task = "await" THEN Answered(k, Calls!Closed) ELSE conn[k]]
  BY DEF ServeShutdown
<1>2. ASSUME NEW k \in DOMAIN conn
      PROVE  /\ conn'[k] \in Conn /\ Moved(conn[k], conn'[k]) /\ conn'[k].at = conn[k].at
             /\ conn'[k].task # "await"
  <2>1. conn[k] \in Conn /\ Step(conn[k]) /\ conn[k].command \in RemoteCommand
    BY ConnIs DEF IInv
  <2>2. CASE conn[k].task = "await"
    <3>1. PICK i \in DOMAIN sup.queue : IsRequest(sup.queue[i]) /\ sup.queue[i].conn = k
      BY <2>2 DEF IInv, Queues
    <3>2. conn[k].due[Len(conn[k].due)] = Calls!Answer(Ahead(sup, i - 1), sup.queue[i].op, sup.queue[i])
      BY <3>1 DEF IInv, Queues, Predicted
    <3>3. Ahead(sup, i - 1) = Gone
      <4>1. /\ sup.queue[1].op = "Shutdown" /\ sup.queue[i].op # "Shutdown"
            /\ DOMAIN sup.queue = 1..Len(sup.queue) /\ Len(sup.queue) \in Nat
        BY <3>1, QueueIs DEF ServeShutdown, IsRequest, IInv
      <4>2. 1 \in 1..(i - 1)
        BY <4>1
      <4> QED BY <4>1, <4>2 DEF Ahead
    <3>4. conn[k].due[Len(conn[k].due)] = Calls!Closed /\ Calls!Closed \in Saying
      <4>1. Gone.children \subseteq Id /\ ~Gone.open
        BY DEF Gone
      <4> QED BY <3>2, <3>3, <4>1, AnswerType
    <3>5. conn'[k] = [conn[k] EXCEPT !.answers = Append(conn[k].answers, Calls!Closed),
                                     !.task = IF Len(conn[k].answers) + 1 = Len(Ops(conn[k].command))
                                              THEN "write" ELSE "ask"]
      BY <1>1, <2>2 DEF Answered
    <3>6. /\ conn'[k] \in Conn /\ Moved(conn[k], conn'[k]) /\ conn'[k].at = conn[k].at
          /\ conn'[k].task \in {"write", "ask"}
      BY <2>1, <2>2, <3>4, <3>5, AnsweredMoves
    <3> QED BY <3>6
  <2>3. CASE conn[k].task # "await"
    <3>1. conn'[k] = conn[k]
      BY <1>1, <2>3
    <3>2. Moved(conn[k], conn[k])
      BY <2>1 DEF Moved
    <3> QED BY <2>1, <2>3, <3>1, <3>2
  <2> QED BY <2>2, <2>3
<1>3. conn' = [k \in DOMAIN conn |-> conn'[k]]
  BY <1>1
<1>4. Moves
  BY <1>2, <1>3, ManyMove DEF IInv
<1> QED BY <1>2, <1>4 DEF SameAt, ServeShutdown

\* Any other message: its effect is that of serving it.
TakesHead ==
  /\ sup.running /\ sup.queue # <<>> /\ Head(sup.queue).op # "Shutdown"
  /\ sup' \in Supervisor /\ (sup'.running <=> sup.running)
  /\ sup'.queue = Tail(sup.queue) /\ sup'.life = sup.life
  /\ sup'.children = {id \in sup.children : ~Drops(Head(sup.queue), id)}

LEMMA ServeTakesHead ==
  ASSUME VarTypes, ServeCommand \/ ServeChildTerminated
  PROVE  TakesHead
<1> DEFINE m == Head(sup.queue)
           X == {id \in sup.children : ~Drops(m, id)}
<1>1. sup.running /\ sup.queue # <<>> /\ m.op # "Shutdown"
  BY DEF ServeCommand, ServeChildTerminated
<1>2. sup \in Supervisor /\ Tail(sup.queue) \in Seq(Message) /\ m \in Message
  BY <1>1, QueueIs
<1>3. sup' = [sup EXCEPT !.queue = Tail(sup.queue), !.children = X]
  <2>1. CASE ServeChildTerminated
    <3>1. X = sup.children \ {m.id}
      BY <2>1 DEF ServeChildTerminated, Drops
    <3> HIDE DEF X
    <3> QED BY <1>2, <2>1, <3>1 DEF ServeChildTerminated, Supervisor
  <2>2. CASE ServeCommand
    <3> DEFINE now == [open |-> TRUE, children |-> sup.children]
    <3>1. X = Calls!After(now, m.op, m).children
      <4>1. CASE m.op = "TerminateChild"
        <5>1. Calls!After(now, m.op, m).children = sup.children \ {m.id}
          BY <4>1 DEF Calls!After
        <5> QED BY <4>1, <5>1 DEF Drops
      <4>2. CASE m.op # "TerminateChild"
        <5>1. m.op # "ChildTerminated"
          BY <2>2 DEF ServeCommand
        <5>2. Calls!After(now, m.op, m).children = sup.children
          BY <1>1, <4>2 DEF Calls!After
        <5> QED BY <4>2, <5>1, <5>2 DEF Drops
      <4> QED BY <4>1, <4>2
    <3>2. sup' = [sup EXCEPT !.queue = Tail(sup.queue), !.children = Calls!After(now, m.op, m).children]
      BY <1>2, <2>2 DEF ServeCommand, Supervisor
    <3> QED BY <3>1, <3>2
  <2> QED BY <2>1, <2>2
<1>4. X \subseteq Id
  BY <1>2 DEF Supervisor
<1> HIDE DEF X
<1>5. /\ sup' \in Supervisor /\ sup'.running = sup.running /\ sup'.life = sup.life
      /\ sup'.queue = Tail(sup.queue) /\ sup'.children = X
  BY <1>2, <1>3, <1>4 DEF Supervisor
<1> QED BY <1>1, <1>5 DEF TakesHead, X

(***************************************************************************)
(* A task asks the supervisor.                                             *)
(***************************************************************************)

\* An operation was sent, to which the supervisor will say a.
Sent(c, d, a) ==
  /\ d.client = c.client /\ d.command = c.command /\ d.due = Append(c.due, a)
  /\ d.late = c.late /\ d.acked = c.acked /\ d.life = c.life /\ d.at = c.at
  /\ c.task = "ask" /\ Step(d)

\* It is answered at once.
LEMMA SentAnswered ==
  ASSUME NEW c \in Conn, c.command \in RemoteCommand, Step(c), c.task = "ask",
         NEW a \in Saying, NEW b \in Saying, b = a \/ c.command.cmd = "Shutdown", NEW r,
         r = [[c EXCEPT !.answers = Append(c.answers, b),
                        !.task = IF Len(c.answers) + 1 = Len(Ops(c.command)) THEN "write" ELSE "ask"]
                EXCEPT !.due = Append(c.due, a)]
  PROVE  r \in Conn /\ Sent(c, r, a) /\ r.task \in {"write", "ask"}
<1> DEFINE n == Len(Ops(c.command))
           l == Len(c.answers)
           s == Append(c.answers, b)
           u == Append(c.due, a)
           t == IF l + 1 = n THEN "write" ELSE "ask"
<1>1. c.answers \in Seq(Saying) /\ c.due \in Seq(Saying)
  BY DEF Conn, Answers, Saying
<1>2. /\ l < n /\ Len(c.due) = l /\ c.down = "none" /\ c.at # "connect"
      /\ c.command.cmd # "Shutdown" => \A i \in 1..l : c.answers[i] = c.due[i]
  <2>1. c.down # "none" => c.task \in {"write", "ended"}
    BY DEF Step
  <2> QED BY <2>1 DEF Step
<1>3. /\ s \in Seq(Saying) /\ Len(s) = l + 1 /\ l \in Nat /\ s[l + 1] = b
      /\ \A i \in 1..l : s[i] = c.answers[i]
  BY <1>1, AppendProperties, LenProperties
<1>4. /\ u \in Seq(Saying) /\ Len(u) = l + 1 /\ u[l + 1] = a
      /\ \A i \in 1..l : u[i] = c.due[i]
  BY <1>1, <1>2, AppendProperties
<1>5. s \in Answers /\ u \in Answers /\ n \in Nat /\ t \in {"write", "ask"}
  BY <1>3, <1>4, OpsType DEF Answers, Saying
<1>6. (t = "write" => l + 1 = n) /\ (t = "ask" => l + 1 < n) /\ l + 1 <= n
  BY <1>2, <1>3, <1>5
<1>7. c.command.cmd # "Shutdown" => \A i \in 1..(l + 1) : s[i] = u[i]
  <2> SUFFICES ASSUME c.command.cmd # "Shutdown", NEW i \in 1..(l + 1) PROVE s[i] = u[i]
    OBVIOUS
  <2>1. CASE i = l + 1
    BY <1>3, <1>4, <2>1
  <2>2. CASE i \in 1..l
    BY <1>2, <1>3, <1>4, <2>2
  <2>3. l \in Nat
    BY <1>3
  <2> HIDE DEF l, s, u
  <2>4. i = l + 1 \/ i \in 1..l
    BY <2>3
  <2> QED BY <2>1, <2>2, <2>4
<1>8. r = [[c EXCEPT !.answers = s, !.task = t] EXCEPT !.due = u]
  OBVIOUS
<1> HIDE DEF s, t, u
<1>9. /\ r \in Conn /\ r.client = c.client /\ r.command = c.command /\ r.due = u
      /\ r.late = c.late /\ r.life = c.life /\ r.acked = c.acked
      /\ r.at = c.at /\ r.task = t /\ r.answers = s /\ r.down = c.down
  BY <1>5, <1>8 DEF Conn
<1>10. Step(r)
  <2>1. /\ Len(r.answers) = l + 1 /\ Len(r.due) = l + 1 /\ Len(Ops(r.command)) = n
        /\ r.task \in {"write", "ask"} /\ r.down = "none" /\ r.at # "connect"
        /\ r.task = "write" => l + 1 = n
        /\ r.task = "ask" => l + 1 < n
        /\ r.command.cmd # "Shutdown" => \A i \in 1..Len(r.answers) : r.answers[i] = r.due[i]
    BY <1>2, <1>3, <1>4, <1>5, <1>6, <1>7, <1>9
  <2> QED BY <1>3, <1>5, <1>6, <2>1 DEF Step
<1> QED BY <1>5, <1>9, <1>10 DEF Sent, u

\* It is waited for.
LEMMA SentAwaited ==
  ASSUME NEW c \in Conn, c.command \in RemoteCommand, Step(c), c.task = "ask",
         NEW a \in Saying, c.command.cmd # "Shutdown", NEW r,
         r = [[c EXCEPT !.task = "await"] EXCEPT !.due = Append(c.due, a)]
  PROVE  r \in Conn /\ Sent(c, r, a) /\ r.task = "await"
<1> DEFINE n == Len(Ops(c.command))
           l == Len(c.answers)
           u == Append(c.due, a)
<1>1. c.answers \in Seq(Saying) /\ c.due \in Seq(Saying)
  BY DEF Conn, Answers, Saying
<1>2. /\ l < n /\ Len(c.due) = l /\ c.down = "none" /\ c.at # "connect"
      /\ \A i \in 1..l : c.answers[i] = c.due[i]
  <2>1. c.down # "none" => c.task \in {"write", "ended"}
    BY DEF Step
  <2> QED BY <2>1 DEF Step
<1>3. /\ u \in Seq(Saying) /\ Len(u) = l + 1 /\ l \in Nat
      /\ \A i \in 1..l : u[i] = c.due[i]
  BY <1>1, <1>2, AppendProperties, LenProperties
<1>4. u \in Answers /\ n \in Nat
  BY <1>3, OpsType DEF Answers, Saying
<1> HIDE DEF u
<1>5. /\ r \in Conn /\ r.client = c.client /\ r.command = c.command /\ r.due = u
      /\ r.late = c.late /\ r.life = c.life /\ r.acked = c.acked
      /\ r.at = c.at /\ r.task = "await" /\ r.answers = c.answers /\ r.down = c.down
  BY <1>4 DEF Conn, u
<1>6. Step(r)
  BY <1>2, <1>3, <1>4, <1>5 DEF Step
<1> QED BY <1>5, <1>6 DEF Sent, u

\* A message goes to the supervisor.
Puts(m) ==
  /\ sup.running /\ m \in Message
  /\ sup' \in Supervisor /\ (sup'.running <=> sup.running)
  /\ sup'.queue = Append(sup.queue, m) /\ sup'.children = sup.children /\ sup'.life = sup.life

LEMMA QueuedPuts ==
  ASSUME sup \in Supervisor, sup.running, NEW m \in Message, sup' = [sup EXCEPT !.queue = Queued(m)]
  PROVE  Puts(m)
<1>1. Queued(m) = Append(sup.queue, m) /\ Append(sup.queue, m) \in Seq(Message)
  BY AppendProperties DEF Queued, Supervisor
<1>2. /\ sup' \in Supervisor /\ sup'.running = sup.running /\ sup'.life = sup.life
      /\ sup'.queue = Append(sup.queue, m) /\ sup'.children = sup.children
  BY <1>1 DEF Supervisor
<1> QED BY <1>2 DEF Puts

\* The operation connection k is to ask next, as what was sent counts.
Due(k) == Ops(conn[k].command)[Len(conn[k].due) + 1]

LEMMA DrainedType ==
  ASSUME sup \in Supervisor
  PROVE  /\ Drained.children \subseteq Id
         /\ Drained = Gone \/ Drained = [open |-> TRUE, children |-> Drained.children]
         /\ ~sup.running => Drained = Gone
BY DrainedIs, AheadType DEF DrainedOf

LEMMA AskIs ==
  ASSUME IInv, NEW k \in DOMAIN conn, Ask(k)
  PROVE  LET a == Calls!Answer(Drained, Due(k), conn[k].command) IN
         /\ DOMAIN conn' = DOMAIN conn /\ conn' \in Seq(Conn)
         /\ \A j \in DOMAIN conn : j # k => conn'[j] = conn[j]
         /\ Due(k) \in Op /\ Len(conn[k].due) + 1 <= Len(Ops(conn[k].command))
         /\ a \in Saying /\ Sent(conn[k], conn'[k], a)
         /\ UNCHANGED <<listener, result>>
         /\ \/ ~sup.running /\ sup' = sup /\ conn'[k].task # "await"
            \/ /\ Puts(Request(k)) /\ Request(k).op = Due(k)
               /\ IsRequest(Request(k)) <=> conn'[k].task = "await"
<1> DEFINE c == conn[k]
           op == Due(k)
           a == Calls!Answer(Drained, op, c.command)
<1>1. /\ c \in Conn /\ Step(c) /\ c.command \in RemoteCommand /\ VarTypes /\ Steps
      /\ sup \in Supervisor /\ c.task = "ask" /\ k \in Nat
  BY ConnIs DEF IInv, Ask, VarTypes
<1>2. /\ Len(c.answers) = Len(c.due) /\ Len(c.due) < Len(Ops(c.command))
      /\ Len(c.due) \in Nat /\ NextOp(k) = op
  <2>1. c.due \in Seq(Saying)
    BY <1>1 DEF Conn, Answers, Saying
  <2> QED BY <1>1, <2>1, LenProperties DEF Step, NextOp, Due
<1>3. /\ Len(c.due) + 1 \in 1..Len(Ops(c.command)) /\ op \in Op
      /\ (op = "TerminateChild" <=> c.command.cmd = "TerminateChild")
      /\ (op = "Shutdown" <=> c.command.cmd = "Shutdown")
  <2>1. Len(c.due) + 1 \in 1..Len(Ops(c.command))
    BY <1>1, <1>2, OpsType
  <2> QED BY <1>1, <2>1, OpsType DEF Due
<1>4. a \in Saying /\ (~sup.running => a = Calls!Closed)
  <2>1. /\ Drained.children \subseteq Id /\ ~sup.running => ~Drained.open
    BY <1>1, DrainedType DEF Gone
  <2> QED BY <1>1, <2>1, DrainedType, AnswerType
<1>5. Request(k) \in Message /\ Request(k).op = op
  <2>1. CASE op = "TerminateChild"
    <3>1. c.command.id \in Id \cup LongId
      BY <1>1, <1>3, <2>1 DEF RemoteCommand
    <3>2. Request(k) = [op |-> "TerminateChild", conn |-> k, id |-> c.command.id]
      BY <1>2, <2>1 DEF Request
    <3> QED BY <1>1, <2>1, <3>1, <3>2 DEF Message
  <2>2. CASE op # "TerminateChild"
    <3>1. Request(k) = [op |-> op, conn |-> k]
      BY <1>2, <2>2 DEF Request
    <3> HIDE DEF op
    <3> QED BY <1>1, <1>3, <2>2, <3>1 DEF Message, Op
  <2> QED BY <2>1, <2>2
<1>6. IsRequest(Request(k)) <=> op # "Shutdown"
  BY <1>3, <1>5 DEF IsRequest, Op
<1>7. Asked(k, c) = [c EXCEPT !.due = Append(c.due, a)]
      /\ \A ask : Asked(k, ask) = [ask EXCEPT !.due = Append(ask.due, a)]
  BY <1>2 DEF Asked
<1> DEFINE Told(b) == [[c EXCEPT !.answers = Append(c.answers, b),
                                 !.task = IF Len(c.answers) + 1 = Len(Ops(c.command))
                                          THEN "write" ELSE "ask"]
                         EXCEPT !.due = Append(c.due, a)]
           waiting == [[c EXCEPT !.task = "await"] EXCEPT !.due = Append(c.due, a)]
<1>8. (\A b \in Saying : Asked(k, Answered(k, b)) = Told(b)) /\ Asked(k, [c EXCEPT !.task = "await"]) = waiting
  <2>1. \A b \in Saying : Answered(k, b).due = c.due
    BY <1>1 DEF Answered, Conn
  <2>2. [c EXCEPT !.task = "await"].due = c.due
    BY <1>1 DEF Conn
  <2>3. \A b \in Saying : Asked(k, Answered(k, b)) = [Answered(k, b) EXCEPT !.due = Append(c.due, a)]
    BY <1>7, <2>1
  <2> HIDE DEF a
  <2> QED BY <1>7, <2>2, <2>3 DEF Answered
<1> HIDE DEF a
<1>9. ASSUME NEW b \in Saying, b = a \/ c.command.cmd = "Shutdown"
      PROVE  Told(b) \in Conn /\ Sent(c, Told(b), a) /\ Told(b).task # "await"
  BY <1>1, <1>4, <1>9, SentAnswered
<1>10. c.command.cmd # "Shutdown" => waiting \in Conn /\ Sent(c, waiting, a) /\ waiting.task = "await"
  BY <1>1, <1>4, SentAwaited
<1> HIDE DEF op, Told, waiting, c
<1>11. \E r \in Conn :
         /\ conn' = [conn EXCEPT ![k] = r] /\ Sent(c, r, a)
         /\ \/ ~sup.running /\ sup' = sup /\ r.task # "await"
            \/ /\ Puts(Request(k)) /\ Request(k).op = op
               /\ IsRequest(Request(k)) <=> r.task = "await"
  <2>1. CASE ~sup.running
    <3>1. Calls!Closed \in Saying /\ Calls!Closed = a
      BY <1>4, <2>1
    <3>2. conn' = [conn EXCEPT ![k] = Told(Calls!Closed)] /\ sup' = sup
      BY <1>8, <2>1, <3>1 DEF Ask
    <3> QED BY <1>9, <2>1, <3>1, <3>2
  <2>2. CASE sup.running /\ NextOp(k) = "Shutdown"
    <3>1. Calls!Says("Ok", {}) \in Saying
      BY DEF Calls!Says, Saying
    <3>2. conn' = [conn EXCEPT ![k] = Told(Calls!Says("Ok", {}))]
      BY <1>8, <2>2, <3>1 DEF Ask
    <3>3. Puts(Request(k))
      BY <1>1, <1>5, <2>2, QueuedPuts DEF Ask
    <3>4. op = "Shutdown" /\ c.command.cmd = "Shutdown"
      BY <1>2, <1>3, <2>2
    <3> QED BY <1>5, <1>6, <1>9, <3>1, <3>2, <3>3, <3>4
  <2>3. CASE sup.running /\ NextOp(k) # "Shutdown"
    <3>1. conn' = [conn EXCEPT ![k] = waiting]
      BY <1>8, <2>3 DEF Ask, c
    <3>2. Puts(Request(k))
      BY <1>1, <1>5, <2>3, QueuedPuts DEF Ask
    <3>3. op # "Shutdown" /\ c.command.cmd # "Shutdown"
      BY <1>2, <1>3, <2>3
    <3> QED BY <1>5, <1>6, <1>10, <3>1, <3>2, <3>3
  <2> QED BY <2>1, <2>2, <2>3
<1>12. PICK r \in Conn :
         /\ conn' = [conn EXCEPT ![k] = r] /\ Sent(c, r, a)
         /\ \/ ~sup.running /\ sup' = sup /\ r.task # "await"
            \/ /\ Puts(Request(k)) /\ Request(k).op = op
               /\ IsRequest(Request(k)) <=> r.task = "await"
  BY <1>11
<1>13. /\ DOMAIN conn' = DOMAIN conn /\ conn' \in Seq(Conn) /\ conn'[k] = r
       /\ \A j \in DOMAIN conn : j # k => conn'[j] = conn[j]
  BY <1>1, <1>12, OneChanges
<1>14. UNCHANGED <<listener, result>>
  BY DEF Ask
<1>15. Len(c.due) + 1 <= Len(Ops(c.command))
  BY <1>1, <1>3, OpsType
<1> QED BY <1>3, <1>4, <1>12, <1>13, <1>14, <1>15 DEF a, op, c

(***************************************************************************)
(* The other steps.                                                        *)
(***************************************************************************)

\* No connection changes.
LEMMA StillMoves ==
  ASSUME VarTypes, Steps, conn' = conn
  PROVE  Moves /\ SameAwait /\ SameAt
<1>1. \A k \in DOMAIN conn : Moved(conn[k], conn[k])
  BY DEF Steps, Moved
<1>2. conn \in Seq(Conn)
  BY DEF VarTypes
<1> QED BY <1>1, <1>2 DEF Moves, SameAwait, SameAt

\* Another process listens; the calls that were late are not late for it.
LEMMA ListenMoves ==
  ASSUME IInv, Listen
  PROVE  /\ Moves /\ SameAt /\ UNCHANGED result
         /\ \A k \in DOMAIN conn : conn'[k].task \in {"none", "ended"} /\ conn'[k].late = FALSE
<1>1. conn' = [k \in DOMAIN conn |-> [conn[k] EXCEPT !.late = FALSE]]
  BY DEF Listen
<1>2. ASSUME NEW k \in DOMAIN conn
      PROVE  /\ conn'[k] \in Conn /\ Moved(conn[k], conn'[k]) /\ conn'[k].at = conn[k].at
             /\ conn'[k].task \in {"none", "ended"} /\ conn'[k].late = FALSE
  <2> DEFINE c == conn[k]
             r == conn'[k]
  <2>1. c \in Conn /\ Step(c) /\ c.task \in {"none", "ended"}
    BY ConnIs DEF IInv, VarTypes, Listen
  <2>2. r = [c EXCEPT !.late = FALSE]
    BY <1>1
  <2> HIDE DEF c, r
  <2>3. /\ r \in Conn /\ r.client = c.client /\ r.command = c.command /\ r.due = c.due
        /\ r.late = FALSE /\ r.life = c.life /\ r.acked = c.acked
        /\ r.at = c.at /\ r.task = c.task /\ r.answers = c.answers /\ r.down = c.down
    BY <2>1, <2>2 DEF Conn
  <2>4. Moved(c, r)
    BY <2>1, <2>3 DEF Moved, Step
  <2> QED BY <2>1, <2>3, <2>4 DEF c, r
<1>3. conn' = [k \in DOMAIN conn |-> conn'[k]]
  BY <1>1
<1>4. Moves
  BY <1>2, <1>3, ManyMove DEF IInv
<1> QED BY <1>2, <1>4 DEF SameAt, Listen

\* A call begins.
LEMMA InvokeIs ==
  ASSUME VarTypes, NEW c \in Client, NEW m \in Asks, Invoke(c, m)
  PROVE  LET n == Len(conn) + 1
             late == \E j \in DOMAIN conn : conn[j].acked /\ conn[j].life = sup.life IN
         /\ conn' \in Seq(Conn) /\ DOMAIN conn' = DOMAIN conn \cup {n}
         /\ n \in Nat /\ \A j \in DOMAIN conn : j < n /\ conn'[j] = conn[j]
         /\ conn'[n] = NewConn(c, m, late) /\ NewConn(c, m, late) \in Conn
<1> DEFINE n == Len(conn) + 1
           late == \E j \in DOMAIN conn : conn[j].acked /\ conn[j].life = sup.life
           new == NewConn(c, m, late)
<1>1. conn \in Seq(Conn) /\ Len(conn) \in Nat /\ DOMAIN conn = 1..Len(conn)
  BY LenProperties DEF VarTypes
<1>2. new \in Conn
  <2>1. late \in BOOLEAN
    OBVIOUS
  <2> HIDE DEF late
  <2>2. 0 \in 0..MaxFaults /\ <<>> \in Answers
    BY DistributedAssumption DEF Answers
  <2> QED BY <2>1, <2>2 DEF NewConn, Conn, Progress
<1>3. conn' = Append(conn, new)
  BY DEF Invoke
<1> HIDE DEF new, late
<1>4. /\ conn' \in Seq(Conn) /\ Len(conn') = n /\ conn'[n] = new
      /\ \A j \in 1..Len(conn) : conn'[j] = conn[j]
  BY <1>1, <1>2, <1>3, AppendProperties
<1>5. DOMAIN conn' = 1..n
  BY <1>4, LenProperties
<1>6. 1..n = 1..Len(conn) \cup {n} /\ n \in Nat /\ \A j \in 1..Len(conn) : j < n
  BY <1>1
<1> QED BY <1>1, <1>2, <1>4, <1>5, <1>6 DEF new, late

\* A step, by what it does to the connections.
LEMMA StepCases ==
  ASSUME [Next]_vars
  PROVE  \/ \E k \in DOMAIN conn : CallFails(k)
         \/ \E k \in DOMAIN conn : ReadReply(k)
         \/ \E k \in DOMAIN conn : Connect(k) \/ WriteRequest(k) \/ Break(k) \/ FallSilent(k)
         \/ \E k \in DOMAIN conn : Handles(k)
         \/ \E k \in DOMAIN conn : Ask(k)
         \/ AcceptFails
         \/ Crash
         \/ ServeCommand
         \/ ServeShutdown
         \/ ServeChildTerminated
         \/ \E id \in Id : ChildEnds(id)
         \/ Listen
         \/ \E c \in Client, m \in Asks : Invoke(c, m)
         \/ UNCHANGED vars
<1>1. CASE Scheduled
  <2>1. CASE Supervising
    BY <2>1 DEF Supervising
  <2>2. CASE \E k \in DOMAIN conn : Calling(k) \/ Serving(k)
    <3> PICK k \in DOMAIN conn : Calling(k) \/ Serving(k)
      BY <2>2
    <3>1. CASE Calling(k)
      BY <3>1 DEF Calling, CallFails
    <3>2. CASE Serving(k)
      BY <3>2 DEF Serving, Handles
    <3> QED BY <3>1, <3>2
  <2> QED BY <1>1, <2>1, <2>2 DEF Scheduled
<1>2. CASE Failing
  BY <1>2 DEF Failing, CallFails
<1>3. CASE Listen \/ \E c \in Client, m \in Asks : Invoke(c, m)
  BY <1>3
<1> QED BY <1>1, <1>2, <1>3 DEF Next

\* All but two of them move connections.
LEMMA NextMoves ==
  ASSUME IInv, [Next]_vars
  PROVE  \/ Moves
         \/ \E k \in DOMAIN conn : Ask(k)
         \/ \E c \in Client, m \in Asks : Invoke(c, m)
<1> USE DEF IInv
<1>1. CASE \E k \in DOMAIN conn : CallFails(k)
  BY <1>1, FailingMoves
<1>2. CASE \E k \in DOMAIN conn : ReadReply(k)
  BY <1>2, ReplyMoves
<1>3. CASE \E k \in DOMAIN conn : Connect(k) \/ WriteRequest(k) \/ Break(k) \/ FallSilent(k)
  BY <1>3, UnderWay
<1>4. CASE \E k \in DOMAIN conn : Handles(k)
  BY <1>4, HandlesMoves
<1>5. CASE AcceptFails \/ Crash
  BY <1>5, EndingMoves
<1>6. CASE ServeCommand
  BY <1>6, ServeCommandMoves
<1>7. CASE ServeShutdown
  BY <1>7, ServeShutdownMoves
<1>8. CASE ServeChildTerminated \/ (\E id \in Id : ChildEnds(id)) \/ UNCHANGED vars
  <2>1. conn' = conn
    BY <1>8 DEF ServeChildTerminated, ChildEnds, vars
  <2> QED BY <2>1, StillMoves
<1>9. CASE Listen
  BY <1>9, ListenMoves
<1> QED BY <1>1, <1>2, <1>3, <1>4, <1>5, <1>6, <1>7, <1>8, <1>9, StepCases

(***************************************************************************)
(* Steps.                                                                  *)
(***************************************************************************)

LEMMA NextSteps == IInv /\ [Next]_vars => Steps'
<1> SUFFICES ASSUME IInv, [Next]_vars PROVE Steps'
  OBVIOUS
<1>1. \A k \in DOMAIN conn : Step(conn[k])
  BY DEF IInv, Steps
<1>2. CASE Moves
  BY <1>2 DEF Moves, Moved, Steps
<1>3. CASE \E k \in DOMAIN conn : Ask(k)
  <2> PICK k \in DOMAIN conn : Ask(k)
    BY <1>3
  <2>1. /\ DOMAIN conn' = DOMAIN conn /\ Step(conn'[k])
        /\ \A j \in DOMAIN conn : j # k => conn'[j] = conn[j]
    BY AskIs DEF Sent
  <2> QED BY <1>1, <2>1 DEF Steps
<1>4. CASE \E c \in Client, m \in Asks : Invoke(c, m)
  <2> PICK c \in Client, m \in Asks : Invoke(c, m)
    BY <1>4
  <2> DEFINE n == Len(conn) + 1
             late == \E j \in DOMAIN conn : conn[j].acked /\ conn[j].life = sup.life
             new == NewConn(c, m, late)
  <2>1. /\ DOMAIN conn' = DOMAIN conn \cup {n} /\ conn'[n] = new
        /\ \A j \in DOMAIN conn : conn'[j] = conn[j]
    BY InvokeIs DEF IInv
  <2>2. Step(new)
    <3>1. /\ new.at = "connect" /\ new.task = "none" /\ new.answers = <<>> /\ new.due = <<>>
          /\ new.down = "none" /\ new.command = m
      BY DEF NewConn
    <3>2. Len(Ops(m)) \in Nat
      BY DistributedAssumption, OpsType
    <3>3. Len(<<>>) = 0 /\ \A i \in 1..0 : FALSE
      OBVIOUS
    <3> HIDE DEF new
    <3> QED BY <3>1, <3>2, <3>3 DEF Step
  <2> HIDE DEF new, n
  <2> QED BY <1>1, <2>1, <2>2 DEF Steps
<1> QED BY <1>2, <1>3, <1>4, NextMoves

(***************************************************************************)
(* Types.                                                                  *)
(***************************************************************************)

\* What a step does to the supervisor.
LEMMA SupSteps ==
  ASSUME IInv, [Next]_vars
  PROVE  \/ sup' = sup
         \/ \E m \in Message : Puts(m)
         \/ TakesHead
         \/ sup' = Stopped
         \/ Listen
<1>0. VarTypes /\ sup \in Supervisor
  BY DEF IInv, VarTypes
<1>1. CASE \E k \in DOMAIN conn : CallFails(k) \/ ReadReply(k)
  BY <1>1, FailingMoves, ReplyMoves DEF Leaves
<1>2. CASE \E k \in DOMAIN conn : Connect(k) \/ WriteRequest(k) \/ Break(k) \/ FallSilent(k)
  BY <1>2, UnderWay
<1>3. CASE \E k \in DOMAIN conn : Handles(k)
  BY <1>3, HandlesMoves
<1>4. CASE \E k \in DOMAIN conn : Ask(k)
  <2> PICK k \in DOMAIN conn : Ask(k)
    BY <1>4
  <2>1. sup' = sup \/ Puts(Request(k))
    BY AskIs
  <2>2. Puts(Request(k)) => Request(k) \in Message
    BY DEF Puts
  <2> QED BY <2>1, <2>2
<1>5. CASE AcceptFails \/ (\E c \in Client, m \in Asks : Invoke(c, m)) \/ UNCHANGED vars
  BY <1>5 DEF AcceptFails, Invoke, vars
<1>6. CASE Crash \/ ServeShutdown
  BY <1>6 DEF Crash, ServeShutdown
<1>7. CASE ServeCommand \/ ServeChildTerminated
  BY <1>0, <1>7, ServeTakesHead
<1>8. CASE \E id \in Id : ChildEnds(id)
  <2> PICK id \in Id : ChildEnds(id)
    BY <1>8
  <2> DEFINE m == [op |-> "ChildTerminated", id |-> id]
  <2>1. m \in Message
    BY DEF Message
  <2>2. sup.running /\ sup' = [sup EXCEPT !.queue = Queued(m)]
    BY DEF ChildEnds
  <2> HIDE DEF m
  <2> QED BY <1>0, <2>1, <2>2, QueuedPuts
<1> QED BY <1>1, <1>2, <1>3, <1>4, <1>5, <1>6, <1>7, <1>8, StepCases

\* A stopped supervisor, and a new one.
LEMMA StoppedIs ==
  ASSUME sup \in Supervisor
  PROVE  /\ Stopped \in Supervisor /\ ~Stopped.running /\ Stopped.queue = <<>>
         /\ Stopped.life = sup.life /\ DrainedOf(Stopped) = Gone
<1>1. <<>> \in Seq(Message)
  OBVIOUS
<1>2. Stopped \in Supervisor /\ Stopped.running = FALSE /\ Stopped.queue = <<>> /\ Stopped.life = sup.life
  BY <1>1 DEF Stopped, Supervisor
<1> QED BY <1>2 DEF DrainedOf

LEMMA FreshIs ==
  ASSUME NEW l \in 0..MaxFaults
  PROVE  /\ Fresh(l) \in Supervisor /\ Fresh(l).running /\ Fresh(l).queue = <<>>
         /\ Fresh(l).life = l /\ DrainedOf(Fresh(l)) = [open |-> TRUE, children |-> Id]
<1>1. <<>> \in Seq(Message) /\ Len(<<>>) = 0 /\ \A i \in 1..0 : FALSE
  OBVIOUS
<1>2. /\ Fresh(l) \in Supervisor /\ Fresh(l).running = TRUE /\ Fresh(l).queue = <<>>
      /\ Fresh(l).life = l /\ Fresh(l).children = Id
  BY <1>1 DEF Fresh, Supervisor
<1>3. DrainedOf(Fresh(l)) = Ahead(Fresh(l), 0)
  BY <1>1, <1>2 DEF DrainedOf
<1>4. {id \in Id : Stays(Fresh(l), 0, id)} = Id
  BY <1>1 DEF Stays
<1>5. Ahead(Fresh(l), 0) = [open |-> TRUE, children |-> {id \in Fresh(l).children : Stays(Fresh(l), 0, id)}]
  BY <1>1 DEF Ahead
<1> QED BY <1>2, <1>3, <1>4, <1>5

\* How a method presents the answers.
LEMMA ReturnedType ==
  ASSUME NEW m, NEW s \in Answers
  PROVE  /\ Calls!Returned(m, s) \in [is : {"Status", "Ok", "RemoteError", "Children"}, said : Answers]
         /\ Calls!Returned(m, s) # Calls!Waiting
<1>1. Calls!Verdict(m, s) \in {"Status", "Ok", "RemoteError", "Children"}
  BY DEF Calls!Verdict
<1>2. <<>> \in Answers
  BY DEF Answers
<1>3. (IF m.cmd = "Shutdown" THEN <<>> ELSE s) \in Answers
  BY <1>2
<1>4. Calls!Returned(m, s) \in [is : {"Status", "Ok", "RemoteError", "Children"}, said : Answers]
  BY <1>1, <1>3 DEF Calls!Returned
<1>5. Calls!Returned(m, s).is # "waiting" /\ Calls!Waiting.is = "waiting"
  BY <1>1 DEF Calls!Returned, Calls!Waiting
<1> QED BY <1>4, <1>5

\* No call begins or ends.
Undisturbed ==
  /\ result' = result /\ DOMAIN conn' = DOMAIN conn
  /\ \A k \in DOMAIN conn : /\ conn'[k].client = conn[k].client
                            /\ conn'[k].at = "left" <=> conn[k].at = "left"

LEMMA MovesUndisturbed ==
  ASSUME Moves, SameAt, UNCHANGED result
  PROVE  Undisturbed
BY DEF Moves, Moved, SameAt, Undisturbed

\* What a step does to the calls.
LEMMA ResultSteps ==
  ASSUME IInv, [Next]_vars
  PROVE  \/ Undisturbed
         \/ \E k \in DOMAIN conn, x \in [is : Verdicts \ {"waiting"}, said : Answers] :
              Leaves(k) /\ Moves /\ result' = [result EXCEPT ![conn[k].client] = x]
         \/ \E c \in Client, m \in Asks : Invoke(c, m)
<1>1. CASE \E k \in DOMAIN conn : CallFails(k)
  <2> PICK k \in DOMAIN conn : CallFails(k)
    BY <1>1
  <2>1. PICK e \in Failure :
          /\ Leaves(k) /\ Moves
          /\ result' = [result EXCEPT ![conn[k].client] = [is |-> e, said |-> <<>>]]
    BY FailingMoves
  <2>2. [is |-> e, said |-> <<>>] \in [is : Verdicts \ {"waiting"}, said : Answers]
    BY DEF Failure, Verdicts, Answers
  <2> QED BY <2>1, <2>2
<1>2. CASE \E k \in DOMAIN conn : ReadReply(k)
  <2> PICK k \in DOMAIN conn : ReadReply(k)
    BY <1>2
  <2> DEFINE x == Calls!Returned(conn[k].command, conn[k].answers)
  <2>1. Leaves(k) /\ Moves /\ result' = [result EXCEPT ![conn[k].client] = x]
    BY ReplyMoves DEF ReadReply
  <2>2. conn[k].answers \in Answers
    BY ConnIs DEF IInv, Answers, Saying
  <2>3. x \in [is : {"Status", "Ok", "RemoteError", "Children"}, said : Answers]
    BY <2>2, ReturnedType
  <2> HIDE DEF x
  <2>4. x \in [is : Verdicts \ {"waiting"}, said : Answers]
    BY <2>3 DEF Verdicts
  <2> QED BY <2>1, <2>4
<1>3. CASE \E k \in DOMAIN conn : Connect(k) \/ WriteRequest(k) \/ Break(k) \/ FallSilent(k)
  BY <1>3, UnderWay, MovesUndisturbed
<1>4. CASE \E k \in DOMAIN conn : Handles(k)
  BY <1>4, HandlesMoves, MovesUndisturbed
<1>5. CASE \E k \in DOMAIN conn : Ask(k)
  <2> PICK k \in DOMAIN conn : Ask(k)
    BY <1>5
  <2>1. /\ result' = result /\ DOMAIN conn' = DOMAIN conn
        /\ \A j \in DOMAIN conn : j # k => conn'[j] = conn[j]
        /\ conn'[k].client = conn[k].client /\ conn'[k].at = conn[k].at
    BY AskIs DEF Sent
  <2> QED BY <2>1 DEF Undisturbed
<1>6. CASE AcceptFails \/ Crash \/ Listen
  BY <1>6, EndingMoves, ListenMoves, MovesUndisturbed
<1>7. CASE ServeCommand \/ ServeShutdown
  BY <1>7, ServeCommandMoves, ServeShutdownMoves, MovesUndisturbed
<1>8. CASE ServeChildTerminated \/ (\E id \in Id : ChildEnds(id)) \/ UNCHANGED vars
  BY <1>8 DEF ServeChildTerminated, ChildEnds, vars, Undisturbed
<1> QED BY <1>1, <1>2, <1>3, <1>4, <1>5, <1>6, <1>7, <1>8, StepCases

\* The counters stay within their bounds, and a process has one life.
LEMMA NextBounds ==
  ASSUME VarTypes, [Next]_vars
  PROVE  /\ calls' \in 0..MaxCalls /\ faults' \in 0..MaxFaults
         /\ faults <= faults'
         /\ listener' \in {"open", "closed", "dead"}
         /\ listener' = listener \/ (AcceptFails /\ listener' = "closed")
              \/ (Crash /\ listener' = "dead" /\ faults' = faults + 1) \/ Listen
<1> DEFINE Bounds == \/ UNCHANGED bounds
                     \/ faults < MaxFaults /\ faults' = faults + 1 /\ calls' = calls
                     \/ calls < MaxCalls /\ calls' = calls + 1 /\ faults' = faults
<1>0. MaxCalls \in Nat /\ MaxFaults \in Nat
  BY DistributedAssumption
<1>1. calls \in 0..MaxCalls /\ faults \in 0..MaxFaults /\ listener \in {"open", "closed", "dead"}
  BY DEF VarTypes
<1>2. Bounds /\ (\/ listener' = listener
                 \/ AcceptFails /\ listener' = "closed"
                 \/ Crash /\ listener' = "dead" /\ faults' = faults + 1
                 \/ Listen /\ listener' = "open")
  <2>1. CASE \E k \in DOMAIN conn : CallFails(k)
    BY <2>1 DEF CallFails, ConnectRefused, RequestTooLarge, CallBroken, GiveUp, Fails, Fault, bounds
  <2>2. CASE \E k \in DOMAIN conn : ReadReply(k)
    BY <2>2 DEF ReadReply, bounds
  <2>3. CASE \E k \in DOMAIN conn : Connect(k) \/ WriteRequest(k) \/ Break(k) \/ FallSilent(k)
    BY <2>3 DEF Connect, WriteRequest, Break, FallSilent, Fault, bounds
  <2>4. CASE \E k \in DOMAIN conn : Handles(k) \/ Ask(k)
    BY <2>4 DEF Handles, Accept, Receive, ReceiveFails, ReplyFails, WriteReply, Ask, bounds
  <2>5. CASE AcceptFails
    BY <2>5 DEF AcceptFails, Fault
  <2>6. CASE Crash
    BY <2>6 DEF Crash, Fault
  <2>7. CASE ServeCommand \/ ServeShutdown \/ ServeChildTerminated
    BY <2>7 DEF ServeCommand, ServeShutdown, ServeChildTerminated, bounds
  <2>8. CASE \E id \in Id : ChildEnds(id)
    BY <2>8 DEF ChildEnds, Fault
  <2>9. CASE Listen
    BY <2>9 DEF Listen, bounds
  <2>10. CASE \E c \in Client, m \in Asks : Invoke(c, m)
    BY <2>10 DEF Invoke, bounds
  <2>11. CASE UNCHANGED vars
    BY <2>11 DEF vars, bounds
  <2> QED BY <2>1, <2>2, <2>3, <2>4, <2>5, <2>6, <2>7, <2>8, <2>9, <2>10, <2>11, StepCases
<1>3. calls' \in 0..MaxCalls /\ faults' \in 0..MaxFaults /\ faults <= faults'
  BY <1>0, <1>1, <1>2 DEF bounds
<1>4. listener' \in {"open", "closed", "dead"}
  BY <1>1, <1>2
<1> QED BY <1>2, <1>3, <1>4

LEMMA NextVarTypes == IInv /\ [Next]_vars => VarTypes'
<1> SUFFICES ASSUME IInv, [Next]_vars PROVE VarTypes'
  OBVIOUS
<1>0. VarTypes /\ sup \in Supervisor /\ result \in [Client -> [is : Verdicts, said : Answers]]
  BY DEF IInv, VarTypes
<1>1. /\ calls' \in 0..MaxCalls /\ faults' \in 0..MaxFaults /\ faults <= faults'
      /\ listener' \in {"open", "closed", "dead"}
      /\ listener' = listener \/ (AcceptFails /\ listener' = "closed")
           \/ (Crash /\ listener' = "dead" /\ faults' = faults + 1) \/ Listen
  BY <1>0, NextBounds
<1>2. /\ sup' \in Supervisor /\ (~Listen => sup'.life = sup.life)
      /\ Listen => sup'.life = sup.life + 1
  <2>1. CASE sup' = sup /\ ~Listen
    BY <1>0, <2>1
  <2>2. CASE ((\E m \in Message : Puts(m)) \/ TakesHead) /\ ~Listen
    BY <2>2 DEF Puts, TakesHead
  <2>3. CASE sup' = Stopped /\ ~Listen
    BY <1>0, <2>3, StoppedIs
  <2>4. CASE Listen
    <3>1. sup.life + 1 <= faults /\ faults \in 0..MaxFaults /\ sup.life \in Nat /\ MaxFaults \in Nat
      BY <1>0, <2>4, DistributedAssumption DEF VarTypes, Listen, Supervisor
    <3>2. sup.life + 1 \in 0..MaxFaults /\ sup' = Fresh(sup.life + 1)
      BY <2>4, <3>1 DEF Listen
    <3> QED BY <2>4, <3>2, FreshIs
  <2> QED BY <2>1, <2>2, <2>3, <2>4, SupSteps
<1>3. sup'.life + (IF listener' = "dead" THEN 1 ELSE 0) <= faults'
  <2>1. /\ sup.life \in Nat /\ faults \in Nat /\ faults' \in Nat
        /\ sup.life + (IF listener = "dead" THEN 1 ELSE 0) <= faults
    BY <1>0, <1>1, DistributedAssumption DEF VarTypes, Supervisor
  <2>2. CASE Listen
    <3>1. listener = "dead" /\ listener' = "open" /\ sup'.life = sup.life + 1
      BY <1>2, <2>2 DEF Listen
    <3> QED BY <1>1, <2>1, <3>1
  <2>3. CASE ~Listen
    <3>1. sup'.life = sup.life
      BY <1>2, <2>3
    <3>2. CASE listener' = listener
      BY <1>1, <2>1, <3>1, <3>2
    <3>3. CASE listener' = "closed"
      BY <1>1, <2>1, <3>1, <3>3
    <3>4. CASE Crash /\ listener' = "dead" /\ faults' = faults + 1
      <4>1. listener # "dead"
        BY <3>4 DEF Crash
      <4> QED BY <2>1, <3>1, <3>4, <4>1
    <3> QED BY <1>1, <2>3, <3>2, <3>3, <3>4
  <2> QED BY <2>2, <2>3
<1>4. /\ conn' \in Seq(Conn)
      /\ listener' = "dead" => \A k \in DOMAIN conn' : conn'[k].task \in {"none", "ended"}
  <2>0. listener' = "dead" /\ ~Crash =>
          listener = "dead" /\ \A k \in DOMAIN conn : conn[k].task \in {"none", "ended"}
    BY <1>0, <1>1 DEF VarTypes, Listen
  <2>1. CASE Moves
    <3>1. Crash => \A k \in DOMAIN conn : conn'[k].task \in {"none", "ended"}
      BY EndingMoves
    <3> QED BY <2>0, <2>1, <3>1 DEF Moves, Moved
  <2>2. CASE \E k \in DOMAIN conn : Ask(k)
    <3> PICK k \in DOMAIN conn : Ask(k)
      BY <2>2
    <3>1. conn' \in Seq(Conn) /\ conn[k].task = "ask" /\ listener' = listener
      BY AskIs DEF Ask
    <3>2. listener # "dead"
      BY <1>0, <3>1 DEF VarTypes
    <3> QED BY <3>1, <3>2
  <2>3. CASE \E c \in Client, m \in Asks : Invoke(c, m)
    <3> PICK c \in Client, m \in Asks : Invoke(c, m)
      BY <2>3
    <3> DEFINE n == Len(conn) + 1
               late == \E j \in DOMAIN conn : conn[j].acked /\ conn[j].life = sup.life
    <3>1. /\ conn' \in Seq(Conn) /\ DOMAIN conn' = DOMAIN conn \cup {n}
          /\ conn'[n] = NewConn(c, m, late) /\ \A j \in DOMAIN conn : conn'[j] = conn[j]
      BY <1>0, InvokeIs
    <3>2. NewConn(c, m, late).task = "none"
      BY DEF NewConn
    <3>3. listener' = listener
      BY DEF Invoke
    <3> HIDE DEF late, n
    <3> QED BY <1>0, <3>1, <3>2, <3>3 DEF VarTypes
  <2> QED BY <2>1, <2>2, <2>3, NextMoves
<1>5. result' \in [Client -> [is : Verdicts, said : Answers]]
  <2>1. CASE Undisturbed
    BY <1>0, <2>1 DEF Undisturbed
  <2>2. CASE \E k \in DOMAIN conn, x \in [is : Verdicts \ {"waiting"}, said : Answers] :
               result' = [result EXCEPT ![conn[k].client] = x]
    <3> PICK k \in DOMAIN conn, x \in [is : Verdicts \ {"waiting"}, said : Answers] :
               result' = [result EXCEPT ![conn[k].client] = x]
      BY <2>2
    <3>1. x \in [is : Verdicts, said : Answers]
      OBVIOUS
    <3> QED BY <1>0, <3>1
  <2>3. CASE \E c \in Client, m \in Asks : Invoke(c, m)
    <3> PICK c \in Client, m \in Asks : Invoke(c, m)
      BY <2>3
    <3>1. Calls!Waiting \in [is : Verdicts, said : Answers]
      BY DEF Calls!Waiting, Verdicts, Answers
    <3> QED BY <1>0, <3>1 DEF Invoke
  <2> QED BY <2>1, <2>2, <2>3, ResultSteps
<1> QED BY <1>1, <1>2, <1>3, <1>4, <1>5 DEF VarTypes

(***************************************************************************)
(* Waiting.                                                                *)
(***************************************************************************)

LEMMA NextWaits == IInv /\ [Next]_vars => Waits'
<1> SUFFICES ASSUME IInv, [Next]_vars PROVE Waits'
  OBVIOUS
<1>0. /\ \A k \in DOMAIN conn : conn[k].at # "left" =>
            /\ result[conn[k].client] = Calls!Waiting
            /\ \A j \in DOMAIN conn : j > k => conn[j].client # conn[k].client
      /\ \A c \in Client : result[c] = Calls!Waiting =>
            \E k \in DOMAIN conn : conn[k].client = c /\ conn[k].at # "left"
      /\ DOMAIN conn \subseteq Nat
      /\ \A k \in DOMAIN conn : conn[k].client \in Client
      /\ result \in [Client -> [is : Verdicts, said : Answers]]
  <2>1. \A k \in DOMAIN conn : conn[k] \in Conn /\ k \in Nat
    BY ConnIs DEF IInv
  <2>2. \A k \in DOMAIN conn : conn[k].client \in Client
    BY <2>1 DEF Conn
  <2> QED BY <2>1, <2>2 DEF IInv, Waits, VarTypes
<1>1. CASE Undisturbed
  <2>1. /\ result' = result /\ DOMAIN conn' = DOMAIN conn
        /\ \A k \in DOMAIN conn : /\ conn'[k].client = conn[k].client
                                  /\ conn'[k].at = "left" <=> conn[k].at = "left"
    BY <1>1 DEF Undisturbed
  <2>2. ASSUME NEW k \in DOMAIN conn', conn'[k].at # "left"
        PROVE  /\ result'[conn'[k].client] = Calls!Waiting
               /\ \A j \in DOMAIN conn' : j > k => conn'[j].client # conn'[k].client
    <3>1. k \in DOMAIN conn /\ conn[k].at # "left" /\ conn'[k].client = conn[k].client
      BY <2>1, <2>2
    <3>2. /\ result[conn[k].client] = Calls!Waiting
          /\ \A j \in DOMAIN conn : j > k => conn[j].client # conn[k].client
      BY <1>0, <3>1
    <3> QED BY <2>1, <3>1, <3>2
  <2>3. ASSUME NEW c \in Client, result'[c] = Calls!Waiting
        PROVE  \E k \in DOMAIN conn' : conn'[k].client = c /\ conn'[k].at # "left"
    <3>1. PICK k \in DOMAIN conn : conn[k].client = c /\ conn[k].at # "left"
      BY <1>0, <2>1, <2>3
    <3> QED BY <2>1, <3>1
  <2> QED BY <2>2, <2>3 DEF Waits
<1>2. CASE \E k \in DOMAIN conn, x \in [is : Verdicts \ {"waiting"}, said : Answers] :
             Leaves(k) /\ Moves /\ result' = [result EXCEPT ![conn[k].client] = x]
  <2> PICK k \in DOMAIN conn, x \in [is : Verdicts \ {"waiting"}, said : Answers] :
             Leaves(k) /\ Moves /\ result' = [result EXCEPT ![conn[k].client] = x]
    BY <1>2
  <2>1. x # Calls!Waiting
    BY DEF Calls!Waiting
  <2>2. /\ DOMAIN conn' = DOMAIN conn /\ conn'[k].at = "left"
        /\ \A j \in DOMAIN conn : conn'[j].client = conn[j].client
        /\ \A j \in DOMAIN conn : j # k => conn'[j] = conn[j]
    BY DEF Leaves, Moves, Moved
  <2>3. \A j \in DOMAIN conn : j # k /\ conn[j].at # "left" => conn[j].client # conn[k].client
    <3> SUFFICES ASSUME NEW j \in DOMAIN conn, j # k, conn[j].at # "left"
                 PROVE  conn[j].client # conn[k].client
      OBVIOUS
    <3>1. conn[k].at # "left"
      BY DEF Leaves
    <3>2. j > k \/ k > j
      BY <1>0
    <3> QED BY <1>0, <3>1, <3>2
  <2>4. \A c \in Client : result'[c] = IF c = conn[k].client THEN x ELSE result[c]
    BY <1>0
  <2>5. \A j \in DOMAIN conn : conn'[j].at # "left" =>
          j # k /\ conn[j].at # "left" /\ conn[j].client # conn[k].client
    BY <2>2, <2>3
  <2>6. \A j \in DOMAIN conn' : conn'[j].at # "left" =>
          /\ result'[conn'[j].client] = Calls!Waiting
          /\ \A i \in DOMAIN conn' : i > j => conn'[i].client # conn'[j].client
    BY <1>0, <2>2, <2>4, <2>5
  <2>7. \A c \in Client : result'[c] = Calls!Waiting =>
          \E j \in DOMAIN conn' : conn'[j].client = c /\ conn'[j].at # "left"
    <3> SUFFICES ASSUME NEW c \in Client, result'[c] = Calls!Waiting
                 PROVE  \E j \in DOMAIN conn' : conn'[j].client = c /\ conn'[j].at # "left"
      OBVIOUS
    <3>1. c # conn[k].client /\ result[c] = Calls!Waiting
      BY <2>1, <2>4
    <3>2. PICK j \in DOMAIN conn : conn[j].client = c /\ conn[j].at # "left"
      BY <1>0, <3>1
    <3> QED BY <2>2, <3>1, <3>2
  <2> QED BY <2>6, <2>7 DEF Waits
<1>3. CASE \E c \in Client, m \in Asks : Invoke(c, m)
  <2> PICK c \in Client, m \in Asks : Invoke(c, m)
    BY <1>3
  <2> DEFINE n == Len(conn) + 1
             late == \E j \in DOMAIN conn : conn[j].acked /\ conn[j].life = sup.life
             new == NewConn(c, m, late)
  <2>1. /\ DOMAIN conn' = DOMAIN conn \cup {n} /\ conn'[n] = new /\ n \in Nat
        /\ \A j \in DOMAIN conn : j < n /\ conn'[j] = conn[j]
    BY InvokeIs DEF IInv
  <2>2. new.client = c /\ new.at = "connect"
    BY DEF NewConn
  <2>3. result[c] # Calls!Waiting /\ result' = [result EXCEPT ![c] = Calls!Waiting]
    BY DEF Invoke
  <2>4. \A d \in Client : result'[d] = IF d = c THEN Calls!Waiting ELSE result[d]
    BY <1>0, <2>3
  <2> HIDE DEF new, n
  <2>5. \A j \in DOMAIN conn : conn[j].at # "left" => conn[j].client # c
    BY <1>0, <2>3
  <2>6. ASSUME NEW j \in DOMAIN conn', conn'[j].at # "left"
        PROVE  /\ result'[conn'[j].client] = Calls!Waiting
               /\ \A i \in DOMAIN conn' : i > j => conn'[i].client # conn'[j].client
    <3>1. CASE j = n
      <4>1. \A i \in DOMAIN conn' : ~(i > j)
        BY <1>0, <2>1, <3>1
      <4> QED BY <2>1, <2>2, <2>4, <3>1, <4>1
    <3>2. CASE j \in DOMAIN conn
      <4>1. conn'[j] = conn[j] /\ conn[j].client # c /\ conn[j].client \in Client
        BY <1>0, <2>1, <2>5, <2>6, <3>2
      <4>2. /\ result[conn[j].client] = Calls!Waiting
            /\ \A i \in DOMAIN conn : i > j => conn[i].client # conn[j].client
        BY <1>0, <2>6, <3>2, <4>1
      <4>3. \A i \in DOMAIN conn' : i > j => conn'[i].client # conn'[j].client
        BY <2>1, <2>2, <4>1, <4>2
      <4> QED BY <2>4, <4>1, <4>2, <4>3
    <3> QED BY <2>1, <3>1, <3>2
  <2>7. ASSUME NEW d \in Client, result'[d] = Calls!Waiting
        PROVE  \E j \in DOMAIN conn' : conn'[j].client = d /\ conn'[j].at # "left"
    <3>1. CASE d = c
      BY <2>1, <2>2, <3>1
    <3>2. CASE d # c
      BY <1>0, <2>1, <2>4, <2>7, <3>2
    <3> QED BY <3>1, <3>2
  <2> QED BY <2>6, <2>7 DEF Waits
<1> QED BY <1>1, <1>2, <1>3, ResultSteps

(***************************************************************************)
(* The supervisor with its queue served, from step to step.                *)
(***************************************************************************)

LEMMA DrainedPuts ==
  ASSUME VarTypes, NEW m \in Message, Puts(m)
  PROVE  Drained' = Served(Drained, m) /\ Drained = Ahead(sup, Len(sup.queue))
<1>1. /\ sup \in Supervisor /\ sup' \in Supervisor /\ sup.running
      /\ sup'.queue = Append(sup.queue, m) /\ sup'.children = sup.children
      /\ sup'.running <=> sup.running
  BY DEF VarTypes, Puts
<1>2. DrainedOf(sup') = Served(DrainedOf(sup), m)
  BY <1>1, AheadAppend
<1> QED BY <1>1, <1>2, DrainedIs DEF DrainedOf

LEMMA DrainedTakes ==
  ASSUME VarTypes, TakesHead
  PROVE  Drained' = Drained
<1>1. /\ sup \in Supervisor /\ sup' \in Supervisor /\ sup.queue # <<>>
      /\ Head(sup.queue).op # "Shutdown" /\ sup'.queue = Tail(sup.queue)
      /\ sup'.running <=> sup.running
      /\ sup'.children = {id \in sup.children : ~Drops(Head(sup.queue), id)}
  BY DEF VarTypes, TakesHead
<1>2. DrainedOf(sup') = DrainedOf(sup)
  BY <1>1, AheadTail
<1> QED BY <1>1, <1>2, DrainedIs

LEMMA DrainedStops ==
  ASSUME VarTypes, sup' = Stopped
  PROVE  Drained' = Gone
BY StoppedIs, DrainedIs DEF VarTypes

LEMMA DrainedListen ==
  ASSUME VarTypes, VarTypes', Listen
  PROVE  Drained' = [open |-> TRUE, children |-> Id]
<1>1. sup' = Fresh(sup.life + 1) /\ sup' \in Supervisor
  BY DEF Listen, VarTypes
<1>2. sup.life + 1 \in 0..MaxFaults
  <2>1. sup'.life = sup.life + 1
    BY <1>1 DEF Fresh
  <2> QED BY <1>1, <2>1 DEF Supervisor
<1> QED BY <1>1, <1>2, FreshIs, DrainedIs

\* A supervisor that stops answers before it does as one that has stopped.
LEMMA DrainedShutdown ==
  ASSUME VarTypes, ServeShutdown
  PROVE  Drained = Gone /\ Drained' = Gone
<1>1. /\ sup \in Supervisor /\ sup.running /\ sup' = Stopped
      /\ 1 \in 1..Len(sup.queue) /\ sup.queue[1].op = "Shutdown"
  BY QueueIs DEF ServeShutdown
<1>2. Ahead(sup, Len(sup.queue)) = Gone
  BY <1>1 DEF Ahead
<1> QED BY <1>1, <1>2, DrainedIs, DrainedStops DEF DrainedOf

\* Serving leaves it open or not, and the rest only closes it.
LEMMA ServedCloses ==
  ASSUME NEW s, NEW m
  PROVE  /\ ~s.open => ~Served(s, m).open
         /\ m.op = "Shutdown" => ~Served(s, m).open
BY DEF Served, Gone

\* Only a new process opens it again.
LEMMA ClosedStays ==
  ASSUME IInv, [Next]_vars, ~Listen
  PROVE  sup'.life = sup.life /\ (~Drained.open => ~Drained'.open)
<1>0. VarTypes /\ sup \in Supervisor
  BY DEF IInv, VarTypes
<1>1. CASE sup' = sup
  BY <1>1 DEF Drained
<1>2. CASE \E m \in Message : Puts(m)
  BY <1>0, <1>2, DrainedPuts, ServedCloses DEF Puts
<1>3. CASE TakesHead
  BY <1>0, <1>3, DrainedTakes DEF TakesHead
<1>4. CASE sup' = Stopped
  <2>1. Drained' = Gone /\ sup'.life = sup.life
    BY <1>0, <1>4, DrainedStops, StoppedIs
  <2> QED BY <2>1 DEF Gone
<1> QED BY <1>1, <1>2, <1>3, <1>4, SupSteps

(***************************************************************************)
(* Queues.                                                                 *)
(***************************************************************************)

Awaits(k) == k \in DOMAIN conn /\ conn[k].task = "await"

\* Connection k goes on waiting for the same answer.
StillAwaits(k) ==
  /\ k \in DOMAIN conn' /\ conn'[k].task = "await"
  /\ conn'[k].due = conn[k].due /\ conn'[k].command = conn[k].command

\* Whose request is at position i, if it is one.
RequestOf(q, i, k) == i \in DOMAIN q /\ IsRequest(q[i]) /\ q[i].conn = k

\* What a request has to do with its connection, when s is ahead of it.
Fits(m, s, c) ==
  /\ m.op = Ops(c.command)[Len(c.due)]
  /\ m.op = "TerminateChild" => m.id = c.command.id
  /\ c.due[Len(c.due)] = Calls!Answer(s, m.op, m)

\* Queues again, in these terms.
LEMMA QueuesIs ==
  /\ Queues <=>
       /\ ~sup.running => sup.queue = <<>>
       /\ \A i, k : RequestOf(sup.queue, i, k) =>
            /\ Awaits(k) /\ Fits(sup.queue[i], Ahead(sup, i - 1), conn[k])
            /\ \A j : RequestOf(sup.queue, j, k) => j = i
       /\ \A k : Awaits(k) => \E i : RequestOf(sup.queue, i, k)
  /\ Queues' <=>
       /\ ~sup'.running => sup'.queue = <<>>
       /\ \A i, k : RequestOf(sup'.queue, i, k) =>
            /\ Awaits(k)' /\ Fits(sup'.queue[i], Ahead(sup', i - 1), conn'[k])
            /\ \A j : RequestOf(sup'.queue, j, k) => j = i
       /\ \A k : Awaits(k)' => \E i : RequestOf(sup'.queue, i, k)
BY DEF Queues, Predicted, RequestOf, Awaits, Fits

LEMMA FitsStill ==
  ASSUME NEW m, NEW s, NEW c, NEW d, d.due = c.due, d.command = c.command
  PROVE  Fits(m, s, c) <=> Fits(m, s, d)
BY DEF Fits

\* The queue stays, and so does who waits.
LEMMA QueuesStay ==
  ASSUME Queues, sup' = sup,
         \A k : Awaits(k) => StillAwaits(k), \A k : Awaits(k)' => Awaits(k)
  PROVE  Queues'
<1>1. \A i, k : RequestOf(sup'.queue, i, k) =>
        /\ Awaits(k)' /\ Fits(sup'.queue[i], Ahead(sup', i - 1), conn'[k])
        /\ \A j : RequestOf(sup'.queue, j, k) => j = i
  <2> SUFFICES ASSUME NEW i, NEW k, RequestOf(sup.queue, i, k)
               PROVE  /\ Awaits(k)' /\ Fits(sup.queue[i], Ahead(sup, i - 1), conn'[k])
                      /\ \A j : RequestOf(sup.queue, j, k) => j = i
    OBVIOUS
  <2>1. /\ Awaits(k) /\ Fits(sup.queue[i], Ahead(sup, i - 1), conn[k])
        /\ \A j : RequestOf(sup.queue, j, k) => j = i
    BY QueuesIs
  <2>2. StillAwaits(k)
    BY <2>1
  <2>3. conn'[k].due = conn[k].due /\ conn'[k].command = conn[k].command
    BY <2>2 DEF StillAwaits
  <2>4. Fits(sup.queue[i], Ahead(sup, i - 1), conn'[k])
    BY <2>1, <2>3, FitsStill
  <2> QED BY <2>1, <2>2, <2>4 DEF StillAwaits, Awaits
<1>2. \A k : Awaits(k)' => \E i : RequestOf(sup'.queue, i, k)
  BY QueuesIs
<1>3. ~sup'.running => sup'.queue = <<>>
  BY QueuesIs
<1> QED BY <1>1, <1>2, <1>3, QueuesIs

\* The queue is empty and nobody waits.
LEMMA QueuesEmpty ==
  ASSUME sup'.queue = <<>>, \A k \in DOMAIN conn' : conn'[k].task # "await"
  PROVE  Queues'
<1>1. \A i, k : ~RequestOf(sup'.queue, i, k)
  BY DEF RequestOf
<1>2. \A k : ~Awaits(k)'
  BY DEF Awaits
<1> QED BY <1>1, <1>2, QueuesIs

\* A message is queued; if it is a request, its connection begins to wait.
LEMMA QueuesPut ==
  ASSUME VarTypes, Queues, NEW m \in Message, Puts(m),
         \A k : Awaits(k) => StillAwaits(k),
         \A k : Awaits(k)' => Awaits(k) \/ (IsRequest(m) /\ m.conn = k),
         IsRequest(m) => /\ m.conn \in DOMAIN conn' /\ conn'[m.conn].task = "await" /\ ~Awaits(m.conn)
                         /\ Fits(m, Drained, conn'[m.conn])
  PROVE  Queues'
<1> DEFINE l == Len(sup.queue)
<1>1. /\ l \in Nat /\ DOMAIN sup.queue = 1..l /\ DOMAIN sup'.queue = 1..(l + 1)
      /\ sup'.queue[l + 1] = m /\ \A i \in 1..l : sup'.queue[i] = sup.queue[i]
  <2>1. sup.queue \in Seq(Message) /\ sup'.queue = Append(sup.queue, m)
    BY QueueIs DEF Puts
  <2>2. /\ sup'.queue \in Seq(Message) /\ Len(sup'.queue) = l + 1
        /\ sup'.queue[l + 1] = m /\ \A i \in 1..l : sup'.queue[i] = sup.queue[i]
    BY <2>1, AppendProperties
  <2> QED BY <2>1, <2>2, LenProperties
<1>2. /\ \A n \in 0..l : Ahead(sup', n) = Ahead(sup, n)
      /\ Drained = Ahead(sup, l)
  <2>1. /\ sup \in Supervisor /\ sup' \in Supervisor
        /\ sup'.running <=> sup.running
        /\ sup'.queue = Append(sup.queue, m) /\ sup'.children = sup.children
    BY DEF VarTypes, Puts
  <2>2. \A n \in 0..Len(sup.queue) : Ahead(sup', n) = Ahead(sup, n)
    BY <2>1, AheadAppend
  <2>3. Drained = Ahead(sup, Len(sup.queue))
    BY DrainedPuts
  <2> QED BY <2>2, <2>3
<1> HIDE DEF l
<1>3. \A i, k : RequestOf(sup'.queue, i, k) <=>
                  RequestOf(sup.queue, i, k) \/ (i = l + 1 /\ IsRequest(m) /\ m.conn = k)
  <2>1. \A i : i \in 1..(l + 1) <=> i \in 1..l \/ i = l + 1
    BY <1>1
  <2> QED BY <1>1, <2>1 DEF RequestOf
<1>4. ASSUME NEW i, NEW k, RequestOf(sup'.queue, i, k)
      PROVE  /\ Awaits(k)' /\ Fits(sup'.queue[i], Ahead(sup', i - 1), conn'[k])
             /\ \A j : RequestOf(sup'.queue, j, k) => j = i
  <2>1. CASE RequestOf(sup.queue, i, k)
    <3>1. /\ Awaits(k) /\ Fits(sup.queue[i], Ahead(sup, i - 1), conn[k])
          /\ \A j : RequestOf(sup.queue, j, k) => j = i
      BY <2>1, QueuesIs
    <3>2. StillAwaits(k) /\ Awaits(k)'
      BY <3>1 DEF StillAwaits, Awaits
    <3>3. i \in 1..l /\ i - 1 \in 0..l /\ sup'.queue[i] = sup.queue[i]
      BY <1>1, <2>1 DEF RequestOf
    <3>4. Fits(sup'.queue[i], Ahead(sup', i - 1), conn'[k])
      BY <1>2, <3>1, <3>2, <3>3, FitsStill DEF StillAwaits
    <3>5. ~(IsRequest(m) /\ m.conn = k)
      BY <3>1
    <3> QED BY <1>3, <3>1, <3>2, <3>4, <3>5
  <2>2. CASE i = l + 1 /\ IsRequest(m) /\ m.conn = k
    <3>1. Awaits(k)' /\ ~Awaits(k) /\ Fits(m, Drained, conn'[k])
      BY <2>2 DEF Awaits
    <3>2. l + 1 - 1 = l /\ l \in 0..l
      BY <1>1
    <3>3. Fits(sup'.queue[i], Ahead(sup', i - 1), conn'[k])
      BY <1>1, <1>2, <2>2, <3>1, <3>2
    <3>4. \A j : ~RequestOf(sup.queue, j, k)
      BY <3>1, QueuesIs
    <3> QED BY <1>3, <2>2, <3>1, <3>3, <3>4
  <2> QED BY <1>3, <1>4, <2>1, <2>2
<1>5. ASSUME NEW k, Awaits(k)' PROVE \E i : RequestOf(sup'.queue, i, k)
  <2>1. CASE Awaits(k)
    BY <1>3, <2>1, QueuesIs
  <2>2. CASE IsRequest(m) /\ m.conn = k
    BY <1>3, <2>2
  <2>3. Awaits(k) \/ (IsRequest(m) /\ m.conn = k)
    BY <1>5
  <2> QED BY <2>1, <2>2, <2>3
<1>6. sup'.running
  BY DEF Puts
<1> QED BY <1>4, <1>5, <1>6, QueuesIs

\* The first message is served; if it is a request, its connection waits no more.
LEMMA QueuesTake ==
  ASSUME VarTypes, Queues, TakesHead,
         \A k : Awaits(k) /\ ~RequestOf(sup.queue, 1, k) => StillAwaits(k),
         \A k : Awaits(k)' => Awaits(k) /\ ~RequestOf(sup.queue, 1, k)
  PROVE  Queues'
<1> DEFINE l == Len(sup.queue)
<1>1. /\ l \in Nat \ {0} /\ DOMAIN sup.queue = 1..l /\ DOMAIN sup'.queue = 1..(l - 1)
      /\ \A i \in 1..(l - 1) : sup'.queue[i] = sup.queue[i + 1]
  <2>1. sup'.queue = Tail(sup.queue) /\ sup.queue # <<>>
    BY DEF TakesHead
  <2>2. /\ l \in Nat /\ DOMAIN sup.queue = 1..l /\ 1 \in 1..l
        /\ sup'.queue \in Seq(Message) /\ Len(sup'.queue) = l - 1
        /\ \A i \in 1..(l - 1) : sup'.queue[i] = sup.queue[i + 1]
    BY <2>1, QueueIs
  <2> QED BY <2>2, LenProperties
<1>2. \A n \in 1..l : Ahead(sup', n - 1) = Ahead(sup, n)
  <2>1. /\ sup \in Supervisor /\ sup' \in Supervisor /\ sup.queue # <<>>
        /\ Head(sup.queue).op # "Shutdown" /\ sup'.queue = Tail(sup.queue)
        /\ sup'.running <=> sup.running
        /\ sup'.children = {id \in sup.children : ~Drops(Head(sup.queue), id)}
    BY DEF VarTypes, TakesHead
  <2> QED BY <2>1, AheadTail
<1> HIDE DEF l
<1>3. \A i, k : RequestOf(sup'.queue, i, k) =>
                  i \in 1..(l - 1) /\ RequestOf(sup.queue, i + 1, k) /\ sup'.queue[i] = sup.queue[i + 1]
  BY <1>1 DEF RequestOf
<1>4. \A i, k : RequestOf(sup.queue, i, k) /\ i # 1 => RequestOf(sup'.queue, i - 1, k)
  <2> SUFFICES ASSUME NEW i, NEW k, RequestOf(sup.queue, i, k), i # 1
               PROVE  RequestOf(sup'.queue, i - 1, k)
    OBVIOUS
  <2>1. i \in 1..l
    BY <1>1 DEF RequestOf
  <2>2. i - 1 \in 1..(l - 1) /\ i - 1 + 1 = i
    BY <1>1, <2>1
  <2>3. sup'.queue[i - 1] = sup.queue[i]
    BY <1>1, <2>2
  <2> QED BY <1>1, <2>2, <2>3 DEF RequestOf
<1>5. ASSUME NEW i, NEW k, RequestOf(sup'.queue, i, k)
      PROVE  /\ Awaits(k)' /\ Fits(sup'.queue[i], Ahead(sup', i - 1), conn'[k])
             /\ \A j : RequestOf(sup'.queue, j, k) => j = i
  <2>1. i \in 1..(l - 1) /\ RequestOf(sup.queue, i + 1, k) /\ sup'.queue[i] = sup.queue[i + 1]
    BY <1>3, <1>5
  <2>2. /\ Awaits(k) /\ Fits(sup.queue[i + 1], Ahead(sup, i + 1 - 1), conn[k])
        /\ \A j : RequestOf(sup.queue, j, k) => j = i + 1
    BY <2>1, QueuesIs
  <2>3. i + 1 # 1 /\ i + 1 - 1 = i /\ i \in 1..l
    BY <1>1, <2>1
  <2>4. ~RequestOf(sup.queue, 1, k)
    BY <2>2, <2>3
  <2>5. StillAwaits(k) /\ Awaits(k)'
    BY <2>2, <2>4 DEF StillAwaits, Awaits
  <2>6. Fits(sup'.queue[i], Ahead(sup', i - 1), conn'[k])
    BY <1>2, <2>1, <2>2, <2>3, <2>5, FitsStill DEF StillAwaits
  <2>7. ASSUME NEW j, RequestOf(sup'.queue, j, k) PROVE j = i
    <3>1. j \in 1..(l - 1) /\ j + 1 = i + 1
      BY <1>3, <2>2, <2>7
    <3> QED BY <1>1, <2>1, <3>1
  <2> QED BY <2>5, <2>6, <2>7
<1>6. ASSUME NEW k, Awaits(k)' PROVE \E i : RequestOf(sup'.queue, i, k)
  <2>1. Awaits(k) /\ ~RequestOf(sup.queue, 1, k)
    BY <1>6
  <2>2. PICK i : RequestOf(sup.queue, i, k)
    BY <2>1, QueuesIs
  <2>3. i # 1
    BY <2>1, <2>2
  <2> QED BY <1>4, <2>2, <2>3
<1>7. sup'.running
  BY DEF TakesHead
<1> QED BY <1>5, <1>6, <1>7, QueuesIs

\* Who waits goes on waiting.
LEMMA SameAwaits ==
  ASSUME Moves, SameAwait
  PROVE  (\A k : Awaits(k) => StillAwaits(k)) /\ (\A k : Awaits(k)' => Awaits(k))
<1>1. /\ DOMAIN conn' = DOMAIN conn
      /\ \A k \in DOMAIN conn : /\ conn'[k].due = conn[k].due /\ conn'[k].command = conn[k].command
                                /\ conn'[k].task = "await" <=> conn[k].task = "await"
  BY DEF Moves, Moved, SameAwait
<1> QED BY <1>1 DEF Awaits, StillAwaits

LEMMA AskQueues ==
  ASSUME IInv, NEW k \in DOMAIN conn, Ask(k)
  PROVE  Queues'
<1> DEFINE c == conn[k]
           d == conn'[k]
           m == Request(k)
           a == Calls!Answer(Drained, Due(k), c.command)
<1>0. VarTypes /\ Queues
  BY DEF IInv
<1>1. /\ DOMAIN conn' = DOMAIN conn /\ c.task = "ask"
      /\ \A j \in DOMAIN conn : j # k => conn'[j] = conn[j]
      /\ d.command = c.command /\ d.due = Append(c.due, a) /\ a \in Saying
      /\ \/ ~sup.running /\ sup' = sup /\ d.task # "await"
         \/ /\ Puts(m) /\ m.op = Due(k)
            /\ IsRequest(m) <=> d.task = "await"
  BY AskIs DEF Sent
<1>2. /\ Len(d.due) = Len(c.due) + 1 /\ d.due[Len(d.due)] = a
      /\ Due(k) = Ops(d.command)[Len(d.due)]
  <2>1. c.due \in Seq(Saying)
    BY ConnIs DEF IInv
  <2> HIDE DEF a
  <2>2. Len(d.due) = Len(c.due) + 1 /\ d.due[Len(c.due) + 1] = a
    BY <1>1, <2>1, AppendProperties
  <2> QED BY <1>1, <2>2 DEF Due
<1>3. m.conn = k /\ (m.op = "TerminateChild" => m.id = c.command.id)
  BY DEF Request
<1> HIDE DEF a, m, d, c
<1>4. \A j : Awaits(j) => StillAwaits(j)
  BY <1>1 DEF Awaits, StillAwaits, c
<1>5. \A j : Awaits(j)' => Awaits(j) \/ (j = k /\ d.task = "await")
  BY <1>1 DEF Awaits, d
<1>6. CASE ~sup.running /\ sup' = sup /\ d.task # "await"
  BY <1>0, <1>4, <1>5, <1>6, QueuesStay
<1>7. CASE Puts(m) /\ m.op = Due(k) /\ (IsRequest(m) <=> d.task = "await")
  <2>1. m \in Message
    BY <1>7 DEF Puts
  <2>2. Fits(m, Drained, d)
    <3>1. a = Calls!Answer(Drained, m.op, c.command)
      BY <1>7 DEF a
    <3>2. Calls!Answer(Drained, m.op, c.command) = Calls!Answer(Drained, m.op, m)
      BY <1>3, AnswerById
    <3> QED BY <1>1, <1>2, <1>3, <1>7, <3>1, <3>2 DEF Fits
  <2>3. IsRequest(m) => k \in DOMAIN conn' /\ conn'[k].task = "await" /\ ~Awaits(k)
    BY <1>1, <1>7 DEF Awaits, c, d
  <2>4. \A j : Awaits(j)' => Awaits(j) \/ (IsRequest(m) /\ m.conn = j)
    BY <1>3, <1>5, <1>7
  <2>5. IsRequest(m) => /\ m.conn \in DOMAIN conn' /\ conn'[m.conn].task = "await" /\ ~Awaits(m.conn)
                        /\ Fits(m, Drained, conn'[m.conn])
    BY <1>3, <2>2, <2>3 DEF d
  <2> QED BY <1>0, <1>4, <1>7, <2>1, <2>4, <2>5, QueuesPut
<1> QED BY <1>1, <1>6, <1>7

LEMMA TakeQueues ==
  ASSUME IInv, ServeCommand \/ ServeChildTerminated
  PROVE  Queues'
<1>0. VarTypes /\ Queues /\ Steps /\ TakesHead
  BY ServeTakesHead DEF IInv
<1>1. 1 \in DOMAIN sup.queue /\ Head(sup.queue) = sup.queue[1]
  BY <1>0, QueueIs DEF TakesHead
<1>2. CASE ServeChildTerminated
  <2>1. conn' = conn /\ \A k : ~RequestOf(sup.queue, 1, k)
    BY <1>1, <1>2 DEF ServeChildTerminated, RequestOf, IsRequest
  <2>2. (\A k : Awaits(k) => StillAwaits(k)) /\ (\A k : Awaits(k)' => Awaits(k))
    BY <1>0, <2>1, StillMoves, SameAwaits
  <2> QED BY <1>0, <2>1, <2>2, QueuesTake
<1>3. CASE ServeCommand
  <2> DEFINE n == Head(sup.queue).conn
  <2>1. /\ Moves /\ n \in DOMAIN conn /\ conn'[n].task # "await"
        /\ \A j \in DOMAIN conn : j # n => conn'[j] = conn[j]
    BY <1>3, ServeCommandMoves
  <2>2. \A k : RequestOf(sup.queue, 1, k) <=> k = n
    BY <1>1, <1>3 DEF RequestOf, IsRequest, ServeCommand
  <2> HIDE DEF n
  <2>3. DOMAIN conn' = DOMAIN conn
    BY <2>1 DEF Moves
  <2>4. \A k : Awaits(k) /\ k # n => StillAwaits(k)
    BY <2>1, <2>3 DEF Awaits, StillAwaits
  <2>5. \A k : Awaits(k)' => Awaits(k) /\ k # n
    BY <2>1, <2>3 DEF Awaits
  <2> QED BY <1>0, <2>2, <2>4, <2>5, QueuesTake
<1> QED BY <1>2, <1>3

LEMMA NextQueues == IInv /\ [Next]_vars => Queues'
<1> SUFFICES ASSUME IInv, [Next]_vars PROVE Queues'
  OBVIOUS
<1>0. VarTypes /\ Queues /\ Steps /\ sup \in Supervisor
  BY DEF IInv, VarTypes
<1>1. ASSUME Moves, SameAwait, sup' = sup PROVE Queues'
  BY <1>0, <1>1, SameAwaits, QueuesStay
<1>2. CASE \E k \in DOMAIN conn : CallFails(k) \/ ReadReply(k)
  BY <1>1, <1>2, FailingMoves, ReplyMoves DEF Leaves
<1>3. CASE \E k \in DOMAIN conn :
             Connect(k) \/ WriteRequest(k) \/ Break(k) \/ FallSilent(k) \/ Handles(k)
  BY <1>1, <1>3, UnderWay, HandlesMoves
<1>4. CASE AcceptFails
  <2>1. sup' = sup
    BY <1>4 DEF AcceptFails
  <2> QED BY <1>1, <1>4, <2>1, EndingMoves
<1>5. CASE UNCHANGED vars
  <2>1. sup' = sup /\ conn' = conn
    BY <1>5 DEF vars
  <2> QED BY <1>0, <1>1, <2>1, StillMoves
<1>6. CASE \E k \in DOMAIN conn : Ask(k)
  BY <1>6, AskQueues
<1>7. CASE ServeCommand \/ ServeChildTerminated
  BY <1>7, TakeQueues
<1>8. CASE \E id \in Id : ChildEnds(id)
  <2> PICK id \in Id : ChildEnds(id)
    BY <1>8
  <2> DEFINE m == [op |-> "ChildTerminated", id |-> id]
  <2>1. m \in Message /\ ~IsRequest(m)
    BY DEF Message, IsRequest
  <2>2. sup.running /\ sup' = [sup EXCEPT !.queue = Queued(m)] /\ conn' = conn
    BY DEF ChildEnds
  <2> HIDE DEF m
  <2>3. Puts(m)
    BY <1>0, <2>1, <2>2, QueuedPuts
  <2>4. (\A k : Awaits(k) => StillAwaits(k)) /\ (\A k : Awaits(k)' => Awaits(k))
    BY <1>0, <2>2, StillMoves, SameAwaits
  <2> QED BY <1>0, <2>1, <2>3, <2>4, QueuesPut
<1>9. CASE Crash \/ ServeShutdown
  <2>1. sup' = Stopped /\ DOMAIN conn' = DOMAIN conn /\ \A k \in DOMAIN conn : conn'[k].task # "await"
    BY <1>9, EndingMoves, ServeShutdownMoves DEF Crash, ServeShutdown, Moves
  <2>2. sup'.queue = <<>>
    BY <1>0, <2>1, StoppedIs
  <2> QED BY <2>1, <2>2, QueuesEmpty
<1>10. CASE Listen
  <2>1. DOMAIN conn' = DOMAIN conn /\ \A k \in DOMAIN conn : conn'[k].task # "await"
    BY <1>10, ListenMoves DEF Moves
  <2>2. sup'.queue = <<>>
    BY <1>10 DEF Listen, Fresh
  <2> QED BY <2>1, <2>2, QueuesEmpty
<1>11. CASE \E c \in Client, m \in Asks : Invoke(c, m)
  <2> PICK c \in Client, m \in Asks : Invoke(c, m)
    BY <1>11
  <2> DEFINE n == Len(conn) + 1
             late == \E j \in DOMAIN conn : conn[j].acked /\ conn[j].life = sup.life
  <2>1. /\ DOMAIN conn' = DOMAIN conn \cup {n} /\ conn'[n] = NewConn(c, m, late)
        /\ \A j \in DOMAIN conn : conn'[j] = conn[j]
    BY <1>0, InvokeIs
  <2>2. NewConn(c, m, late).task = "none"
    BY DEF NewConn
  <2>3. sup' = sup
    BY DEF Invoke
  <2> HIDE DEF late, n
  <2>4. \A k : Awaits(k) => StillAwaits(k)
    BY <2>1 DEF Awaits, StillAwaits
  <2>5. \A k : Awaits(k)' => Awaits(k)
    BY <2>1, <2>2 DEF Awaits
  <2> QED BY <1>0, <2>3, <2>4, <2>5, QueuesStay
<1> QED BY <1>2, <1>3, <1>4, <1>5, <1>6, <1>7, <1>8, <1>9, <1>10, <1>11, StepCases

(***************************************************************************)
(* Closing.                                                                *)
(***************************************************************************)

LEMMA MovedShuts ==
  ASSUME NEW c, NEW d, Moved(c, d), sup.life \in Nat, NEW o, NEW p, ~o => ~p,
         Shuts(c, sup.life, o)
  PROVE  Shuts(d, sup.life, p)
<1>1. /\ d.client = c.client /\ d.command = c.command /\ d.due = c.due
      /\ d.late => c.late
      /\ d.task \in {"ask", "await"} => c.task \in {"ask", "await"} \/ c.due = <<>>
      /\ d.life # c.life => d.life = sup.life /\ c.due = <<>>
      /\ d.acked => c.acked \/ (c.command.cmd = "Shutdown" /\ c.due # <<>>)
  BY DEF Moved
<1>2. \A i : Refused(d, i) <=> Refused(c, i)
  BY <1>1 DEF Refused
<1>3. c.due = <<>> => \A i \in 1..Len(c.due) : FALSE
  OBVIOUS
<1>4. /\ d.life <= sup.life
      /\ d.acked => d.command.cmd = "Shutdown" /\ d.due # <<>>
      /\ d.command.cmd = "Shutdown" /\ d.due # <<>> /\ d.life = sup.life => ~p
  BY <1>1 DEF Shuts
<1>5. /\ d.late => ~p /\ \A i \in 1..Len(d.due) : Refused(d, i)
      /\ d.task \in {"ask", "await"} /\ (\E i \in 1..Len(d.due) : Refused(d, i)) => ~p
  BY <1>1, <1>2, <1>3 DEF Shuts
<1>6. /\ \A i, j \in 1..Len(d.due) : i < j /\ Refused(d, i) => Refused(d, j)
      /\ d.command.cmd = "Status" => \A i \in 1..Len(d.due) : d.due[i].say # "ChildNotFound"
  BY <1>1, <1>2 DEF Shuts
<1> QED BY <1>4, <1>5, <1>6 DEF Shuts

LEMMA MovesCloses ==
  ASSUME IInv, [Next]_vars, Moves, ~Listen
  PROVE  Closes'
<1>1. sup'.life = sup.life /\ (~Drained.open => ~Drained'.open) /\ sup.life \in Nat
  BY ClosedStays DEF IInv, VarTypes, Supervisor
<1>2. ASSUME NEW k \in DOMAIN conn PROVE Shuts(conn'[k], sup.life, Drained'.open)
  <2>1. Moved(conn[k], conn'[k]) /\ Shuts(conn[k], sup.life, Drained.open)
    BY DEF Moves, IInv, Closes
  <2> QED BY <1>1, <2>1, MovedShuts
<1> QED BY <1>1, <1>2 DEF Closes, Moves

LEMMA ListenCloses ==
  ASSUME IInv, Listen
  PROVE  Closes'
<1>1. sup'.life = sup.life + 1 /\ sup.life \in Nat /\ DOMAIN conn' = DOMAIN conn
  BY ListenMoves DEF IInv, VarTypes, Supervisor, Listen, Fresh, Moves
<1>2. ASSUME NEW k \in DOMAIN conn, NEW p PROVE Shuts(conn'[k], sup.life + 1, p)
  <2> DEFINE c == conn[k]
             d == conn'[k]
  <2>1. /\ Moved(c, d) /\ Shuts(c, sup.life, Drained.open)
        /\ d.task \in {"none", "ended"} /\ d.late = FALSE /\ c.life \in Nat
    <3>1. Moved(c, d) /\ Shuts(c, sup.life, Drained.open)
      BY ListenMoves DEF Moves, IInv, Closes
    <3>2. c \in Conn
      BY ConnIs DEF IInv
    <3>3. c.life \in Nat
      BY <3>2 DEF Conn
    <3> QED BY <3>1, <3>3, ListenMoves
  <2> HIDE DEF c, d
  <2>2. /\ d.client = c.client /\ d.command = c.command /\ d.due = c.due
        /\ d.life # c.life => d.life = sup.life /\ c.due = <<>>
        /\ d.acked => c.acked \/ (c.command.cmd = "Shutdown" /\ c.due # <<>>)
    BY <2>1 DEF Moved
  <2>3. \A i : Refused(d, i) <=> Refused(c, i)
    BY <2>2 DEF Refused
  <2>4. d.life \in Nat /\ d.life <= sup.life
    BY <1>1, <2>1, <2>2 DEF Shuts
  <2>5. d.life <= sup.life + 1 /\ d.life # sup.life + 1
    BY <1>1, <2>4
  <2>6. d.acked => d.command.cmd = "Shutdown" /\ d.due # <<>>
    BY <2>1, <2>2 DEF Shuts
  <2>7. /\ \A i, j \in 1..Len(d.due) : i < j /\ Refused(d, i) => Refused(d, j)
        /\ d.command.cmd = "Status" => \A i \in 1..Len(d.due) : d.due[i].say # "ChildNotFound"
    BY <2>1, <2>2, <2>3 DEF Shuts
  <2> QED BY <2>1, <2>5, <2>6, <2>7 DEF Shuts, d
<1> QED BY <1>1, <1>2 DEF Closes

\* Only a supervisor that is closed says so.
LEMMA SaysShut ==
  ASSUME sup \in Supervisor, NEW op, NEW m
  PROVE  Calls!Answer(Drained, op, m).say = "ShuttingDown" <=> ~Drained.open
<1>1. Drained.children \subseteq Id
  BY DrainedType
<1>2. Calls!Closed.say = "ShuttingDown"
  BY DEF Calls!Closed, Calls!Says
<1> HIDE DEF Drained
<1> QED BY <1>1, <1>2, AnswerType

\* What is sent to a supervisor that is closed is refused; a shutdown closes it.
LEMMA SentShuts ==
  ASSUME NEW c \in Conn, NEW d, NEW a, Sent(c, d, a), NEW o, NEW p, ~o => ~p,
         a.say = "ShuttingDown" <=> ~o,
         c.command.cmd = "Shutdown" => ~p,
         c.command.cmd = "Status" => a.say # "ChildNotFound",
         Shuts(c, sup.life, o)
  PROVE  Shuts(d, sup.life, p)
<1> DEFINE l == Len(c.due)
<1>1. /\ d.command = c.command /\ d.due = Append(c.due, a)
      /\ d.late = c.late /\ d.acked = c.acked /\ d.life = c.life /\ c.task = "ask"
  BY DEF Sent
<1>2. /\ l \in Nat /\ Len(d.due) = l + 1 /\ d.due[l + 1] = a /\ \A i \in 1..l : d.due[i] = c.due[i]
  BY <1>1 DEF Conn, Answers
<1>3. /\ \A i \in 1..l : Refused(d, i) <=> Refused(c, i)
      /\ Refused(d, l + 1) <=> ~o
  BY <1>2 DEF Refused
<1> HIDE DEF l
<1>4. \A i : i \in 1..(l + 1) <=> i \in 1..l \/ i = l + 1
  BY <1>2
<1>5. (\E i \in 1..l : Refused(c, i)) => ~o
  BY <1>1 DEF Shuts, l
<1>6. /\ d.life <= sup.life
      /\ d.acked => d.command.cmd = "Shutdown" /\ d.due # <<>>
      /\ d.command.cmd = "Shutdown" /\ d.due # <<>> /\ d.life = sup.life => ~p
  <2>1. d.due # <<>>
    BY <1>2
  <2> QED BY <1>1, <2>1 DEF Shuts
<1>7. d.late => ~p /\ \A i \in 1..(l + 1) : Refused(d, i)
  <2>1. d.late => ~o /\ \A i \in 1..l : Refused(c, i)
    BY <1>1 DEF Shuts, l
  <2> QED BY <1>3, <1>4, <2>1
<1>8. (\E i \in 1..(l + 1) : Refused(d, i)) => ~p
  BY <1>3, <1>4, <1>5
<1>9. ASSUME NEW i \in 1..(l + 1), NEW j \in 1..(l + 1), i < j, Refused(d, i) PROVE Refused(d, j)
  <2>1. i \in 1..l /\ Refused(c, i)
    BY <1>2, <1>3, <1>9
  <2>2. CASE j = l + 1
    BY <1>3, <1>5, <2>1, <2>2
  <2>3. CASE j \in 1..l
    <3>1. Refused(c, j)
      BY <1>9, <2>1, <2>3 DEF Shuts, l
    <3> QED BY <1>3, <2>3, <3>1
  <2> QED BY <1>4, <2>2, <2>3
<1>10. d.command.cmd = "Status" => \A i \in 1..(l + 1) : d.due[i].say # "ChildNotFound"
  <2>1. d.command.cmd = "Status" => \A i \in 1..l : c.due[i].say # "ChildNotFound"
    BY <1>1 DEF Shuts, l
  <2> QED BY <1>1, <1>2, <1>4, <2>1
<1> QED BY <1>2, <1>6, <1>7, <1>8, <1>9, <1>10 DEF Shuts

LEMMA AskCloses ==
  ASSUME IInv, [Next]_vars, NEW k \in DOMAIN conn, Ask(k)
  PROVE  Closes'
<1> DEFINE c == conn[k]
           op == Due(k)
           a == Calls!Answer(Drained, op, c.command)
<1>0. ~Listen
  <2>1. c.task = "ask"
    BY DEF Ask
  <2> QED BY <2>1 DEF IInv, VarTypes, Listen
<1>1. /\ sup'.life = sup.life /\ (~Drained.open => ~Drained'.open) /\ sup \in Supervisor /\ VarTypes
      /\ \A j \in DOMAIN conn : Shuts(conn[j], sup.life, Drained.open)
  BY <1>0, ClosedStays DEF IInv, VarTypes, Closes
<1>2. /\ DOMAIN conn' = DOMAIN conn /\ \A j \in DOMAIN conn : j # k => conn'[j] = conn[j]
      /\ Len(c.due) + 1 <= Len(Ops(c.command)) /\ Sent(c, conn'[k], a)
      /\ \/ ~sup.running /\ sup' = sup
         \/ Puts(Request(k)) /\ Request(k).op = op
  BY AskIs
<1>3. c \in Conn /\ c.command \in RemoteCommand /\ Len(c.due) \in Nat
  <2>1. c \in Conn /\ c.command \in RemoteCommand /\ c.due \in Seq(Saying)
    BY ConnIs DEF IInv
  <2> QED BY <2>1, LenProperties
<1>4. /\ op = "TerminateChild" <=> c.command.cmd = "TerminateChild"
      /\ op = "Shutdown" <=> c.command.cmd = "Shutdown"
  <2>1. Len(c.due) + 1 \in 1..Len(Ops(c.command))
    BY <1>2, <1>3, OpsType
  <2> QED BY <1>3, <2>1, OpsType DEF Due
<1>5. a.say = "ShuttingDown" <=> ~Drained.open
  BY <1>1, SaysShut
<1>6. c.command.cmd = "Status" => a.say # "ChildNotFound"
  <2>1. Drained.children \subseteq Id
    BY <1>1, DrainedType
  <2> QED BY <1>4, <2>1, AnswerType
<1>7. c.command.cmd = "Shutdown" => ~Drained'.open
  <2>1. CASE ~sup.running /\ sup' = sup
    <3>1. ~Drained.open
      BY <1>1, <2>1, DrainedType DEF Gone
    <3> QED BY <1>1, <3>1
  <2>2. CASE Puts(Request(k)) /\ Request(k).op = op
    <3>1. Request(k) \in Message
      BY <2>2 DEF Puts
    <3>2. Drained' = Served(Drained, Request(k))
      BY <1>1, <2>2, <3>1, DrainedPuts
    <3> QED BY <1>4, <2>2, <3>2, ServedCloses
  <2> QED BY <1>2, <2>1, <2>2
<1> HIDE DEF a, c, op
<1>8. Shuts(conn'[k], sup.life, Drained'.open)
  <2>1. Shuts(c, sup.life, Drained.open)
    BY <1>1 DEF c
  <2> QED BY <1>1, <1>2, <1>3, <1>5, <1>6, <1>7, <2>1, SentShuts
<1>9. ASSUME NEW j \in DOMAIN conn, j # k PROVE Shuts(conn'[j], sup.life, Drained'.open)
  BY <1>1, <1>2, <1>9 DEF Shuts
<1> QED BY <1>1, <1>2, <1>8, <1>9 DEF Closes

LEMMA InvokeCloses ==
  ASSUME IInv, NEW e \in Client, NEW m \in Asks, Invoke(e, m)
  PROVE  Closes'
<1> DEFINE n == Len(conn) + 1
           late == \E j \in DOMAIN conn : conn[j].acked /\ conn[j].life = sup.life
           new == NewConn(e, m, late)
<1>1. /\ DOMAIN conn' = DOMAIN conn \cup {n} /\ conn'[n] = new
      /\ \A j \in DOMAIN conn : conn'[j] = conn[j]
  BY InvokeIs DEF IInv
<1>2. sup' = sup /\ Drained' = Drained /\ sup.life \in Nat
  BY DEF Invoke, Drained, IInv, VarTypes, Supervisor
<1>3. \A j \in DOMAIN conn : Shuts(conn[j], sup.life, Drained.open)
  BY DEF IInv, Closes
<1>4. late => ~Drained.open
  BY <1>3 DEF Shuts
<1>5. /\ new.life = 0 /\ new.acked = FALSE /\ new.due = <<>> /\ new.late = late /\ new.task = "none"
  BY DEF NewConn
<1>6. Len(<<>>) = 0 /\ (\A i \in 1..0 : FALSE) /\ 0 <= sup.life
  BY <1>2
<1> HIDE DEF new, n, late
<1>7. Shuts(new, sup.life, Drained.open)
  BY <1>4, <1>5, <1>6 DEF Shuts
<1>8. \A j \in DOMAIN conn' : Shuts(conn'[j], sup.life, Drained.open)
  BY <1>1, <1>3, <1>7
<1> QED BY <1>2, <1>8 DEF Closes

LEMMA NextCloses == IInv /\ [Next]_vars => Closes'
<1> SUFFICES ASSUME IInv, [Next]_vars PROVE Closes'
  OBVIOUS
<1>1. CASE Moves /\ ~Listen
  BY <1>1, MovesCloses
<1>2. CASE Listen
  BY <1>2, ListenCloses
<1>3. CASE \E k \in DOMAIN conn : Ask(k)
  BY <1>3, AskCloses
<1>4. CASE \E c \in Client, m \in Asks : Invoke(c, m)
  BY <1>4, InvokeCloses
<1> QED BY <1>1, <1>2, <1>3, <1>4, NextMoves

(***************************************************************************)
(* The invariant.                                                          *)
(***************************************************************************)

LEMMA InitInv == Init => IInv
<1> SUFFICES ASSUME Init PROVE IInv
  OBVIOUS
<1>0. MaxCalls \in Nat /\ MaxFaults \in Nat /\ 0 \in 0..MaxFaults /\ 0 \in 0..MaxCalls
  BY DistributedAssumption
<1>1. sup \in Supervisor /\ sup.running /\ sup.queue = <<>> /\ sup.life = 0
  BY <1>0, FreshIs DEF Init
<1>2. conn = <<>> /\ DOMAIN conn = {} /\ conn \in Seq(Conn)
  <2>1. conn = <<>>
    BY DEF Init
  <2>2. DOMAIN <<>> = {} /\ <<>> \in Seq(Conn)
    BY EmptySeq
  <2> QED BY <2>1, <2>2
<1>3. /\ listener = "open" /\ calls = 0 /\ faults = 0
      /\ result = [c \in Client |-> Calls!None]
  BY DEF Init
<1>4. Calls!None \in [is : Verdicts, said : Answers] /\ Calls!None # Calls!Waiting
  <2>1. Calls!None.is = "-" /\ Calls!Waiting.is = "waiting"
    BY DEF Calls!None, Calls!Waiting
  <2> QED BY <2>1 DEF Calls!None, Verdicts, Answers
<1>5. VarTypes
  BY <1>0, <1>1, <1>2, <1>3, <1>4 DEF VarTypes
<1>6. Waits
  BY <1>2, <1>3, <1>4 DEF Waits
<1>7. Steps /\ Closes
  BY <1>2 DEF Steps, Closes
<1>8. Queues
  <2>1. DOMAIN sup.queue = {}
    BY <1>1, EmptySeq
  <2> QED BY <1>1, <1>2, <2>1 DEF Queues
<1> QED BY <1>5, <1>6, <1>7, <1>8 DEF IInv

LEMMA Invariance == Spec => []IInv
<1>1. IInv /\ [Next]_vars => IInv'
  BY NextVarTypes, NextWaits, NextSteps, NextQueues, NextCloses DEF IInv
<1> QED BY InitInv, <1>1, PTL DEF Spec

(***************************************************************************)
(* The theorems.                                                           *)
(***************************************************************************)

\* TypeOK holds in every reachable state: a client that waits does so for one
\* connection, its latest, and otherwise for none.
THEOREM RemoteTypes == Spec => []TypeOK
<1>1. IInv => TypeOK
  <2> SUFFICES ASSUME IInv PROVE TypeOK
    OBVIOUS
  <2>1. VarTypes /\ Waits /\ sup \in Supervisor
    BY DEF IInv, VarTypes
  <2>2. /\ sup.running \in BOOLEAN /\ sup.life \in 0..MaxFaults /\ sup.children \subseteq Id
    BY <2>1 DEF Supervisor
  <2>3. \A i \in DOMAIN sup.queue : sup.queue[i].op \in {"Shutdown", "WhichChildren",
          "TerminateChild", "GetRestartStrategy", "GetUptime", "ChildTerminated"}
    <3> SUFFICES ASSUME NEW i \in DOMAIN sup.queue
                 PROVE  sup.queue[i].op \in {"Shutdown", "WhichChildren",
                          "TerminateChild", "GetRestartStrategy", "GetUptime", "ChildTerminated"}
      OBVIOUS
    <3>1. sup.queue[i] \in Message
      BY <2>1, QueueIs
    <3> QED BY <3>1 DEF Message, Op
  <2>4. ASSUME NEW c \in Client
        PROVE  Cardinality({k \in DOMAIN conn : conn[k].client = c /\ conn[k].at # "left"})
                 = IF result[c] = Calls!Waiting THEN 1 ELSE 0
    <3> DEFINE S == {k \in DOMAIN conn : conn[k].client = c /\ conn[k].at # "left"}
    <3>1. CASE result[c] = Calls!Waiting
      <4>1. PICK k \in DOMAIN conn : conn[k].client = c /\ conn[k].at # "left"
        BY <2>1, <3>1 DEF Waits
      <4>2. \A j \in S : j = k
        <5> SUFFICES ASSUME NEW j \in S PROVE j = k
          OBVIOUS
        <5>1. j \in Nat /\ k \in Nat
          BY <4>1, ConnIs DEF IInv
        <5>2. ~(j > k) /\ ~(k > j)
          BY <2>1, <4>1 DEF Waits
        <5> QED BY <5>1, <5>2
      <4>3. S = {k}
        BY <4>1, <4>2
      <4> QED BY <3>1, <4>3, FS_Singleton
    <3>2. CASE result[c] # Calls!Waiting
      <4>1. S = {}
        BY <2>1, <3>2 DEF Waits
      <4> QED BY <3>2, <4>1, FS_EmptySet
    <3> QED BY <3>1, <3>2
  <2> QED BY <2>1, <2>2, <2>3, <2>4 DEF TypeOK, VarTypes
<1> QED BY Invariance, <1>1, PTL

\* What a call that is not a shutdown was told is what was due to it.
LEMMA ToldWasDue ==
  ASSUME IInv, NEW k \in DOMAIN conn, conn[k].command.cmd # "Shutdown"
  PROVE  /\ Len(conn[k].answers) \in Nat /\ Len(conn[k].due) \in Nat
         /\ DOMAIN conn[k].answers = 1..Len(conn[k].answers)
         /\ \A i \in 1..Len(conn[k].answers) :
              i \in 1..Len(conn[k].due) /\ conn[k].answers[i] = conn[k].due[i]
<1> DEFINE c == conn[k]
<1>1. /\ Step(c) /\ c.answers \in Seq(Saying) /\ c.due \in Seq(Saying)
      /\ c.command.cmd # "Shutdown"
  BY ConnIs DEF IInv
<1> HIDE DEF c
<1>2. /\ Len(c.answers) \in Nat /\ Len(c.due) \in Nat /\ DOMAIN c.answers = 1..Len(c.answers)
  BY <1>1, LenProperties
<1>3. Len(c.answers) <= Len(c.due) /\ \A i \in 1..Len(c.answers) : c.answers[i] = c.due[i]
  BY <1>1 DEF Step
<1>4. \A i \in 1..Len(c.answers) : i \in 1..Len(c.due)
  BY <1>2, <1>3
<1> QED BY <1>2, <1>3, <1>4 DEF c

\* ShutdownIsFinal: after a shutdown was acknowledged no later call is served.
THEOREM ShutdownFinal == Spec => []ShutdownIsFinal
<1>1. IInv => ShutdownIsFinal
  <2> SUFFICES ASSUME IInv, NEW k \in DOMAIN conn,
                      conn[k].late, conn[k].command.cmd # "Shutdown",
                      NEW i \in DOMAIN conn[k].answers
               PROVE  conn[k].answers[i].say = "ShuttingDown"
    BY DEF ShutdownIsFinal
  <2>1. i \in 1..Len(conn[k].due) /\ conn[k].answers[i] = conn[k].due[i]
    BY ToldWasDue
  <2>2. Refused(conn[k], i)
    BY <2>1 DEF IInv, Closes, Shuts
  <2> QED BY <2>1, <2>2 DEF Refused
<1> QED BY Invariance, <1>1, PTL

\* StatusNotMixed: a status without the strategy reports nothing else.
THEOREM StatusWhole == Spec => []StatusNotMixed
<1>1. IInv => StatusNotMixed
  <2> SUFFICES ASSUME IInv, NEW k \in DOMAIN conn,
                      StatusRead(k), ~Knows(k, "GetRestartStrategy"),
                      NEW i \in DOMAIN conn[k].answers
               PROVE  conn[k].answers[i].say # "Ok"
    BY DEF StatusNotMixed, Knows
  <2> DEFINE c == conn[k]
  <2>1. c.command.cmd = "Status" /\ Len(c.answers) = Len(Ops(c.command))
    BY DEF StatusRead
  <2>2. /\ Len(c.answers) \in Nat /\ DOMAIN c.answers = 1..Len(c.answers)
        /\ \A j \in 1..Len(c.answers) : j \in 1..Len(c.due) /\ c.answers[j] = c.due[j]
    BY <2>1, ToldWasDue
  <2>3. Len(c.answers) = 3 /\ Ops(c.command)[1] = "GetRestartStrategy" /\ 1 \in 1..3
    BY <2>1, OpsType, ConnIs DEF IInv
  <2>4. c.due[1].say # "Ok" /\ c.answers[1] = c.due[1] /\ 1 \in 1..Len(c.due)
    BY <2>2, <2>3 DEF Knows
  <2>5. /\ \A j \in 1..Len(c.due) : c.due[j].say # "ChildNotFound"
        /\ \A j \in 1..Len(c.due) : 1 < j /\ Refused(c, 1) => Refused(c, j)
    BY <2>1, <2>4 DEF IInv, Closes, Shuts
  <2>6. c.due[1] \in Saying
    BY <2>4, ConnIs, ElementOfSeq DEF IInv
  <2>7. Refused(c, 1)
    <3>1. c.due[1].say \in {"Ok", "ChildNotFound", "ShuttingDown"}
      BY <2>6 DEF Saying
    <3> QED BY <2>4, <2>5, <3>1 DEF Refused
  <2>8. i = 1 \/ 1 < i
    BY <2>2
  <2>9. i \in 1..Len(c.due) /\ c.answers[i] = c.due[i] /\ Refused(c, i)
    BY <2>2, <2>5, <2>7, <2>8
  <2> QED BY <2>9 DEF Refused
<1> QED BY Invariance, <1>1, PTL

(***************************************************************************)
(* Distributed implements RemoteCalls.                                     *)
(***************************************************************************)

\* The abstract variables.
Out(x) == IF x.is \in Failure THEN Calls!Failed ELSE x
Outcomes == [c \in Client |-> Out(result[c])]
Req(c) == [client |-> c.client, command |-> c.command, answers |-> c.due]
Requests == [k \in DOMAIN conn |-> Req(conn[k])]

\* The two instances of RemoteCalls have the same operators.
LEMMA AbstractOps ==
  /\ \A m : Abstract!Ops(m) = Ops(m)
  /\ \A s, op, m : Abstract!Answer(s, op, m) = Calls!Answer(s, op, m)
  /\ \A s, op, m : Abstract!After(s, op, m) = Calls!After(s, op, m)
  /\ \A m, s : Abstract!Returned(m, s) = Calls!Returned(m, s)
  /\ Abstract!Waiting = Calls!Waiting /\ Abstract!Failed = Calls!Failed
  /\ Abstract!None = Calls!None
<1>1. \A m : Abstract!Ops(m) = Ops(m)
  BY DEF Abstract!Ops, Ops, Calls!Ops
<1>2. \A w, cs : Abstract!Says(w, cs) = Calls!Says(w, cs)
  BY DEF Abstract!Says, Calls!Says
<1>3. \A s, op, m : Abstract!Answer(s, op, m) = Calls!Answer(s, op, m)
  BY <1>2 DEF Abstract!Answer, Calls!Answer, Abstract!Closed, Calls!Closed
<1>4. \A s, op, m : Abstract!After(s, op, m) = Calls!After(s, op, m)
  BY DEF Abstract!After, Calls!After
<1>5. \A m, s : Abstract!Returned(m, s) = Calls!Returned(m, s)
  BY DEF Abstract!Returned, Calls!Returned, Abstract!Verdict, Calls!Verdict
<1>6. Abstract!Waiting = Calls!Waiting /\ Abstract!Failed = Calls!Failed /\ Abstract!None = Calls!None
  BY DEF Abstract!Waiting, Calls!Waiting, Abstract!Failed, Calls!Failed, Abstract!None, Calls!None
<1> QED BY <1>1, <1>3, <1>4, <1>5, <1>6

\* What the abstract actions say of them.
LEMMA AbstractInvoke ==
  ASSUME NEW c, NEW m, Outcomes[c] # Calls!Waiting, Drained' = Drained,
         Requests' = Append(Requests, [client |-> c, command |-> m, answers |-> <<>>]),
         Outcomes' = [Outcomes EXCEPT ![c] = Calls!Waiting]
  PROVE  Abstract!Invoke(c, m)
BY AbstractOps DEF Abstract!Invoke, Requests, Req, Outcomes, Out, Failure

LEMMA AbstractEffect ==
  ASSUME NEW k, NEW n, n = Len(Requests[k].answers) + 1,
         n <= Len(Ops(Requests[k].command)),
         Requests' = [Requests EXCEPT ![k].answers =
           Append(@, Calls!Answer(Drained, Ops(Requests[k].command)[n], Requests[k].command))],
         Drained' = Calls!After(Drained, Ops(Requests[k].command)[n], Requests[k].command),
         Outcomes' = Outcomes
  PROVE  Abstract!Effect(k)
BY AbstractOps DEF Abstract!Effect, Requests, Req, Outcomes, Out, Failure

LEMMA AbstractReturn ==
  ASSUME NEW c, NEW k, Outcomes[c] = Calls!Waiting, Requests[k].client = c,
         \A j \in (k + 1)..Len(Requests) : Requests[j].client # c,
         Len(Requests[k].answers) = Len(Ops(Requests[k].command)),
         Outcomes' = [Outcomes EXCEPT ![c] =
                        Calls!Returned(Requests[k].command, Requests[k].answers)],
         Drained' = Drained, Requests' = Requests
  PROVE  Abstract!Return(c, k)
BY AbstractOps DEF Abstract!Return, Abstract!Current, Requests, Req, Outcomes, Out, Failure

LEMMA AbstractFail ==
  ASSUME NEW c, Outcomes[c] = Calls!Waiting,
         Outcomes' = [Outcomes EXCEPT ![c] = Calls!Failed],
         Drained' = Drained, Requests' = Requests
  PROVE  Abstract!Fail(c)
BY AbstractOps DEF Abstract!Fail, Requests, Req, Outcomes, Out, Failure

LEMMA AbstractOthers ==
  ASSUME Requests' = Requests, Outcomes' = Outcomes
  PROVE  /\ Drained' = Drained => UNCHANGED Abstract!vars
         /\ \A id : Drained' = [Drained EXCEPT !.children = @ \ {id}] => Abstract!Leave(id)
         /\ Drained' = Gone => Abstract!Die
         /\ Drained' = [open |-> TRUE, children |-> Id] => Abstract!Replace
BY DEF Abstract!vars, Abstract!Leave, Abstract!Die, Abstract!Replace, Abstract!Fresh, Gone,
       Requests, Req, Outcomes, Out, Failure

\* When connections only move, the requests are the same.
LEMMA MovesRequests ==
  ASSUME Moves
  PROVE  Requests' = Requests
<1>1. DOMAIN conn' = DOMAIN conn /\ \A k \in DOMAIN conn : Req(conn'[k]) = Req(conn[k])
  BY DEF Moves, Moved, Req
<1> QED BY <1>1 DEF Requests

\* A result as the specification sees it.
LEMMA OutIs ==
  /\ \A x : Out(x) = Calls!Waiting <=> x = Calls!Waiting
  /\ Out(Calls!None) = Calls!None
  /\ \A e \in Failure : Out([is |-> e, said |-> <<>>]) = Calls!Failed
  /\ \A m, s : Out(Calls!Returned(m, s)) = Calls!Returned(m, s)
<1>1. /\ Calls!Waiting.is = "waiting" /\ Calls!Failed.is = "failed" /\ Calls!None.is = "-"
  BY DEF Calls!Waiting, Calls!Failed, Calls!None
<1>2. \A m, s : Calls!Returned(m, s).is \in {"Status", "Ok", "RemoteError", "Children"}
  BY DEF Calls!Returned, Calls!Verdict
<1>3. \A e : [is |-> e, said |-> <<>>].is = e
  OBVIOUS
<1> QED BY <1>1, <1>2, <1>3 DEF Out, Failure

LEMMA OutcomesExcept ==
  ASSUME VarTypes, NEW c \in Client, NEW x, result' = [result EXCEPT ![c] = x]
  PROVE  Outcomes' = [Outcomes EXCEPT ![c] = Out(x)]
<1>1. \A d \in Client : result'[d] = IF d = c THEN x ELSE result[d]
  BY DEF VarTypes
<1>2. \A d \in Client : Out(result'[d]) = IF d = c THEN Out(x) ELSE Out(result[d])
  BY <1>1
<1> QED BY <1>2 DEF Outcomes

LEMMA RequestIs ==
  ASSUME IInv, NEW k \in DOMAIN conn
  PROVE  /\ Requests[k].client = conn[k].client /\ Requests[k].command = conn[k].command
         /\ Requests[k].answers = conn[k].due
         /\ Len(Requests) = Len(conn)
<1>1. Requests[k] = Req(conn[k])
  BY DEF Requests
<1>2. DOMAIN Requests = 1..Len(conn) /\ Len(conn) \in Nat
  BY ConnIs DEF IInv, Requests
<1>3. Len(Requests) = Len(conn)
  BY <1>2
<1> QED BY <1>1, <1>3 DEF Req

LEMMA FailsImplements ==
  ASSUME IInv, NEW k \in DOMAIN conn, CallFails(k)
  PROVE  \E c \in Client : Abstract!Fail(c)
<1>1. PICK c \in Client : c = conn[k].client
  <2>1. conn[k] \in Conn
    BY ConnIs DEF IInv
  <2> QED BY <2>1 DEF Conn
<1>2. /\ Moves /\ conn[k].at # "left" /\ sup' = sup
      /\ \E e \in Failure : result' = [result EXCEPT ![c] = [is |-> e, said |-> <<>>]]
  BY <1>1, FailingMoves DEF Leaves
<1>3. Outcomes[c] = Calls!Waiting
  <2>1. result[c] = Calls!Waiting
    BY <1>1, <1>2 DEF IInv, Waits
  <2> QED BY <2>1, OutIs DEF Outcomes
<1>4. Outcomes' = [Outcomes EXCEPT ![c] = Calls!Failed]
  <2> PICK e \in Failure : result' = [result EXCEPT ![c] = [is |-> e, said |-> <<>>]]
    BY <1>2
  <2>1. Outcomes' = [Outcomes EXCEPT ![c] = Out([is |-> e, said |-> <<>>])]
    BY OutcomesExcept DEF IInv
  <2> QED BY <2>1, OutIs
<1>5. Drained' = Drained /\ Requests' = Requests
  BY <1>2, MovesRequests DEF Drained
<1>6. Abstract!Fail(c)
  BY <1>3, <1>4, <1>5, AbstractFail
<1> QED BY <1>6

LEMMA ReplyImplements ==
  ASSUME IInv, NEW k \in DOMAIN conn, ReadReply(k)
  PROVE  \E d \in Client : Abstract!Return(d, k)
<1> DEFINE c == conn[k]
<1>1. Moves /\ c.at # "left" /\ sup' = sup
  BY ReplyMoves DEF Leaves
<1>2. /\ c \in Conn /\ Step(c) /\ c.answers \in Seq(Saying) /\ c.due \in Seq(Saying)
      /\ Len(conn) \in Nat /\ DOMAIN conn = 1..Len(conn) /\ k \in 1..Len(conn) /\ c.client \in Client
  BY ConnIs DEF IInv, Conn
<1>3. Len(c.answers) = Len(Ops(c.command)) /\ Len(c.due) = Len(Ops(c.command))
  <2>1. c.down # "none"
    BY DEF ReadReply
  <2> QED BY <1>2, <2>1 DEF Step
<1>4. /\ Outcomes[c.client] = Calls!Waiting
      /\ \A j \in DOMAIN conn : j > k => conn[j].client # c.client
  <2>1. /\ result[c.client] = Calls!Waiting
        /\ \A j \in DOMAIN conn : j > k => conn[j].client # c.client
    BY <1>1 DEF IInv, Waits
  <2> QED BY <1>2, <2>1, OutIs DEF Outcomes
<1>5. \A j \in (k + 1)..Len(Requests) : Requests[j].client # c.client
  <2> SUFFICES ASSUME NEW j \in (k + 1)..Len(conn) PROVE Requests[j].client # c.client
    BY RequestIs
  <2>1. j \in DOMAIN conn /\ j > k
    BY <1>2
  <2> QED BY <1>4, <2>1, RequestIs
<1>6. Calls!Returned(c.command, c.answers) = Calls!Returned(c.command, c.due)
  <2>1. CASE c.command.cmd = "Shutdown"
    BY <2>1 DEF Calls!Returned, Calls!Verdict
  <2>2. CASE c.command.cmd # "Shutdown"
    <3>1. \A i \in 1..Len(c.answers) : c.answers[i] = c.due[i]
      BY <1>2, <2>2 DEF Step
    <3>2. c.answers = c.due
      BY <1>2, <1>3, <3>1, SeqEqual
    <3> QED BY <3>2
  <2> QED BY <2>1, <2>2
<1>7. Outcomes' = [Outcomes EXCEPT ![c.client] = Calls!Returned(c.command, c.due)]
  <2>1. result' = [result EXCEPT ![c.client] = Calls!Returned(c.command, c.answers)]
    BY DEF ReadReply
  <2>2. Outcomes' = [Outcomes EXCEPT ![c.client] = Out(Calls!Returned(c.command, c.answers))]
    BY <1>2, <2>1, OutcomesExcept DEF IInv
  <2> QED BY <1>6, <2>2, OutIs
<1>8. Drained' = Drained /\ Requests' = Requests
  BY <1>1, MovesRequests DEF Drained
<1>9. Requests[k].client = c.client /\ Requests[k].command = c.command /\ Requests[k].answers = c.due
  BY RequestIs
<1>10. PICK d \in Client : d = c.client
  BY <1>2
<1> HIDE DEF c
<1>11. Abstract!Return(d, k)
  BY <1>3, <1>4, <1>5, <1>7, <1>8, <1>9, <1>10, AbstractReturn
<1> QED BY <1>11

\* Serving a message later or now is the abstract effect of its operation.
LEMMA ServedIsAfter ==
  ASSUME NEW s, NEW op \in Op, NEW m, NEW n, m.op = op, op = "TerminateChild" => m.id = n.id,
         s = Gone \/ (s = [open |-> TRUE, children |-> s.children])
  PROVE  Served(s, m) = Calls!After(s, op, n) /\ Calls!After(Gone, op, n) = Gone
<1>1. Calls!After(Gone, op, n) = Gone
  BY DEF Calls!After, Gone, Op
<1>2. CASE s = Gone
  <2>1. Gone.open = FALSE
    BY DEF Gone
  <2> QED BY <1>1, <1>2, <2>1 DEF Served
<1>3. CASE s = [open |-> TRUE, children |-> s.children]
  <2> DEFINE X == s.children
  <2>1. s = [open |-> TRUE, children |-> X] /\ s.open = TRUE
    BY <1>3
  <2> HIDE DEF X
  <2>2. CASE op = "Shutdown"
    BY <2>2 DEF Served, Calls!After, Gone
  <2>3. CASE op = "TerminateChild"
    <3>1. {id \in X : ~Drops(m, id)} = X \ {n.id}
      BY <2>3 DEF Drops
    <3>2. Served(s, m) = [open |-> TRUE, children |-> X \ {n.id}]
      <4>1. s.children = X
        BY DEF X
      <4> QED BY <2>1, <2>3, <3>1, <4>1 DEF Served
    <3>3. Calls!After(s, op, n) = [open |-> TRUE, children |-> X \ {n.id}]
      <4>1. Calls!After(s, op, n) = [s EXCEPT !.children = @ \ {n.id}]
        BY <2>3 DEF Calls!After
      <4> QED BY <2>1, <4>1
    <3> QED BY <1>1, <3>2, <3>3
  <2>4. CASE op \notin {"Shutdown", "TerminateChild"}
    <3>1. {id \in X : ~Drops(m, id)} = X
      BY <2>4 DEF Drops, Op
    <3>2. Served(s, m) = s
      <4>1. s.children = X
        BY DEF X
      <4> QED BY <2>1, <2>4, <3>1, <4>1 DEF Served
    <3>3. Calls!After(s, op, n) = s
      BY <2>4 DEF Calls!After
    <3> QED BY <1>1, <3>2, <3>3
  <2> QED BY <2>2, <2>3, <2>4
<1> QED BY <1>2, <1>3

LEMMA AfterGone ==
  ASSUME NEW op \in Op, NEW n
  PROVE  Calls!After(Gone, op, n) = Gone
BY DEF Calls!After, Gone, Op

LEMMA ChildrenUpdate ==
  ASSUME NEW s \in [open : BOOLEAN, children : SUBSET Id], NEW id
  PROVE  [s EXCEPT !.children = @ \ {id}] = [open |-> s.open, children |-> s.children \ {id}]
<1>1. PICK r : r = [s EXCEPT !.children = @ \ {id}]
  OBVIOUS
<1>2. /\ r \in [open : BOOLEAN, children : SUBSET Id]
      /\ r.open = s.open /\ r.children = s.children \ {id}
  BY <1>1
<1>3. r = [open |-> r.open, children |-> r.children]
  BY <1>2
<1> QED BY <1>1, <1>2, <1>3

LEMMA AskImplements ==
  ASSUME IInv, NEW k \in DOMAIN conn, Ask(k)
  PROVE  Abstract!Effect(k)
<1> DEFINE c == conn[k]
           d == conn'[k]
           a == Calls!Answer(Drained, Due(k), c.command)
<1>0. VarTypes /\ sup \in Supervisor
  BY DEF IInv, VarTypes
<1>1. /\ DOMAIN conn' = DOMAIN conn /\ \A j \in DOMAIN conn : j # k => conn'[j] = conn[j]
      /\ Due(k) \in Op /\ Len(c.due) + 1 <= Len(Ops(c.command))
      /\ Sent(c, d, a) /\ result' = result
      /\ \/ ~sup.running /\ sup' = sup
         \/ Puts(Request(k)) /\ Request(k).op = Due(k)
  BY AskIs
<1>2. /\ Requests[k].client = c.client /\ Requests[k].command = c.command
      /\ Requests[k].answers = c.due
  BY RequestIs
<1>3. PICK n : n = Len(c.due) + 1
  OBVIOUS
<1>4. Due(k) = Ops(Requests[k].command)[n] /\ n = Len(Requests[k].answers) + 1
      /\ n <= Len(Ops(Requests[k].command))
  BY <1>1, <1>2, <1>3 DEF Due
<1>5. Drained' = Calls!After(Drained, Due(k), c.command)
  <2>0. Drained = Gone \/ Drained = [open |-> TRUE, children |-> Drained.children]
    BY <1>0, DrainedType
  <2>1. /\ Request(k).op = "TerminateChild" => Request(k).id = c.command.id
    BY DEF Request
  <2>2. CASE ~sup.running /\ sup' = sup
    <3>1. Drained = Gone /\ Drained' = Drained
      BY <1>0, <2>2, DrainedType DEF Drained
    <3> HIDE DEF c
    <3>2. Calls!After(Gone, Due(k), c.command) = Gone
      BY <1>1, AfterGone
    <3> QED BY <3>1, <3>2
  <2>3. CASE Puts(Request(k)) /\ Request(k).op = Due(k)
    <3>1. Request(k) \in Message
      BY <2>3 DEF Puts
    <3>2. Drained' = Served(Drained, Request(k))
      BY <1>0, <2>3, <3>1, DrainedPuts
    <3> HIDE DEF c
    <3>3. /\ \E op \in Op : op = Due(k)
          /\ \E s : s = Drained
          /\ \E m : m = Request(k)
          /\ \E x : x = c.command
      BY <1>1
    <3> PICK op \in Op : op = Due(k)
      BY <3>3
    <3> PICK s, m, x : s = Drained /\ m = Request(k) /\ x = c.command
      BY <3>3
    <3>4. m.op = op /\ (op = "TerminateChild" => m.id = x.id)
      BY <2>1, <2>3
    <3>5. s = Gone \/ s = [open |-> TRUE, children |-> s.children]
      BY <2>0
    <3>6. Served(s, m) = Calls!After(s, op, x)
      BY <3>4, <3>5, ServedIsAfter
    <3> QED BY <3>2, <3>6
  <2> QED BY <1>1, <2>2, <2>3
<1>6. Requests' = [Requests EXCEPT ![k].answers = Append(@, a)]
  <2>1. d.client = c.client /\ d.command = c.command /\ d.due = Append(c.due, a)
    BY <1>1 DEF Sent
  <2> HIDE DEF a
  <2>2. PICK r : r = [Req(c) EXCEPT !.answers = Append(@, a)]
    OBVIOUS
  <2>3. r = Req(d)
    <3>1. r = [client |-> c.client, command |-> c.command, answers |-> Append(c.due, a)]
      BY <2>2 DEF Req
    <3>2. Req(d) = [client |-> c.client, command |-> c.command, answers |-> Append(c.due, a)]
      BY <2>1 DEF Req
    <3> HIDE DEF c, d
    <3> QED BY <3>1, <3>2
  <2>4. \A j \in DOMAIN conn : j # k => Req(conn'[j]) = Req(conn[j])
    BY <1>1
  <2>5. Requests[k] = Req(c) /\ DOMAIN Requests = DOMAIN conn
    BY DEF Requests
  <2>6. Requests' = [Requests EXCEPT ![k] = r]
    BY <1>1, <2>3, <2>4 DEF Requests
  <2>7. r = [Requests[k] EXCEPT !.answers = Append(@, a)]
    BY <2>2, <2>5
  <2> HIDE DEF Requests
  <2> QED BY <2>6, <2>7
<1>7. Outcomes' = Outcomes
  BY <1>1 DEF Outcomes
<1> HIDE DEF c
<1>8. a = Calls!Answer(Drained, Ops(Requests[k].command)[n], Requests[k].command)
  BY <1>2, <1>4
<1> HIDE DEF a
<1>9. /\ Drained' = Calls!After(Drained, Ops(Requests[k].command)[n], Requests[k].command)
      /\ Requests' = [Requests EXCEPT ![k].answers =
           Append(@, Calls!Answer(Drained, Ops(Requests[k].command)[n], Requests[k].command))]
  BY <1>2, <1>4, <1>5, <1>6, <1>8
<1> QED BY <1>4, <1>7, <1>9, AbstractEffect

LEMMA InvokeImplements ==
  ASSUME IInv, NEW e \in Client, NEW m \in Asks, Invoke(e, m)
  PROVE  Abstract!Invoke(e, m)
<1> DEFINE n == Len(conn) + 1
           late == \E j \in DOMAIN conn : conn[j].acked /\ conn[j].life = sup.life
           new == NewConn(e, m, late)
           r == [client |-> e, command |-> m, answers |-> <<>>]
<1>1. /\ DOMAIN conn' = DOMAIN conn \cup {n} /\ conn'[n] = new
      /\ \A j \in DOMAIN conn : conn'[j] = conn[j]
  BY InvokeIs DEF IInv
<1>2. Drained' = Drained
  BY DEF Invoke, Drained
<1>3. Req(new) = r
  BY DEF NewConn, Req
<1>4. DOMAIN conn = 1..Len(conn) /\ Len(conn) \in Nat
  BY LenProperties DEF IInv, VarTypes
<1> HIDE DEF new, r, late
<1>5. Requests' = Append(Requests, r)
  <2>1. Len(Requests) = Len(conn) /\ Requests = [j \in 1..Len(conn) |-> Req(conn[j])]
    <3>1. Requests = [j \in 1..Len(conn) |-> Req(conn[j])]
      BY <1>4 DEF Requests
    <3> QED BY <1>4, <3>1
  <2>2. Append(Requests, r) = [j \in 1..n |-> IF j = n THEN r ELSE Requests[j]]
    BY <1>4, <2>1
  <2>3. Requests' = [j \in 1..n |-> Req(conn'[j])]
    BY <1>1, <1>4 DEF Requests
  <2>4. \A j \in 1..n : Req(conn'[j]) = IF j = n THEN r ELSE Requests[j]
    BY <1>1, <1>3, <1>4, <2>1
  <2> QED BY <2>2, <2>3, <2>4
<1>6. Outcomes[e] # Calls!Waiting
  BY OutIs DEF Invoke, Outcomes
<1>7. Outcomes' = [Outcomes EXCEPT ![e] = Calls!Waiting]
  <2>1. result' = [result EXCEPT ![e] = Calls!Waiting]
    BY DEF Invoke
  <2>2. Outcomes' = [Outcomes EXCEPT ![e] = Out(Calls!Waiting)]
    BY <2>1, OutcomesExcept DEF IInv
  <2> QED BY <2>2, OutIs
<1> QED BY <1>2, <1>5, <1>6, <1>7, AbstractInvoke DEF r

\* Steps that a caller does not see.
LEMMA MovesStutter ==
  ASSUME Moves, UNCHANGED result, Drained' = Drained
  PROVE  UNCHANGED Abstract!vars
<1>1. Outcomes' = Outcomes
  BY DEF Outcomes
<1> QED BY <1>1, MovesRequests, AbstractOthers

LEMMA NextImplements == IInv /\ [Next]_vars => [Abstract!Next]_(Abstract!vars)
<1> SUFFICES ASSUME IInv, [Next]_vars PROVE [Abstract!Next]_(Abstract!vars)
  OBVIOUS
<1>0. VarTypes /\ Steps /\ sup \in Supervisor
  BY DEF IInv, VarTypes
<1>1. ASSUME Moves, UNCHANGED result
      PROVE  Requests' = Requests /\ Outcomes' = Outcomes
  BY <1>1, MovesRequests DEF Outcomes
<1>2. CASE \E k \in DOMAIN conn : CallFails(k)
  BY <1>2, FailsImplements DEF Abstract!Next
<1>3. CASE \E k \in DOMAIN conn : ReadReply(k)
  <2> PICK k \in DOMAIN conn : ReadReply(k)
    BY <1>3
  <2>1. k \in DOMAIN Requests
    BY DEF Requests
  <2>2. \E d \in Client : Abstract!Return(d, k)
    BY ReplyImplements
  <2> QED BY <2>1, <2>2 DEF Abstract!Next, Requests
<1>4. CASE \E k \in DOMAIN conn : Connect(k) \/ WriteRequest(k) \/ Break(k) \/ FallSilent(k)
  BY <1>4, UnderWay, MovesStutter DEF Drained
<1>5. CASE \E k \in DOMAIN conn : Handles(k)
  BY <1>5, HandlesMoves, MovesStutter DEF Drained
<1>6. CASE \E k \in DOMAIN conn : Ask(k)
  <2> PICK k \in DOMAIN conn : Ask(k)
    BY <1>6
  <2>1. Abstract!Effect(k)
    BY AskImplements
  <2> QED BY <2>1 DEF Abstract!Next
<1>7. CASE AcceptFails
  <2>1. Drained' = Drained
    BY <1>7 DEF AcceptFails, Drained
  <2> QED BY <1>7, <2>1, EndingMoves, MovesStutter
<1>8. CASE Crash
  <2>1. Drained' = Gone
    BY <1>0, <1>8, DrainedStops DEF Crash
  <2>2. Abstract!Die
    BY <1>1, <1>8, <2>1, EndingMoves, AbstractOthers
  <2> QED BY <2>2 DEF Abstract!Next
<1>9. CASE ServeCommand
  <2>1. Drained' = Drained
    BY <1>0, <1>9, ServeTakesHead, DrainedTakes
  <2> QED BY <1>9, <2>1, ServeCommandMoves, MovesStutter
<1>10. CASE ServeShutdown
  <2>1. Drained' = Drained
    BY <1>0, <1>10, DrainedShutdown
  <2> QED BY <1>10, <2>1, ServeShutdownMoves, MovesStutter
<1>11. CASE ServeChildTerminated
  <2>1. Drained' = Drained
    BY <1>0, <1>11, ServeTakesHead, DrainedTakes
  <2>2. conn' = conn /\ result' = result
    BY <1>11 DEF ServeChildTerminated
  <2> QED BY <1>0, <2>1, <2>2, StillMoves, MovesStutter
<1>12. CASE \E id \in Id : ChildEnds(id)
  <2> PICK id \in Id : ChildEnds(id)
    BY <1>12
  <2> DEFINE m == [op |-> "ChildTerminated", id |-> id]
  <2>1. m \in Message /\ \A x : Drops(m, x) <=> x = id
    BY DEF Message, Drops
  <2>2. sup.running /\ sup' = [sup EXCEPT !.queue = Queued(m)] /\ conn' = conn /\ result' = result
    BY DEF ChildEnds
  <2>3. m.op # "Shutdown"
    OBVIOUS
  <2> HIDE DEF m
  <2>4. Drained' = Served(Drained, m)
    BY <1>0, <2>1, <2>2, QueuedPuts, DrainedPuts
  <2>5. Drained' = [Drained EXCEPT !.children = @ \ {id}]
    <3> DEFINE X == Drained.children
    <3>1. {x \in X : ~Drops(m, x)} = X \ {id}
      BY <2>1
    <3>2. Drained = Gone \/ Drained = [open |-> TRUE, children |-> X]
      BY <1>0, DrainedType
    <3>3. Served(Drained, m) = IF Drained.open THEN [open |-> TRUE, children |-> X \ {id}] ELSE Gone
      BY <2>3, <3>1 DEF Served
    <3>4. [Drained EXCEPT !.children = @ \ {id}] = [open |-> Drained.open, children |-> X \ {id}]
      <4>1. Drained \in [open : BOOLEAN, children : SUBSET Id]
        <5>1. X \subseteq Id
          BY <1>0, DrainedType
        <5> HIDE DEF X
        <5>2. [open |-> TRUE, children |-> X] \in [open : BOOLEAN, children : SUBSET Id]
          BY <5>1
        <5>3. Gone \in [open : BOOLEAN, children : SUBSET Id]
          BY DEF Gone
        <5> QED BY <3>2, <5>2, <5>3
      <4> QED BY <4>1, ChildrenUpdate
    <3>5. CASE Drained = Gone
      <4>1. Drained.open = FALSE /\ X = {}
        BY <3>5 DEF Gone
      <4>2. X \ {id} = {}
        BY <4>1
      <4>3. [open |-> Drained.open, children |-> X \ {id}] = Gone
        BY <4>1, <4>2 DEF Gone
      <4> QED BY <2>4, <3>3, <3>4, <4>1, <4>3
    <3>6. CASE Drained = [open |-> TRUE, children |-> X]
      <4>1. Drained.open = TRUE
        BY <3>6
      <4> QED BY <2>4, <3>3, <3>4, <4>1
    <3> QED BY <3>2, <3>5, <3>6
  <2>6. Requests' = Requests /\ Outcomes' = Outcomes
    BY <1>0, <1>1, <2>2, StillMoves
  <2>7. Abstract!Leave(id)
    BY <2>5, <2>6, AbstractOthers
  <2> QED BY <2>7 DEF Abstract!Next
<1>13. CASE Listen
  <2>1. VarTypes'
    BY NextVarTypes
  <2>2. Drained' = [open |-> TRUE, children |-> Id]
    BY <1>0, <1>13, <2>1, DrainedListen
  <2>3. Abstract!Replace
    BY <1>1, <1>13, <2>2, ListenMoves, AbstractOthers
  <2> QED BY <2>3 DEF Abstract!Next
<1>14. CASE \E c \in Client, m \in Asks : Invoke(c, m)
  BY <1>14, InvokeImplements DEF Abstract!Next
<1>15. CASE UNCHANGED vars
  <2>1. conn' = conn /\ result' = result /\ Drained' = Drained
    BY <1>15 DEF vars, Drained
  <2> QED BY <1>0, <2>1, StillMoves, MovesStutter
<1> QED BY <1>2, <1>3, <1>4, <1>5, <1>6, <1>7, <1>8, <1>9, <1>10, <1>11, <1>12, <1>13, <1>14, <1>15,
       StepCases

LEMMA InitImplements == Init => Abstract!Init
<1> SUFFICES ASSUME Init PROVE Abstract!Init
  OBVIOUS
<1>1. Drained = [open |-> TRUE, children |-> Id]
  <2>1. sup = Fresh(0) /\ 0 \in 0..MaxFaults
    BY DistributedAssumption DEF Init
  <2> QED BY <2>1, FreshIs, DrainedIs
<1>2. Requests = <<>>
  <2>1. conn = <<>>
    BY DEF Init
  <2>2. DOMAIN Requests = {} /\ DOMAIN <<>> = {}
    BY <2>1 DEF Requests
  <2> QED BY <2>1 DEF Requests
<1>3. Outcomes = [c \in Client |-> Calls!None]
  BY OutIs DEF Init, Outcomes
<1> QED BY <1>1, <1>2, <1>3, AbstractOps
       DEF Abstract!Init, Abstract!Fresh, Requests, Req, Outcomes, Out, Failure

\* Distributed implements RemoteCalls: a remote call takes effect at most once and
\* at one instant for each of its questions, a call that returns an answer has
\* taken effect with that answer, and only failed calls are in doubt.
THEOREM RemoteCallsImplemented == Spec => ImplementsRemoteCalls
<1> QED BY Invariance, InitImplements, NextImplements, PTL DEF Spec, ImplementsRemoteCalls, Abstract!Spec

================================================================================
