------------------------------ MODULE PythonProofs ------------------------------
(***************************************************************************)
(* Safety of PythonWorkers, for every set of callers, every setup and      *)
(* every value of the bounds.                                              *)
(*                                                                         *)
(* The invariant says whom each place is owed to: the GIL and the mutex to *)
(* one thread, a place in the mailbox to one sender that waits for it, an  *)
(* answer to one thread that asked once.  The last is what lets a thread   *)
(* that is answered move: it waits for nothing else.  Of the incarnations  *)
(* it says that only the latest may have a task that has not ended, and    *)
(* that a body outlives its task only when that was aborted while it was   *)
(* being stopped.                                                          *)
(***************************************************************************)
EXTENDS PythonWorkers, SequenceTheorems, FiniteSetTheorems, TLAPS

(***************************************************************************)
(* The invariant.                                                          *)
(***************************************************************************)

Letter == [cmd : Use, by : Thread] \cup [cmd : {"report"}]

Follow == [do : {"-", "restart", "exit"}] \cup [do : {"answer"}, to : Thread]

Incarnation ==
  [task : {"start", "run", "join", "ended"}, signal : BOOLEAN, told : BOOLEAN,
   watch : BOOLEAN, entries : Nat, ended : {"-", "raised", "returned"}, aborted : BOOLEAN]

VarTypes ==
  /\ setup \in Setups
  /\ gil \in SUBSET Thread /\ lock \in SUBSET Thread
  /\ place \in [Thread -> Places]
  /\ box \in [capacity : Nat, len : Nat, waiting : Seq(Thread), granted : SUBSET Thread,
              open : BOOLEAN, handles : BOOLEAN]
  /\ run \in Seq(Incarnation) /\ Len(run) \in 1..MaxRuns
  /\ sup \in [at : {"serve", "link", "stop", "gone"}, queue : Seq(Letter), cur : 0..MaxRuns,
              next : Follow]
  /\ sup.cur <= Len(run)
  /\ uses \in 0..MaxUses /\ faults \in 0..MaxFaults

\* One thread at a time holds the GIL, and one the mutex.
Held ==
  /\ gil = {} \/ \E t \in Thread : gil = {t}
  /\ lock = {} \/ \E t \in Thread : lock = {t}
  /\ \A t \in Thread : (gil = {t} <=> place[t] = "python") /\ (lock = {t} <=> place[t] = "recv")

\* Who waits for a place waits once, and in that call.
Waits ==
  /\ IsFiniteSet(box.granted)
  /\ \A t \in box.granted : place[t] = "send"
  /\ \A i \in 1..Len(box.waiting) :
       place[box.waiting[i]] = "send" /\ box.waiting[i] \notin box.granted
  /\ \A i, j \in 1..Len(box.waiting) : box.waiting[i] = box.waiting[j] => i = j
  /\ ~box.open => box.waiting = <<>> /\ box.granted = {}
  /\ CapacityKept(box)

IsAsk(m) == m.cmd \notin {"report", "shutdown"}

\* Who waits for an answer has asked once, and nobody else is answered.
Asks ==
  /\ \A i \in 1..Len(sup.queue) : IsAsk(sup.queue[i]) => place[sup.queue[i].by] = "ask"
  /\ \A i, j \in 1..Len(sup.queue) :
       IsAsk(sup.queue[i]) /\ IsAsk(sup.queue[j]) /\ sup.queue[i].by = sup.queue[j].by => i = j
  /\ sup.next.do = "answer" =>
       /\ place[sup.next.to] = "ask"
       /\ \A i \in 1..Len(sup.queue) :
            IsAsk(sup.queue[i]) => sup.queue[i].by # sup.next.to

\* What the supervisor is doing.
Doing ==
  /\ sup.cur \in {0, Len(run)}
  /\ sup.at = "link" => sup.cur = 0 /\ sup.next.do = "answer"
  /\ sup.at = "stop" /\ sup.cur # 0 => run[sup.cur].signal
  /\ sup.at \in {"serve", "gone"} => sup.next.do = "-"
  /\ sup.next.do = "restart" => sup.at = "stop" /\ Len(run) < MaxRuns

\* A task that is not the current one has ended; a body that outlives its task
\* was asked to stop and did not do it in time.
Current(i) == i = sup.cur \/ (sup.at = "link" /\ i = Len(run))

Tended ==
  /\ \A i \in Body : i > Len(run) => place[i] = "none"
  /\ \A i \in 1..Len(run) :
       /\ run[i].task = "start" => place[i] = "none"
       /\ place[i] = "done" <=> run[i].ended # "-"
       /\ ~Current(i) => run[i].task = "ended"
       /\ run[i].task = "ended" /\ Pending(i) => run[i].aborted /\ run[i].signal
       /\ setup.callable.frames => run[i].entries <= 1

IInv == VarTypes /\ Held /\ Waits /\ Asks /\ Doing /\ Tended
(***************************************************************************)
(* Lemmas about the operators the actions are built from.                  *)
(***************************************************************************)

\* Types, and what the bounds are.
LEMMA Parts ==
  ASSUME VarTypes
  PROVE  /\ DOMAIN run = 1..Len(run) /\ Len(run) \in Nat
         /\ \A i \in 1..Len(run) : i \in Body /\ i \in Thread /\ run[i] \in Incarnation
         /\ DOMAIN sup.queue = 1..Len(sup.queue) /\ Len(sup.queue) \in Nat
         /\ \A i \in 1..Len(sup.queue) : sup.queue[i] \in Letter
         /\ Body \subseteq Thread /\ Caller \subseteq Thread
         /\ \A t \in Caller : t \notin Body
         /\ DOMAIN box.waiting = 1..Len(box.waiting) /\ Len(box.waiting) \in Nat
         /\ \A i \in 1..Len(box.waiting) : box.waiting[i] \in Thread
<1>1. Len(run) \in Nat /\ DOMAIN run = 1..Len(run)
  BY LenProperties DEF VarTypes
<1>2. \A i \in 1..Len(run) : run[i] \in Incarnation
  BY <1>1, ElementOfSeq DEF VarTypes
<1>3. /\ sup.queue \in Seq(Letter) /\ box.waiting \in Seq(Thread)
  BY DEF VarTypes
<1>4. /\ DOMAIN sup.queue = 1..Len(sup.queue) /\ Len(sup.queue) \in Nat
      /\ DOMAIN box.waiting = 1..Len(box.waiting) /\ Len(box.waiting) \in Nat
  BY <1>3, LenProperties
<1>5. /\ \A i \in 1..Len(sup.queue) : sup.queue[i] \in Letter
      /\ \A i \in 1..Len(box.waiting) : box.waiting[i] \in Thread
  BY <1>3, <1>4, ElementOfSeq
<1>6. MaxRuns \in Nat /\ Caller \cap (1..MaxRuns) = {}
  BY PythonAssumption
<1>7. \A i \in 1..Len(run) : i \in Body
  BY <1>1, <1>6 DEF VarTypes, Body
<1> QED BY <1>1, <1>2, <1>4, <1>5, <1>6, <1>7 DEF Body, Thread

\* The first letter, and the others.
LEMMA FirstLetter ==
  ASSUME VarTypes, sup.queue # <<>>
  PROVE  /\ 1 \in 1..Len(sup.queue) /\ Head(sup.queue) = sup.queue[1]
         /\ Head(sup.queue) \in Letter
         /\ Tail(sup.queue) \in Seq(Letter) /\ Len(Tail(sup.queue)) = Len(sup.queue) - 1
         /\ \A i \in 1..Len(Tail(sup.queue)) :
              i + 1 \in 1..Len(sup.queue) /\ Tail(sup.queue)[i] = sup.queue[i + 1]
<1>1. sup.queue \in Seq(Letter)
  BY DEF VarTypes
<1>2. Len(sup.queue) \in Nat /\ Len(sup.queue) # 0
  BY <1>1, EmptySeq, LenProperties
<1>3. Head(sup.queue) = sup.queue[1] /\ Head(sup.queue) \in Letter
  BY <1>1, HeadTailProperties
<1>4. /\ Tail(sup.queue) \in Seq(Letter) /\ Len(Tail(sup.queue)) = Len(sup.queue) - 1
      /\ \A i \in 1..Len(Tail(sup.queue)) : Tail(sup.queue)[i] = sup.queue[i + 1]
  BY <1>1, HeadTailProperties
<1> QED BY <1>2, <1>3, <1>4

\* An ask comes from a thread.
LEMMA AskBy ==
  ASSUME NEW m \in Letter, m.cmd # "report"
  PROVE  m.by \in Thread
BY DEF Letter
(***************************************************************************)
(* Types.                                                                  *)
(***************************************************************************)

\* A mailbox, and what its operators make of one.
Boxes == [capacity : Nat, len : Nat, waiting : Seq(Thread), granted : SUBSET Thread,
          open : BOOLEAN, handles : BOOLEAN]

\* The operators of Mailbox keep to the type.
LEMMA BoxTypes ==
  ASSUME NEW b \in Boxes, NEW t \in Thread
  PROVE  /\ SendTo(b, t) \in Boxes /\ TrySendTo(b) \in Boxes /\ Put(b, t) \in Boxes
         /\ CloseReceiver(b) \in Boxes
         /\ b.len > 0 => TakenFrom(b) \in Boxes
         /\ [b EXCEPT !.handles = FALSE] \in Boxes
<1>1. /\ b.capacity \in Nat /\ b.len \in Nat /\ b.waiting \in Seq(Thread)
      /\ b.granted \in SUBSET Thread /\ b.open \in BOOLEAN /\ b.handles \in BOOLEAN
      /\ b = [capacity |-> b.capacity, len |-> b.len, waiting |-> b.waiting,
              granted |-> b.granted, open |-> b.open, handles |-> b.handles]
  BY DEF Boxes
<1>2. [b EXCEPT !.len = @ + 1] \in Boxes
  BY <1>1 DEF Boxes
<1>3. Append(b.waiting, t) \in Seq(Thread)
  BY <1>1, AppendProperties
<1>4. [b EXCEPT !.waiting = Append(@, t)] \in Boxes
  BY <1>1, <1>3 DEF Boxes
<1>5. SendTo(b, t) \in Boxes /\ TrySendTo(b) \in Boxes
  BY <1>2, <1>4 DEF SendTo, TrySendTo
<1>6. Put(b, t) \in Boxes
  <2>1. b.len + 1 \in Nat /\ b.granted \ {t} \in SUBSET Thread
    BY <1>1
  <2> QED BY <1>1, <2>1 DEF Put, Boxes
<1>7. CloseReceiver(b) \in Boxes /\ [b EXCEPT !.handles = FALSE] \in Boxes
  BY <1>1, EmptySeq DEF CloseReceiver, Boxes
<1>8. ASSUME b.len > 0 PROVE TakenFrom(b) \in Boxes
  <2>1. b.len - 1 \in Nat
    BY <1>1, <1>8
  <2>2. CASE b.waiting = <<>>
    BY <1>1, <2>1, <2>2 DEF TakenFrom, Boxes
  <2>3. CASE b.waiting # <<>>
    <3>1. Head(b.waiting) \in Thread /\ Tail(b.waiting) \in Seq(Thread)
      BY <1>1, <2>3, HeadTailProperties
    <3>2. b.granted \cup {Head(b.waiting)} \in SUBSET Thread
      BY <1>1, <3>1
    <3> QED BY <1>1, <2>1, <2>3, <3>1, <3>2 DEF TakenFrom, Boxes
  <2> QED BY <2>2, <2>3
<1> QED BY <1>5, <1>6, <1>7, <1>8

Supervisors == [at : {"serve", "link", "stop", "gone"}, queue : Seq(Letter), cur : 0..MaxRuns,
                next : Follow]

\* An incarnation changed in place.
LEMMA RunEdited ==
  ASSUME VarTypes, NEW i \in 1..Len(run), NEW r \in Incarnation, run' = [run EXCEPT ![i] = r]
  PROVE  /\ run' \in Seq(Incarnation) /\ Len(run') = Len(run)
         /\ run'[i] = r /\ \A j \in 1..Len(run) : j # i => run'[j] = run[j]
<1>1. run \in Seq(Incarnation)
  BY DEF VarTypes
<1>2. run' \in Seq(Incarnation) /\ Len(run') = Len(run)
  BY <1>1, ExceptSeq
<1> QED BY <1>1, <1>2

\* An incarnation started.
LEMMA RunAdded ==
  ASSUME VarTypes, run' = Append(run, NewRun)
  PROVE  /\ run' \in Seq(Incarnation) /\ Len(run') = Len(run) + 1
         /\ run'[Len(run) + 1] = NewRun /\ \A j \in 1..Len(run) : run'[j] = run[j]
<1>1. run \in Seq(Incarnation)
  BY DEF VarTypes
<1>2. NewRun \in Incarnation
  BY DEF NewRun, Incarnation
<1> QED BY <1>1, <1>2, AppendProperties
\* A place taken by a thread.
LEMMA PlaceTyped ==
  ASSUME VarTypes, NEW t \in Thread, NEW p \in Places, place' = [place EXCEPT ![t] = p]
  PROVE  /\ place' \in [Thread -> Places]
         /\ place'[t] = p /\ \A u \in Thread \ {t} : place'[u] = place[u]
BY DEF VarTypes

\* What is left alone keeps its type.
LEMMA TypesKept ==
  ASSUME VarTypes, UNCHANGED setup,
         gil' \in SUBSET Thread, lock' \in SUBSET Thread, place' \in [Thread -> Places],
         box' \in Boxes, run' \in Seq(Incarnation), Len(run') \in 1..MaxRuns,
         sup' \in Supervisors, sup'.cur <= Len(run'),
         uses' \in 0..MaxUses, faults' \in 0..MaxFaults
  PROVE  VarTypes'
BY DEF VarTypes, Boxes, Supervisors

\* The bounds: a call and a fault are counted.
LEMMA Counted ==
  ASSUME VarTypes
  PROVE  /\ \A c : Uses(c) => uses' \in 0..MaxUses
         /\ Fault => faults' \in 0..MaxFaults /\ uses' = uses
         /\ faults < setup.faults => faults + 1 \in 0..MaxFaults
<1>1. setup \in Setup /\ MaxUses \in Nat /\ MaxFaults \in Nat
  <2>1. setup \in Setups
    BY DEF VarTypes
  <2> QED BY <2>1, PythonAssumption
<1>2. setup.uses \in 0..MaxUses /\ setup.faults \in 0..MaxFaults
  BY <1>1 DEF Setup
<1>3. uses \in 0..MaxUses /\ faults \in 0..MaxFaults
  BY DEF VarTypes
<1>4. \A c : Uses(c) => uses < setup.uses /\ uses' = uses + 1
  BY DEF Uses
<1>5. uses < setup.uses => uses + 1 \in 0..MaxUses
  BY <1>1, <1>2, <1>3
<1>6. \A c : Uses(c) => uses' \in 0..MaxUses
  BY <1>4, <1>5
<1>7. faults < setup.faults => faults + 1 \in 0..MaxFaults
  BY <1>1, <1>2, <1>3
<1>8. Fault => faults' \in 0..MaxFaults /\ uses' = uses
  BY <1>7 DEF Fault
<1> QED BY <1>6, <1>7, <1>8

\* The types before a step, as TypesKept wants them.
LEMMA TypesNow ==
  ASSUME VarTypes
  PROVE  /\ box \in Boxes /\ sup \in Supervisors
         /\ Len(run) \in Nat /\ sup.cur \in Nat /\ MaxRuns \in Nat \ {0}
BY PythonAssumption, LenProperties DEF VarTypes, Boxes, Supervisors

\* The GIL.
LEMMA TypesGil ==
  ASSUME VarTypes, NEW t \in Thread, Attach(t) \/ Yield(t)
  PROVE  VarTypes'
<1>1. place' \in [Thread -> Places] /\ gil' \in SUBSET Thread
  BY PlaceTyped DEF Attach, Yield, Places
<1> QED BY <1>1, TypesNow, TypesKept DEF Attach, Yield, bounds, VarTypes

\* Mailbox calls.
LEMMA TypesMailbox ==
  ASSUME VarTypes,
         \/ DropHandles \/ DropMailbox
         \/ \E t \in Thread : \/ Send(t) \/ TrySend(t) \/ SendGoesOn(t)
                              \/ Receive(t) \/ Lock(t) \/ Received(t)
  PROVE  VarTypes'
<1>1. ASSUME NEW t \in Thread, Send(t) PROVE VarTypes'
  <2>1. place' \in [Thread -> Places] /\ gil' \in SUBSET Thread
    BY <1>1, PlaceTyped DEF Send, Detached, Places
  <2>2. box' \in Boxes
    BY <1>1, TypesNow, BoxTypes DEF Send
  <2> QED BY <1>1, <2>1, <2>2, TypesNow, TypesKept, Counted DEF Send, VarTypes
<1>2. ASSUME NEW t \in Thread, TrySend(t) PROVE VarTypes'
  <2>1. box' \in Boxes
    BY <1>2, TypesNow, BoxTypes DEF TrySend
  <2> QED BY <1>2, <2>1, TypesNow, TypesKept, Counted DEF TrySend, VarTypes
<1>3. ASSUME NEW t \in Thread, SendGoesOn(t) PROVE VarTypes'
  <2>1. place' \in [Thread -> Places]
    BY <1>3, PlaceTyped DEF SendGoesOn, Returns, Places
  <2>2. box' \in Boxes
    BY <1>3, TypesNow, BoxTypes DEF SendGoesOn
  <2> QED BY <1>3, <2>1, <2>2, TypesNow, TypesKept DEF SendGoesOn, bounds, VarTypes
<1>4. ASSUME NEW t \in Thread, Receive(t) PROVE VarTypes'
  <2>1. place' \in [Thread -> Places] /\ gil' \in SUBSET Thread
    BY <1>4, PlaceTyped DEF Receive, Detached, Places
  <2> QED BY <1>4, <2>1, TypesNow, TypesKept DEF Receive, bounds, VarTypes
<1>5. ASSUME NEW t \in Thread, Lock(t) PROVE VarTypes'
  <2>1. place' \in [Thread -> Places] /\ lock' \in SUBSET Thread
    BY <1>5, PlaceTyped DEF Lock, Returns, Places, VarTypes
  <2>2. box' \in Boxes
    BY <1>5, TypesNow, BoxTypes DEF Lock
  <2> QED BY <1>5, <2>1, <2>2, TypesNow, TypesKept DEF Lock, bounds, VarTypes
<1>6. ASSUME NEW t \in Thread, Received(t) PROVE VarTypes'
  <2>1. place' \in [Thread -> Places] /\ lock' \in SUBSET Thread
    BY <1>6, PlaceTyped DEF Received, Returns, Places
  <2>2. box' \in Boxes
    BY <1>6, TypesNow, BoxTypes DEF Received
  <2> QED BY <1>6, <2>1, <2>2, TypesNow, TypesKept DEF Received, bounds, VarTypes
<1>7. ASSUME DropHandles \/ DropMailbox PROVE VarTypes'
  <2>1. box' \in Boxes
    <3>1. box \in Boxes
      BY TypesNow
    <3>2. [box EXCEPT !.handles = FALSE] \in Boxes
      BY <3>1 DEF Boxes
    <3>3. CloseReceiver(box) \in Boxes
      BY <3>1, EmptySeq DEF Boxes, CloseReceiver
    <3> QED BY <1>7, <3>2, <3>3 DEF DropHandles, DropMailbox
  <2> QED BY <1>7, <2>1, TypesNow, TypesKept, Counted DEF DropHandles, DropMailbox, VarTypes
<1> QED BY <1>1, <1>2, <1>3, <1>4, <1>5, <1>6, <1>7
\* A command sent to the supervisor.
LEMMA TypesAsk ==
  ASSUME VarTypes, NEW t \in Thread, NEW cmd \in Use \ {"send", "try_send"}, AskSupervisor(t, cmd)
  PROVE  VarTypes'
<1>1. place' \in [Thread -> Places] /\ gil' \in SUBSET Thread
  BY PlaceTyped DEF AskSupervisor, Detached, Places
<1>2. sup' \in Supervisors /\ sup'.cur = sup.cur
  <2>1. [cmd |-> cmd, by |-> t] \in Letter /\ sup \in Supervisors
    BY TypesNow DEF Letter
  <2>2. Append(sup.queue, [cmd |-> cmd, by |-> t]) \in Seq(Letter)
    BY <2>1, AppendProperties DEF Supervisors
  <2> QED BY <2>1, <2>2 DEF AskSupervisor, Supervisors
<1> QED BY <1>1, <1>2, TypesNow, TypesKept, Counted DEF AskSupervisor, VarTypes

\* What a step makes of the incarnation it is about.
LEMMA TaskWrites ==
  ASSUME VarTypes, NEW i \in 1..Len(run),
         \/ Tasks(i) \/ EnterBody(i) \/ BodyObeys(i) \/ BodyReturns(i) \/ BodyRaises(i)
  PROVE  UNCHANGED run \/ \E r \in Incarnation : run' = [run EXCEPT ![i] = r]
<1>1. run[i] \in Incarnation
  BY Parts
<1>2. CASE RunPolled(i)
  <2>1. [run[i] EXCEPT !.task = "run", !.watch = TRUE] \in Incarnation
    BY <1>1 DEF Incarnation
  <2>2. run' = [run EXCEPT ![i] = [run[i] EXCEPT !.task = "run", !.watch = TRUE]]
    BY <1>2 DEF RunPolled
  <2> QED BY <2>1, <2>2
<1>3. CASE StoppedUnpolled(i) \/ Joined(i)
  <2>1. [run[i] EXCEPT !.task = "ended"] \in Incarnation
    BY <1>1 DEF Incarnation
  <2>2. run' = [run EXCEPT ![i] = [run[i] EXCEPT !.task = "ended"]]
    BY <1>3 DEF StoppedUnpolled, Joined
  <2> QED BY <2>1, <2>2
<1>4. CASE RunReturns(i)
  <2>1. [run[i] EXCEPT !.task = "ended", !.watch = FALSE] \in Incarnation
    BY <1>1 DEF Incarnation
  <2>2. run' = [run EXCEPT ![i] = [run[i] EXCEPT !.task = "ended", !.watch = FALSE]]
    BY <1>4 DEF RunReturns
  <2> QED BY <2>1, <2>2
<1>5. CASE ShutdownSeen(i)
  <2>1. [run[i] EXCEPT !.task = "join", !.told = TRUE] \in Incarnation
    BY <1>1 DEF Incarnation
  <2>2. run' = [run EXCEPT ![i] = [run[i] EXCEPT !.task = "join", !.told = TRUE]]
    BY <1>5 DEF ShutdownSeen
  <2> QED BY <2>1, <2>2
<1>6. CASE WatcherTells(i)
  <2>1. [run[i] EXCEPT !.told = TRUE, !.watch = FALSE] \in Incarnation
    BY <1>1 DEF Incarnation
  <2>2. run' = [run EXCEPT ![i] = [run[i] EXCEPT !.told = TRUE, !.watch = FALSE]]
    BY <1>6 DEF WatcherTells
  <2> QED BY <2>1, <2>2
<1>7. ASSUME NEW how \in {"raised", "returned"}, BodyEnds(i, how)
      PROVE  \E r \in Incarnation : run' = [run EXCEPT ![i] = r]
  <2>1. [run[i] EXCEPT !.ended = how] \in Incarnation
    BY <1>1 DEF Incarnation
  <2>2. run' = [run EXCEPT ![i] = [run[i] EXCEPT !.ended = how]]
    BY <1>7 DEF BodyEnds
  <2> QED BY <2>1, <2>2
<1>8. ASSUME NEW n \in Nat, run' = [run EXCEPT ![i].entries = n]
      PROVE  \E r \in Incarnation : run' = [run EXCEPT ![i] = r]
  <2>1. [run[i] EXCEPT !.entries = n] \in Incarnation
    BY <1>1 DEF Incarnation
  <2>2. run' = [run EXCEPT ![i] = [run[i] EXCEPT !.entries = n]]
    BY <1>8
  <2> QED BY <2>1, <2>2
<1>9. CASE EnterBody(i)
  BY <1>7, <1>8, <1>9 DEF EnterBody
<1>10. CASE BodyObeys(i) \/ BodyReturns(i)
  BY <1>7, <1>10 DEF BodyObeys, BodyReturns
<1>11. CASE BodyRaises(i)
  <2>1. run[i].entries + 1 \in Nat
    BY <1>1 DEF Incarnation
  <2> QED BY <1>7, <1>8, <1>11, <2>1 DEF BodyRaises
<1> QED BY <1>2, <1>3, <1>4, <1>5, <1>6, <1>9, <1>10, <1>11 DEF Tasks, BodyStarts

\* The task of a worker, and its body.
LEMMA TypesTask ==
  ASSUME VarTypes, NEW i \in 1..Len(run),
         \/ Tasks(i) \/ EnterBody(i) \/ BodyObeys(i) \/ BodyReturns(i) \/ BodyRaises(i)
  PROVE  VarTypes'
<1>1. i \in Body /\ i \in Thread /\ run[i] \in Incarnation /\ run \in Seq(Incarnation)
  BY Parts DEF VarTypes
<1>2. run' \in Seq(Incarnation) /\ Len(run') = Len(run)
  <2>1. CASE UNCHANGED run
    BY <1>1, <2>1
  <2>2. ASSUME NEW r \in Incarnation, run' = [run EXCEPT ![i] = r]
        PROVE  run' \in Seq(Incarnation) /\ Len(run') = Len(run)
    BY <2>2, RunEdited
  <2> QED BY <2>1, <2>2, TaskWrites
<1>3. place' \in [Thread -> Places] /\ gil' \in SUBSET Thread
  <2>1. CASE UNCHANGED <<place, gil>>
    BY <2>1 DEF VarTypes
  <2>2. CASE \E p \in {"queued", "attach"} : place' = [place EXCEPT ![i] = p] /\ UNCHANGED gil
    BY <1>1, <2>2, PlaceTyped DEF Places, VarTypes
  <2>3. CASE \E how \in {"raised", "returned"} : BodyEnds(i, how)
    BY <1>1, <2>3, PlaceTyped DEF Places, BodyEnds
  <2> QED BY <2>1, <2>2, <2>3 DEF Tasks, RunPolled, StoppedUnpolled, RunReturns, ShutdownSeen,
          Joined, WatcherTells, BodyStarts, EnterBody, BodyObeys, BodyReturns, BodyRaises
<1>4. sup' \in Supervisors /\ sup'.cur = sup.cur
  <2>1. [cmd |-> "report"] \in Letter /\ sup \in Supervisors
    BY TypesNow DEF Letter
  <2>2. Append(sup.queue, [cmd |-> "report"]) \in Seq(Letter)
    BY <2>1, AppendProperties DEF Supervisors
  <2>3. CASE UNCHANGED sup
    BY <2>1, <2>3
  <2>4. CASE RunReturns(i)
    BY <2>1, <2>2, <2>4 DEF RunReturns, Supervisors
  <2> QED BY <2>3, <2>4 DEF Tasks, RunPolled, StoppedUnpolled, ShutdownSeen,
          Joined, WatcherTells, BodyStarts, EnterBody, BodyObeys, BodyReturns, BodyRaises
<1>5. faults' \in 0..MaxFaults /\ uses' \in 0..MaxUses /\ UNCHANGED <<setup, lock, box>>
  BY Counted DEF Tasks, RunPolled, StoppedUnpolled, RunReturns, ShutdownSeen, bounds, VarTypes,
     Joined, WatcherTells, BodyStarts, EnterBody, BodyObeys, BodyReturns, BodyRaises
<1> QED BY <1>2, <1>3, <1>4, <1>5, TypesNow, TypesKept DEF VarTypes
\* Another incarnation listed.
LEMMA CurSet ==
  ASSUME NEW s \in Supervisors, NEW c \in 0..MaxRuns
  PROVE  /\ [s EXCEPT !.cur = c] \in Supervisors
         /\ [s EXCEPT !.cur = c].cur = c /\ [s EXCEPT !.cur = c].at = s.at
         /\ [s EXCEPT !.cur = c].next = s.next /\ [s EXCEPT !.cur = c].queue = s.queue
BY DEF Supervisors

\* What may follow when an incarnation has stopped.
LEMMA FollowTypes ==
  /\ [do |-> "-"] \in Follow /\ [do |-> "restart"] \in Follow /\ [do |-> "exit"] \in Follow
  /\ \A t \in Thread : [do |-> "answer", to |-> t] \in Follow
  /\ \A f \in Follow : f.do = "answer" => f.to \in Thread
BY DEF Follow

\* Serving: the first letter is taken.
LEMMA RestTypes ==
  ASSUME VarTypes, NEW cmd, Serves(cmd)
  PROVE  /\ Rest \in Supervisors /\ Rest.at = "serve" /\ Rest.next = sup.next
         /\ Rest.queue = Tail(sup.queue) /\ Rest.cur = sup.cur
         /\ cmd # "report" => Head(sup.queue).by \in Thread
<1>1. Head(sup.queue) \in Letter /\ Tail(sup.queue) \in Seq(Letter)
  BY FirstLetter DEF Serves
<1>2. cmd # "report" => Head(sup.queue).by \in Thread
  BY <1>1, AskBy DEF Serves
<1>3. sup \in Supervisors
  BY TypesNow
<1> QED BY <1>1, <1>2, <1>3 DEF Serves, Rest, Supervisors

\* Serving again.
LEMMA ResumedTypes ==
  ASSUME VarTypes
  PROVE  /\ Resumed \in Supervisors /\ Resumed.at = "serve" /\ Resumed.next = [do |-> "-"]
         /\ Resumed.queue = sup.queue /\ Resumed.cur = sup.cur
BY TypesNow, FollowTypes DEF Resumed, Supervisors

\* Telling the current incarnation to stop.
LEMMA StopTypes ==
  ASSUME VarTypes, sup.cur # 0, NEW s \in Supervisors, s.cur = sup.cur, NEW n \in Follow, Stop(s, n)
  PROVE  /\ sup' \in Supervisors /\ sup'.at = "stop" /\ sup'.next = n
         /\ sup'.queue = s.queue /\ sup'.cur = sup.cur
         /\ sup.cur \in 1..Len(run)
         /\ [run[sup.cur] EXCEPT !.signal = TRUE] \in Incarnation
         /\ run' = [run EXCEPT ![sup.cur] = [run[sup.cur] EXCEPT !.signal = TRUE]]
         /\ run' \in Seq(Incarnation) /\ Len(run') = Len(run)
<1>1. sup.cur \in 1..Len(run)
  BY LenProperties DEF VarTypes
<1>2. run[sup.cur] \in Incarnation
  BY <1>1, Parts
<1>3. [run[sup.cur] EXCEPT !.signal = TRUE] \in Incarnation
  BY <1>2 DEF Incarnation
<1>4. run' = [run EXCEPT ![sup.cur] = [run[sup.cur] EXCEPT !.signal = TRUE]]
  BY DEF Stop
<1>5. run' \in Seq(Incarnation) /\ Len(run') = Len(run)
  BY <1>1, <1>3, <1>4, RunEdited
<1>6. /\ sup' \in Supervisors /\ sup'.at = "stop" /\ sup'.next = n
      /\ sup'.queue = s.queue /\ sup'.cur = sup.cur
  BY DEF Stop, Supervisors
<1> QED BY <1>1, <1>3, <1>4, <1>5, <1>6
\* What the supervisor does.
LEMMA TypesSupervises ==
  ASSUME VarTypes, Doing, Supervises \/ SiblingFails
  PROVE  VarTypes'
<1>1. /\ box \in Boxes /\ sup \in Supervisors /\ Len(run) \in 1..MaxRuns
      /\ sup.cur \in Nat /\ MaxRuns \in Nat \ {0} /\ sup.cur <= Len(run)
      /\ run \in Seq(Incarnation) /\ place \in [Thread -> Places]
  BY TypesNow DEF VarTypes
<1>2. ASSUME NEW t \in Thread, Returns(t)
      PROVE  place' \in [Thread -> Places]
  BY <1>2, PlaceTyped DEF Returns, Places
<1>3. ASSUME UNCHANGED <<setup, gil, lock, box>>, place' \in [Thread -> Places],
             run' \in Seq(Incarnation), Len(run') \in 1..MaxRuns, sup' \in Supervisors,
             sup'.cur <= Len(run'), uses' \in 0..MaxUses, faults' \in 0..MaxFaults
      PROVE  VarTypes'
  BY <1>1, <1>3, TypesKept DEF VarTypes
<1>4. ASSUME run' = Append(run, NewRun)
      PROVE  run' \in Seq(Incarnation) /\ Len(run') = Len(run) + 1
  BY <1>4, RunAdded
<1>5. CASE ServeQuery
  BY <1>1, <1>2, <1>3, <1>5, RestTypes DEF ServeQuery, bounds, VarTypes
<1>6. CASE ServeStart
  <2> DEFINE t == Head(sup.queue).by
  <2>1. /\ t \in Thread
        /\ Rest \in Supervisors /\ Rest.at = "serve" /\ Rest.cur = sup.cur
    BY <1>6, RestTypes DEF ServeStart
  <2>2. [do |-> "answer", to |-> t] \in Follow
    BY <2>1, FollowTypes
  <2>3. /\ [Rest EXCEPT !.at = "link", !.next = [do |-> "answer", to |-> t]] \in Supervisors
        /\ [Rest EXCEPT !.at = "link", !.next = [do |-> "answer", to |-> t]].cur = sup.cur
    BY <2>1, <2>2 DEF Supervisors
  <2>4. sup.cur = 0 => /\ [Rest EXCEPT !.cur = Len(run) + 1] \in Supervisors
                       /\ [Rest EXCEPT !.cur = Len(run) + 1].cur = Len(run) + 1
    <3>1. sup.cur = 0 => Len(run) + 1 \in 0..MaxRuns
      BY <1>1, <1>6 DEF ServeStart
    <3> QED BY <2>1, <3>1, CurSet
  <2>5. CASE sup.cur # 0
    BY <1>1, <1>2, <1>3, <1>6, <2>1, <2>5 DEF ServeStart, bounds, VarTypes
  <2>6. CASE sup.cur = 0
    <3>1. run' = Append(run, NewRun) /\ Len(run) + 1 \in 1..MaxRuns
      BY <1>1, <1>6, <2>6 DEF ServeStart
    <3>2. place' \in [Thread -> Places]
      BY <1>1, <1>2, <1>6, <2>1, <2>6 DEF ServeStart
    <3>3. sup' \in Supervisors /\ sup'.cur <= Len(run) + 1
      <4>1. \/ sup' = [Rest EXCEPT !.cur = Len(run) + 1]
            \/ sup' = [Rest EXCEPT !.at = "link", !.next = [do |-> "answer", to |-> t]]
        BY <1>6, <2>6 DEF ServeStart
      <4>2. CASE sup' = [Rest EXCEPT !.cur = Len(run) + 1]
        <5>1. sup' \in Supervisors /\ sup'.cur = Len(run) + 1
          BY <2>4, <2>6, <4>2
        <5> QED BY <1>1, <5>1
      <4>3. CASE sup' = [Rest EXCEPT !.at = "link", !.next = [do |-> "answer", to |-> t]]
        <5>1. sup' \in Supervisors /\ sup'.cur = 0
          BY <2>1, <2>3, <2>6, <4>3
        <5> QED BY <1>1, <5>1
      <4> QED BY <4>1, <4>2, <4>3
    <3> QED BY <1>3, <1>4, <1>6, <3>1, <3>2, <3>3 DEF ServeStart, bounds, VarTypes
  <2> QED BY <2>5, <2>6
<1>7. CASE LinkOk
  <2>1. sup.next \in Follow
    BY <1>1 DEF Supervisors
  <2>2. [Resumed EXCEPT !.cur = Len(run)] \in Supervisors /\ [Resumed EXCEPT !.cur = Len(run)].cur = Len(run)
    BY <1>1, ResumedTypes, CurSet
  <2>3. place' \in [Thread -> Places]
    BY <1>1, <1>7 DEF LinkOk, Returns, Places
  <2> QED BY <1>1, <1>3, <1>7, <2>2, <2>3 DEF LinkOk, bounds, VarTypes
<1>8. CASE LinkTimesOut
  <2>1. PICK begun \in BOOLEAN :
          /\ run' = [run EXCEPT ![Len(run)] = [@ EXCEPT !.task = "ended", !.signal = TRUE,
                                             !.aborted = TRUE, !.watch = begun]]
          /\ place' = [place EXCEPT ![sup.next.to] = "attach",
                                    ![Len(run)] = IF begun THEN "queued" ELSE @]
    BY <1>8 DEF LinkTimesOut
  <2>2. Len(run) \in 1..Len(run) /\ run[Len(run)] \in Incarnation
    BY <1>1, Parts
  <2>3. [run[Len(run)] EXCEPT !.task = "ended", !.signal = TRUE, !.aborted = TRUE, !.watch = begun]
          \in Incarnation
    BY <2>2 DEF Incarnation
  <2>4. run' \in Seq(Incarnation) /\ Len(run') = Len(run)
    BY <2>1, <2>2, <2>3, RunEdited
  <2>5. place' \in [Thread -> Places]
    BY <1>1, <2>1 DEF Places
  <2>6. sup' \in Supervisors /\ sup'.cur = sup.cur
    BY <1>8, ResumedTypes DEF LinkTimesOut
  <2> QED BY <1>1, <1>3, <1>8, <2>4, <2>5, <2>6 DEF LinkTimesOut, bounds, VarTypes
<1>9. ASSUME Serves("terminate_child"), sup.cur # 0,
             Stop(Rest, [do |-> "answer", to |-> Head(sup.queue).by])
      PROVE  sup' \in Supervisors /\ sup'.cur = sup.cur /\ run' \in Seq(Incarnation) /\ Len(run') = Len(run)
  <2>1. Rest \in Supervisors /\ Rest.cur = sup.cur /\ Head(sup.queue).by \in Thread
    BY <1>9, RestTypes
  <2>2. [do |-> "answer", to |-> Head(sup.queue).by] \in Follow
    BY <2>1, FollowTypes
  <2> QED BY <1>9, <2>1, <2>2, StopTypes
<1>10. CASE ServeTerminate
  <2>1. Serves("terminate_child") /\ UNCHANGED <<setup, gil, lock, box, uses, faults>>
    BY <1>10 DEF ServeTerminate, bounds
  <2>2. Rest \in Supervisors /\ Rest.cur = sup.cur /\ Head(sup.queue).by \in Thread
    BY <2>1, RestTypes
  <2>3. CASE sup.cur = 0
    BY <1>1, <1>2, <1>3, <1>10, <2>1, <2>2, <2>3 DEF ServeTerminate, VarTypes
  <2>4. CASE sup.cur # 0
    BY <1>1, <1>3, <1>9, <1>10, <2>1, <2>4 DEF ServeTerminate, VarTypes
  <2> QED BY <2>3, <2>4
<1>11. ASSUME NEW s \in Supervisors, s.cur = sup.cur, sup.cur # 0,
              NEW f \in {"exit", "restart"}, Stop(s, [do |-> f])
       PROVE  sup' \in Supervisors /\ sup'.cur = sup.cur /\ run' \in Seq(Incarnation) /\ Len(run') = Len(run)
  <2>1. [do |-> f] \in Follow
    BY DEF Follow
  <2> QED BY <1>11, <2>1, StopTypes
<1>12. CASE ServeShutdown
  <2>1. Rest \in Supervisors /\ Rest.cur = sup.cur
    BY <1>12, RestTypes DEF ServeShutdown
  <2>2. [Rest EXCEPT !.at = "stop", !.next = [do |-> "exit"]] \in Supervisors
        /\ [Rest EXCEPT !.at = "stop", !.next = [do |-> "exit"]].cur = sup.cur
    BY <2>1, FollowTypes DEF Supervisors
  <2> QED BY <1>1, <1>3, <1>11, <1>12, <2>1, <2>2 DEF ServeShutdown, bounds, VarTypes
<1>13. CASE ServeReport
  <2>1. Rest \in Supervisors /\ Rest.cur = sup.cur
    BY <1>13, RestTypes DEF ServeReport
  <2> QED BY <1>1, <1>3, <1>11, <1>13, <2>1 DEF ServeReport, bounds, VarTypes
<1>14. CASE SiblingFails
  BY <1>1, <1>3, <1>11, <1>14, Counted DEF SiblingFails, VarTypes
<1>15. CASE StopTimesOut
  <2>1. sup.cur \in 1..Len(run) /\ run[sup.cur] \in Incarnation
    BY <1>1, <1>15, Parts DEF StopTimesOut
  <2>2. [run[sup.cur] EXCEPT !.task = "ended", !.aborted = TRUE] \in Incarnation
    BY <2>1 DEF Incarnation
  <2>3. run' = [run EXCEPT ![sup.cur] = [run[sup.cur] EXCEPT !.task = "ended", !.aborted = TRUE]]
    BY <1>15 DEF StopTimesOut
  <2>4. run' \in Seq(Incarnation) /\ Len(run') = Len(run)
    BY <2>1, <2>2, <2>3, RunEdited
  <2> QED BY <1>1, <1>3, <1>15, <2>4 DEF StopTimesOut, bounds, VarTypes
<1>16. CASE AnswerTerminate
  <2>1. [Resumed EXCEPT !.cur = 0] \in Supervisors /\ [Resumed EXCEPT !.cur = 0].cur = 0
    BY <1>1, ResumedTypes, CurSet
  <2>2. sup.next.to \in Thread
    BY <1>1, <1>16, FollowTypes DEF AnswerTerminate, Supervisors
  <2> QED BY <1>1, <1>2, <1>3, <1>16, <2>1, <2>2 DEF AnswerTerminate, bounds, VarTypes
<1>17. CASE Respawn
  <2>1. [Resumed EXCEPT !.cur = Len(run) + 1] \in Supervisors
        /\ [Resumed EXCEPT !.cur = Len(run) + 1].cur = Len(run) + 1
    <3>1. Len(run) + 1 \in 0..MaxRuns
      BY <1>1, <1>17 DEF Doing, Respawn
    <3> QED BY <3>1, ResumedTypes, CurSet
  <2> QED BY <1>1, <1>3, <1>4, <1>17, <2>1 DEF Doing, Respawn, bounds, VarTypes
<1>18. CASE SupervisorReturns
  <2>1. sup' \in Supervisors /\ sup'.cur = 0
    BY <1>1, <1>18, FollowTypes, EmptySeq DEF SupervisorReturns, Supervisors
  <2>2. place' \in [Thread -> Places]
    BY <1>1, <1>18 DEF SupervisorReturns, Places
  <2> QED BY <1>1, <1>3, <1>18, <2>1, <2>2 DEF SupervisorReturns, bounds, VarTypes
<1> QED BY <1>5, <1>6, <1>7, <1>8, <1>10, <1>12, <1>13, <1>14, <1>15, <1>16, <1>17, <1>18
        DEF Supervises
(***************************************************************************)
(* The GIL and the mutex.                                                  *)
(***************************************************************************)

\* Nobody gets or gives up the one or the other.
LEMMA HeldQuiet ==
  ASSUME VarTypes, Held, UNCHANGED <<gil, lock>>,
         \A t \in Thread : /\ place'[t] = "python" <=> place[t] = "python"
                           /\ place'[t] = "recv" <=> place[t] = "recv"
  PROVE  Held'
BY DEF Held

\* A thread moves, and with it the GIL or the mutex.
LEMMA HeldMoves ==
  ASSUME VarTypes, Held, NEW t \in Thread, NEW p \in Places, place' = [place EXCEPT ![t] = p],
         \/ /\ place[t] \notin {"python", "recv"} /\ p \notin {"python", "recv"}
            /\ UNCHANGED <<gil, lock>>
         \/ place[t] = "python" /\ p \notin {"python", "recv"} /\ gil' = {} /\ UNCHANGED lock
         \/ place[t] = "recv" /\ p \notin {"python", "recv"} /\ lock' = {} /\ UNCHANGED gil
         \/ /\ place[t] \notin {"python", "recv"} /\ p = "python"
            /\ gil = {} /\ gil' = {t} /\ UNCHANGED lock
         \/ /\ place[t] \notin {"python", "recv"} /\ p = "recv"
            /\ lock = {} /\ lock' = {t} /\ UNCHANGED gil
  PROVE  Held'
<1>1. place'[t] = p /\ \A u \in Thread \ {t} : place'[u] = place[u]
  BY PlaceTyped
<1>2. /\ place[t] = "python" => gil = {t} /\ \A u \in Thread \ {t} : place[u] # "python"
      /\ place[t] = "recv" => lock = {t} /\ \A u \in Thread \ {t} : place[u] # "recv"
      /\ gil = {} => \A u \in Thread : place[u] # "python"
      /\ lock = {} => \A u \in Thread : place[u] # "recv"
  BY DEF Held
<1>3. \A u \in Thread : (gil = {u} <=> place[u] = "python") /\ (lock = {u} <=> place[u] = "recv")
  BY DEF Held
<1>4. \A u \in Thread : gil' = {u} <=> place'[u] = "python"
  BY <1>1, <1>2, <1>3
<1>5. \A u \in Thread : lock' = {u} <=> place'[u] = "recv"
  BY <1>1, <1>2, <1>3
<1>6. (gil' = {} \/ \E u \in Thread : gil' = {u}) /\ (lock' = {} \/ \E u \in Thread : lock' = {u})
  BY DEF Held
<1> QED BY <1>4, <1>5, <1>6 DEF Held

(***************************************************************************)
(* The mailbox.                                                            *)
(***************************************************************************)

\* The mailbox is left alone, and so is who waits for it.
LEMMA WaitsQuiet ==
  ASSUME VarTypes, Waits, UNCHANGED box,
         \A t \in Thread : place[t] = "send" => place'[t] = "send"
  PROVE  Waits'
BY Parts DEF Waits, VarTypes

\* The mailbox is used by a thread that does not wait for a place.
LEMMA WaitsUsed ==
  ASSUME VarTypes, Waits, box'.len \in Nat, box'.capacity = box.capacity,
         box'.waiting = box.waiting, box'.granted = box.granted, box'.open = box.open,
         box'.len <= box.len \/ (HasRoom(box) /\ box'.len = box.len + 1),
         box'.len < box.len => box.waiting = <<>>,
         \A t \in Thread : place[t] = "send" => place'[t] = "send"
  PROVE  Waits'
<1>1. /\ box.capacity \in Nat /\ box.len \in Nat /\ box'.len \in Nat
      /\ IsFiniteSet(box.granted) /\ Cardinality(box.granted) \in Nat
  BY FS_CardinalityType DEF VarTypes, Waits, Boxes
<1>2. CapacityKept(box')
  <2>1. CapacityKept(box)
    BY DEF Waits
  <2> QED BY <1>1, <2>1 DEF CapacityKept, HasRoom, Bounded, Taken
<1> QED BY <1>2, Parts DEF Waits, VarTypes

\* A message is taken, and its place goes to the first who waits.
LEMMA WaitsTaken ==
  ASSUME VarTypes, Waits, box.len > 0, box' = TakenFrom(box),
         \A t \in Thread : place[t] = "send" => place'[t] = "send"
  PROVE  Waits'
<1> DEFINE w == box.waiting
           h == Head(w)
<1>1. /\ box.capacity \in Nat /\ box.len \in Nat /\ w \in Seq(Thread) /\ box \in Boxes
      /\ IsFiniteSet(box.granted) /\ Cardinality(box.granted) \in Nat
  BY TypesNow, FS_CardinalityType DEF VarTypes, Waits
<1>2. CASE w = <<>>
  <2>1. /\ box'.len = box.len - 1 /\ box'.capacity = box.capacity /\ box'.waiting = w
        /\ box'.granted = box.granted /\ box'.open = box.open
    BY <1>1, <1>2 DEF TakenFrom, Boxes
  <2>2. /\ box'.len \in Nat /\ (box'.len <= box.len \/ (HasRoom(box) /\ box'.len = box.len + 1))
        /\ (box'.len < box.len => box.waiting = <<>>)
    BY <1>1, <1>2, <2>1
  <2> QED BY <2>1, <2>2, WaitsUsed
<1>3. CASE w # <<>>
  <2>1. /\ h \in Thread /\ Tail(w) \in Seq(Thread) /\ Len(Tail(w)) = Len(w) - 1
        /\ \A i \in 1..Len(Tail(w)) : Tail(w)[i] = w[i + 1]
    BY <1>1, <1>3, HeadTailProperties
  <2>2. Len(w) \in Nat /\ Len(w) # 0 /\ h = w[1]
    BY <1>1, <1>3, LenProperties, EmptySeq, HeadTailProperties
  <2>3. /\ box'.len = box.len - 1 /\ box'.capacity = box.capacity /\ box'.waiting = Tail(w)
        /\ box'.granted = box.granted \cup {h} /\ box'.open = box.open
    BY <1>1, <1>3 DEF TakenFrom, Boxes
  <2>4. h \notin box.granted /\ place[h] = "send" /\ box.open
    BY <1>3, <2>2 DEF Waits
  <2>5. IsFiniteSet(box'.granted) /\ Cardinality(box'.granted) = Cardinality(box.granted) + 1
    BY <1>1, <2>3, <2>4, FS_AddElement
  <2>6. CapacityKept(box')
    <3>1. CapacityKept(box)
      BY DEF Waits
    <3> QED BY <1>1, <1>3, <2>3, <2>5, <3>1 DEF CapacityKept, HasRoom, Bounded, Taken
  <2>7. /\ \A i \in 1..Len(Tail(w)) : i + 1 \in 1..Len(w)
        /\ \A i \in 1..Len(Tail(w)) : i + 1 # 1
    BY <2>1, <2>2
  <2>8. /\ \A i \in 1..Len(w) : w[i] \in Thread /\ place[w[i]] = "send" /\ w[i] \notin box.granted
        /\ \A i, j \in 1..Len(w) : w[i] = w[j] => i = j
        /\ \A t \in box.granted : t \in Thread /\ place[t] = "send"
    BY Parts DEF Waits, VarTypes
  <2>9. \A i \in 1..Len(Tail(w)) : Tail(w)[i] # h
    BY <2>1, <2>2, <2>7, <2>8
  <2>10. \A i, j \in 1..Len(Tail(w)) : Tail(w)[i] = Tail(w)[j] => i = j
    BY <2>1, <2>2, <2>7, <2>8
  <2>11. /\ \A t \in box'.granted : place'[t] = "send"
         /\ \A i \in 1..Len(box'.waiting) :
              place'[box'.waiting[i]] = "send" /\ box'.waiting[i] \notin box'.granted
    BY <2>1, <2>3, <2>4, <2>7, <2>8, <2>9
  <2> QED BY <2>3, <2>4, <2>5, <2>6, <2>10, <2>11 DEF Waits
<1> QED BY <1>2, <1>3
\* A thread sends, or starts to wait.
LEMMA WaitsSent ==
  ASSUME VarTypes, Waits, NEW t \in Thread, box.open, place[t] # "send", box' = SendTo(box, t),
         place' = [place EXCEPT ![t] = IF HasRoom(box) THEN "attach" ELSE "send"]
  PROVE  Waits'
<1>1. /\ box.capacity \in Nat /\ box.len \in Nat /\ box.waiting \in Seq(Thread)
      /\ IsFiniteSet(box.granted) /\ Cardinality(box.granted) \in Nat
  BY FS_CardinalityType DEF VarTypes, Waits
<1>2. \A u \in Thread : place[u] = "send" => place'[u] = "send" /\ u # t
  BY DEF VarTypes
<1>3. CASE HasRoom(box)
  <2>1. /\ box'.len = box.len + 1 /\ box'.capacity = box.capacity
        /\ box'.waiting = box.waiting /\ box'.granted = box.granted /\ box'.open = box.open
    BY <1>1, <1>3 DEF SendTo, VarTypes
  <2>2. box'.len \in Nat /\ ~(box'.len < box.len)
    BY <1>1, <2>1
  <2> QED BY <1>2, <1>3, <2>1, <2>2, WaitsUsed
<1>4. CASE ~HasRoom(box)
  <2> DEFINE w == Append(box.waiting, t)
  <2>1. /\ box'.len = box.len /\ box'.capacity = box.capacity
        /\ box'.waiting = w /\ box'.granted = box.granted /\ box'.open = box.open
    BY <1>1, <1>4 DEF SendTo, VarTypes
  <2>2. /\ Len(w) = Len(box.waiting) + 1 /\ w[Len(box.waiting) + 1] = t
        /\ \A i \in 1..Len(box.waiting) : w[i] = box.waiting[i]
        /\ Len(box.waiting) \in Nat
    BY <1>1, AppendProperties, LenProperties
  <2>3. /\ \A i \in 1..Len(box.waiting) : /\ box.waiting[i] \in Thread
                                          /\ place[box.waiting[i]] = "send"
                                          /\ box.waiting[i] \notin box.granted
        /\ \A i, j \in 1..Len(box.waiting) : box.waiting[i] = box.waiting[j] => i = j
        /\ \A u \in box.granted : u \in Thread /\ place[u] = "send"
    BY Parts DEF Waits, VarTypes
  <2>4. place'[t] = "send" /\ t \notin box.granted
    BY <1>4, <2>3 DEF VarTypes
  <2> HIDE DEF w
  <2>5. \A i \in 1..Len(w) : i \in 1..Len(box.waiting) \/ i = Len(box.waiting) + 1
    BY <2>2
  <2>6. \A i \in 1..Len(w) : place'[w[i]] = "send" /\ w[i] \notin box.granted
    BY <1>2, <2>2, <2>3, <2>4, <2>5
  <2>7. \A i \in 1..Len(box.waiting) : w[i] # t
    BY <2>2, <2>3
  <2>8. \A i, j \in 1..Len(w) : w[i] = w[j] => i = j
    BY <2>2, <2>3, <2>5, <2>7
  <2>9. CapacityKept(box')
    <3>1. CapacityKept(box)
      BY DEF Waits
    <3> QED BY <1>1, <1>4, <2>1, <3>1 DEF CapacityKept, HasRoom, Bounded, Taken
  <2>10. \A u \in box'.granted : place'[u] = "send"
    BY <1>2, <2>1, <2>3
  <2> QED BY <1>1, <2>1, <2>6, <2>8, <2>9, <2>10 DEF Waits
<1> QED BY <1>3, <1>4

\* A sender that was given a place puts its message.
LEMMA WaitsPut ==
  ASSUME VarTypes, Waits, NEW t \in box.granted, box' = Put(box, t),
         \A u \in Thread \ {t} : place[u] = "send" => place'[u] = "send"
  PROVE  Waits'
<1>1. /\ box.capacity \in Nat /\ box.len \in Nat /\ box.waiting \in Seq(Thread)
      /\ IsFiniteSet(box.granted) /\ Cardinality(box.granted) \in Nat
  BY FS_CardinalityType DEF VarTypes, Waits
<1>2. /\ box'.len = box.len + 1 /\ box'.capacity = box.capacity
      /\ box'.waiting = box.waiting /\ box'.granted = box.granted \ {t} /\ box'.open = box.open
  BY DEF Put, VarTypes
<1>3. IsFiniteSet(box'.granted) /\ Cardinality(box'.granted) = Cardinality(box.granted) - 1
  BY <1>1, <1>2, FS_RemoveElement
<1>4. CapacityKept(box')
  <2>1. CapacityKept(box)
    BY DEF Waits
  <2> QED BY <1>1, <1>2, <1>3, <2>1 DEF CapacityKept, HasRoom, Bounded, Taken
<1>5. /\ \A i \in 1..Len(box.waiting) : /\ box.waiting[i] \in Thread
                                        /\ place[box.waiting[i]] = "send"
                                        /\ box.waiting[i] \notin box.granted
      /\ \A u \in box.granted : u \in Thread /\ place[u] = "send"
      /\ box.open
  BY Parts, EmptySeq DEF Waits, VarTypes
<1>6. \A i \in 1..Len(box.waiting) : box.waiting[i] # t
  BY <1>5
<1> QED BY <1>2, <1>3, <1>4, <1>5, <1>6 DEF Waits

\* The receiver is dropped.
LEMMA WaitsClosed ==
  ASSUME VarTypes, Waits, box' = CloseReceiver(box), UNCHANGED place
  PROVE  Waits'
<1>1. box.capacity \in Nat
  BY DEF VarTypes
<1>2. /\ box'.len = 0 /\ box'.capacity = box.capacity
      /\ box'.waiting = <<>> /\ box'.granted = {} /\ ~box'.open
  BY DEF CloseReceiver, VarTypes
<1>3. Len(box'.waiting) = 0
  BY <1>2
<1>4. IsFiniteSet({}) /\ Cardinality({}) = 0
  BY FS_EmptySet
<1>5. CapacityKept(box')
  BY <1>1, <1>2, <1>4 DEF CapacityKept, HasRoom, Bounded, Taken
<1> QED BY <1>2, <1>3, <1>4, <1>5 DEF Waits
(***************************************************************************)
(* What the supervisor and the incarnations know.                          *)
(***************************************************************************)

\* Nothing is asked or answered.
LEMMA AsksQuiet ==
  ASSUME VarTypes, Asks, UNCHANGED sup, \A t \in Thread : place[t] = "ask" => place'[t] = "ask"
  PROVE  Asks'
<1>1. \A i \in 1..Len(sup.queue) : IsAsk(sup.queue[i]) => sup.queue[i].by \in Thread
  BY Parts, AskBy DEF IsAsk
<1>2. sup.next.do = "answer" => sup.next.to \in Thread
  BY TypesNow, FollowTypes DEF Supervisors
<1> QED BY <1>1, <1>2 DEF Asks

\* The supervisor is left alone.
LEMMA DoingQuiet ==
  ASSUME VarTypes, Doing, UNCHANGED sup, Len(run') = Len(run),
         \A i \in 1..Len(run) : run[i].signal => run'[i].signal
  PROVE  Doing'
BY TypesNow DEF Doing, VarTypes

\* No incarnation begins, ends or is told anything.
LEMMA TendedQuiet ==
  ASSUME VarTypes, Tended, UNCHANGED <<setup, run, sup>>,
         \A i \in Body : /\ place'[i] = "none" <=> place[i] = "none"
                         /\ place'[i] = "done" <=> place[i] = "done"
  PROVE  Tended'
BY Parts DEF Tended, Current, Pending

\* A thread moves that neither waits nor begins nor ends.
LEMMA Moves ==
  ASSUME VarTypes, Asks, Doing, Tended, UNCHANGED <<setup, run, sup>>,
         NEW t \in Thread, NEW p \in Places, place' = [place EXCEPT ![t] = p],
         place[t] \notin {"none", "done", "ask"}, p \notin {"none", "done"}
  PROVE  Asks' /\ Doing' /\ Tended'
<1>1. place'[t] = p /\ \A u \in Thread \ {t} : place'[u] = place[u]
  BY PlaceTyped
<1>2. \A u \in Thread : /\ place[u] = "ask" => place'[u] = "ask"
                        /\ place'[u] = "none" <=> place[u] = "none"
                        /\ place'[u] = "done" <=> place[u] = "done"
  BY <1>1
<1> QED BY <1>2, Parts, AsksQuiet, DoingQuiet, TendedQuiet

\* No thread that waits for a place moves.
LEMMA StillWaits ==
  ASSUME VarTypes, NEW t \in Thread, NEW p, place[t] # "send", place' = [place EXCEPT ![t] = p]
  PROVE  \A u \in Thread : place[u] = "send" => place'[u] = "send"
BY DEF VarTypes

\* Only the state of an incarnation changes.
LEMMA TendedRun ==
  ASSUME VarTypes, Tended, UNCHANGED setup, NEW i \in 1..Len(run),
         NEW r \in Incarnation, run' = [run EXCEPT ![i] = r],
         sup'.cur = sup.cur, sup'.at = sup.at,
         \A u \in Thread \ {i} : place'[u] = place[u],
         r.task = "start" => place'[i] = "none",
         place'[i] = "done" <=> r.ended # "-",
         r.task = "ended" \/ (r.task # "start" /\ run[i].task # "ended"),
         r.task = "ended" /\ place'[i] \notin {"none", "done"} => r.aborted /\ r.signal,
         setup.callable.frames => r.entries <= 1
  PROVE  Tended'
<1>1. /\ Len(run') = Len(run) /\ run'[i] = r
      /\ \A j \in 1..Len(run) : j # i => run'[j] = run[j]
  BY RunEdited
<1>2. /\ i \in Body /\ \A j \in Body : j \in Thread
      /\ \A j \in Body : j > Len(run) => j # i
  BY Parts
<1>3. \A j \in 1..Len(run) : Current(j)' <=> Current(j)
  BY <1>1 DEF Current
<1>4. \A j \in Body : j > Len(run) => place'[j] = "none"
  BY <1>2 DEF Tended
<1>5. \A j \in 1..Len(run) : j # i => Pending(j)' <=> Pending(j)
  BY Parts DEF Pending
<1>6. ASSUME NEW j \in 1..Len(run)
      PROVE  /\ run'[j].task = "start" => place'[j] = "none"
             /\ place'[j] = "done" <=> run'[j].ended # "-"
             /\ ~Current(j)' => run'[j].task = "ended"
             /\ run'[j].task = "ended" /\ Pending(j)' => run'[j].aborted /\ run'[j].signal
             /\ setup'.callable.frames => run'[j].entries <= 1
  <2>1. CASE j = i
    <3>1. ~Current(i) => run[i].task = "ended"
      BY DEF Tended
    <3> QED BY <1>1, <1>3, <2>1, <3>1 DEF Pending
  <2>2. CASE j # i
    BY <1>1, <1>3, <1>5, <2>2, Parts DEF Tended
  <2> QED BY <2>1, <2>2
<1> QED BY <1>1, <1>4, <1>6 DEF Tended
(***************************************************************************)
(* The invariant, action by action.                                        *)
(***************************************************************************)

\* The GIL changes hands.
LEMMA NextGil ==
  ASSUME IInv, NEW t \in Thread, Attach(t) \/ Yield(t)
  PROVE  IInv'
<1> USE DEF IInv
<1>1. VarTypes'
  BY TypesGil
<1> DEFINE p == IF place[t] = "attach" THEN "python" ELSE "attach"
<1>2. /\ place' = [place EXCEPT ![t] = p] /\ p \in Places
      /\ place[t] \in {"attach", "python"}
  BY DEF Attach, Yield, Places
<1>3. Asks' /\ Doing' /\ Tended'
  BY <1>2, Moves DEF Attach, Yield
<1>4. Waits'
  BY <1>2, StillWaits, WaitsQuiet DEF Attach, Yield
<1>5. Held'
  BY <1>2, HeldMoves DEF Attach, Yield
<1> QED BY <1>1, <1>3, <1>4, <1>5

\* A message is sent, or its sender waits for a place.
LEMMA NextSend ==
  ASSUME IInv, NEW t \in Thread, Send(t) \/ TrySend(t) \/ SendGoesOn(t)
  PROVE  IInv'
<1> USE DEF IInv
<1>1. VarTypes'
  BY TypesMailbox
<1>2. box.len \in Nat
  BY DEF VarTypes
<1>3. CASE Send(t)
  <2> DEFINE p == IF box.open /\ ~HasRoom(box) THEN "send" ELSE "attach"
  <2>1. /\ place' = [place EXCEPT ![t] = p] /\ p \in Places
        /\ place[t] = "python" /\ gil' = {} /\ UNCHANGED <<lock, setup, run, sup>>
    BY <1>3 DEF Send, Detached, InPython, Places
  <2>2. Asks' /\ Doing' /\ Tended'
    BY <2>1, Moves
  <2>3. Waits'
    <3>1. CASE box.open
      <4>1. place' = [place EXCEPT ![t] = IF HasRoom(box) THEN "attach" ELSE "send"]
        BY <2>1, <3>1
      <4> QED BY <1>3, <2>1, <3>1, <4>1, WaitsSent DEF Send
    <3>2. CASE ~box.open
      BY <1>3, <2>1, <3>2, StillWaits, WaitsQuiet DEF Send
    <3> QED BY <3>1, <3>2
  <2>4. Held'
    BY <2>1, HeldMoves
  <2> QED BY <1>1, <2>2, <2>3, <2>4
<1>4. CASE TrySend(t)
  <2>1. UNCHANGED <<setup, gil, place, lock, run, sup>>
    BY <1>4 DEF TrySend
  <2>2. Waits'
    <3>1. CASE box.open /\ HasRoom(box)
      <4>1. /\ box'.len = box.len + 1 /\ box'.capacity = box.capacity
            /\ box'.waiting = box.waiting /\ box'.granted = box.granted /\ box'.open = box.open
        BY <1>4, <3>1 DEF TrySend, TrySendTo, VarTypes
      <4>2. box'.len \in Nat /\ ~(box'.len < box.len)
        BY <1>2, <4>1
      <4> QED BY <2>1, <3>1, <4>1, <4>2, WaitsUsed
    <3>2. CASE ~(box.open /\ HasRoom(box))
      BY <1>4, <2>1, <3>2, WaitsQuiet DEF TrySend, TrySendTo
    <3> QED BY <3>1, <3>2
  <2> QED BY <1>1, <2>1, <2>2, HeldQuiet, AsksQuiet, DoingQuiet, TendedQuiet
<1>5. CASE SendGoesOn(t)
  <2>1. /\ place' = [place EXCEPT ![t] = "attach"] /\ "attach" \in Places
        /\ place[t] = "send" /\ UNCHANGED <<gil, lock, setup, run, sup>>
    BY <1>5 DEF SendGoesOn, Returns, Places
  <2>2. Asks' /\ Doing' /\ Tended'
    BY <2>1, Moves
  <2>3. Waits'
    <3>1. \A u \in Thread \ {t} : place[u] = "send" => place'[u] = "send"
      BY <2>1 DEF VarTypes
    <3>2. CASE box.open
      BY <1>5, <3>1, <3>2, WaitsPut DEF SendGoesOn
    <3>3. CASE ~box.open
      <4>1. /\ UNCHANGED box /\ box.granted = {} /\ box.waiting = <<>>
        BY <1>5, <3>3 DEF SendGoesOn, Waits
      <4>2. Len(box.waiting) = 0
        BY <4>1
      <4> QED BY <4>1, <4>2 DEF Waits
    <3> QED BY <3>2, <3>3
  <2>4. Held'
    BY <2>1, HeldMoves
  <2> QED BY <1>1, <2>2, <2>3, <2>4
<1> QED BY <1>3, <1>4, <1>5

\* A body waits for the mutex, has it, and takes a message.
LEMMA NextReceive ==
  ASSUME IInv, NEW t \in Thread, Receive(t) \/ Lock(t) \/ Received(t)
  PROVE  IInv'
<1> USE DEF IInv
<1>1. VarTypes'
  BY TypesMailbox
<1>2. PICK p \in Places \ {"none", "done", "send"} : place' = [place EXCEPT ![t] = p]
  BY DEF Receive, Lock, Received, Returns, Detached, Places
<1>3. /\ place[t] \in {"python", "lock for recv", "lock for try_recv", "recv"}
      /\ UNCHANGED <<setup, run, sup>>
  BY DEF Receive, Lock, Received, Free, InPython
<1>4. Asks' /\ Doing' /\ Tended'
  BY <1>2, <1>3, Moves
<1>5. \A u \in Thread : place[u] = "send" => place'[u] = "send"
  BY <1>2, <1>3, StillWaits
<1>6. UNCHANGED box \/ (box.len > 0 /\ box' = TakenFrom(box))
  BY DEF Receive, Lock, Received
<1>7. Waits'
  BY <1>5, <1>6, WaitsQuiet, WaitsTaken
<1>8. Held'
  <2>1. CASE Receive(t)
    <3>1. place[t] = "python" /\ gil' = {} /\ UNCHANGED lock /\ p \notin {"python", "recv"}
      BY <1>2, <2>1 DEF Receive, Free, InPython, Detached, VarTypes
    <3> QED BY <1>2, <3>1, HeldMoves
  <2>2. CASE Lock(t) /\ p = "recv"
    BY <1>2, <2>2, HeldMoves DEF Lock, Returns, VarTypes
  <2>3. CASE Lock(t) /\ p # "recv"
    <3>1. place[t] \in {"lock for recv", "lock for try_recv"} /\ UNCHANGED <<gil, lock>> /\ p = "attach"
      BY <1>2, <2>3 DEF Lock, Returns, VarTypes
    <3> QED BY <1>2, <3>1, HeldMoves
  <2>4. CASE Received(t)
    <3>1. place[t] = "recv" /\ lock' = {} /\ UNCHANGED gil /\ p = "attach"
      BY <1>2, <2>4 DEF Received, Returns, VarTypes
    <3> QED BY <1>2, <3>1, HeldMoves
  <2> QED BY <2>1, <2>2, <2>3, <2>4
<1> QED BY <1>1, <1>4, <1>7, <1>8

\* One end of the mailbox goes away.
LEMMA NextDrops ==
  ASSUME IInv, DropHandles \/ DropMailbox
  PROVE  IInv'
<1> USE DEF IInv
<1>1. VarTypes'
  BY TypesMailbox
<1>2. UNCHANGED <<setup, gil, place, lock, run, sup>>
  BY DEF DropHandles, DropMailbox
<1>3. Waits'
  <2>1. CASE DropMailbox
    BY <1>2, <2>1, WaitsClosed DEF DropMailbox
  <2>2. CASE DropHandles
    <3>1. /\ box'.len = box.len /\ box'.capacity = box.capacity /\ box.len \in Nat
          /\ box'.waiting = box.waiting /\ box'.granted = box.granted /\ box'.open = box.open
      BY <2>2 DEF DropHandles, VarTypes
    <3>2. box'.len \in Nat /\ box'.len <= box.len /\ ~(box'.len < box.len)
      BY <3>1
    <3> QED BY <1>2, <3>1, <3>2, WaitsUsed
  <2> QED BY <2>1, <2>2
<1> QED BY <1>1, <1>2, <1>3, HeldQuiet, AsksQuiet, DoingQuiet, TendedQuiet
\* A thread asks: it was in Python, so that no other question of it is pending.
LEMMA NextAsk ==
  ASSUME IInv, NEW t \in Thread, NEW cmd \in Use \ {"send", "try_send"}, AskSupervisor(t, cmd)
  PROVE  IInv'
<1> USE DEF IInv
<1>1. VarTypes'
  BY TypesAsk
<1> DEFINE p == IF sup.at = "gone" \/ cmd = "shutdown" THEN "attach" ELSE "ask"
           m == [cmd |-> cmd, by |-> t]
<1>2. /\ place' = [place EXCEPT ![t] = p] /\ p \in Places
      /\ place[t] = "python" /\ gil' = {} /\ UNCHANGED <<lock, setup, run, box>>
  BY DEF AskSupervisor, Detached, Free, InPython, Places
<1>3. place'[t] = p /\ \A u \in Thread \ {t} : place'[u] = place[u]
  BY <1>2, PlaceTyped
<1>4. Held' /\ Waits'
  BY <1>2, HeldMoves, StillWaits, WaitsQuiet
<1>5. CASE sup.at = "gone"
  BY <1>1, <1>2, <1>4, <1>5, Moves DEF AskSupervisor
<1>6. CASE sup.at # "gone"
  <2>1. m \in Letter /\ m.cmd = cmd /\ m.by = t /\ sup.queue \in Seq(Letter)
    BY DEF Letter, VarTypes
  <2>2. /\ sup'.queue = Append(sup.queue, m) /\ sup'.at = sup.at /\ sup'.cur = sup.cur
        /\ sup'.next = sup.next
    BY <1>6 DEF AskSupervisor, VarTypes
  <2> HIDE DEF m
  <2>3. /\ Len(sup'.queue) = Len(sup.queue) + 1 /\ sup'.queue[Len(sup.queue) + 1] = m
        /\ \A i \in 1..Len(sup.queue) : sup'.queue[i] = sup.queue[i]
        /\ Len(sup.queue) \in Nat
    BY <2>1, <2>2, AppendProperties, LenProperties
  <2>4. \A i \in 1..Len(sup'.queue) : i \in 1..Len(sup.queue) \/ i = Len(sup.queue) + 1
    BY <2>3
  <2>5. \A i \in 1..Len(sup.queue) : IsAsk(sup.queue[i]) =>
          /\ sup.queue[i].by \in Thread /\ place[sup.queue[i].by] = "ask"
          /\ sup.queue[i].by # t
    BY <1>2, Parts, AskBy DEF Asks, IsAsk
  <2>6. IsAsk(m) => p = "ask"
    BY <1>6, <2>1 DEF IsAsk
  <2>7. sup.next.do = "answer" => /\ sup.next.to \in Thread /\ place[sup.next.to] = "ask"
                                  /\ sup.next.to # t
    BY <1>2, TypesNow, FollowTypes DEF Asks, Supervisors
  <2> HIDE DEF p
  <2>8. \A i \in 1..Len(sup'.queue) : IsAsk(sup'.queue[i]) => place'[sup'.queue[i].by] = "ask"
    <3> TAKE i \in 1..Len(sup'.queue)
    <3> HAVE IsAsk(sup'.queue[i])
    <3>1. CASE i \in 1..Len(sup.queue)
      BY <1>3, <2>3, <2>5, <3>1
    <3>2. CASE i = Len(sup.queue) + 1
      BY <1>3, <2>1, <2>3, <2>6, <3>2
    <3> QED BY <2>4, <3>1, <3>2
  <2>9. \A i, j \in 1..Len(sup'.queue) :
          IsAsk(sup'.queue[i]) /\ IsAsk(sup'.queue[j]) /\ sup'.queue[i].by = sup'.queue[j].by => i = j
    BY <2>1, <2>3, <2>4, <2>5 DEF Asks
  <2>10. sup'.next.do = "answer" =>
           /\ place'[sup'.next.to] = "ask"
           /\ \A i \in 1..Len(sup'.queue) : IsAsk(sup'.queue[i]) => sup'.queue[i].by # sup'.next.to
    BY <1>3, <2>1, <2>2, <2>3, <2>4, <2>7 DEF Asks
  <2>11. Asks'
    BY <2>8, <2>9, <2>10 DEF Asks
  <2>12. Doing'
    BY <1>2, <2>2 DEF Doing
  <2>13. Tended'
    <3>1. \A i \in Body : /\ place'[i] = "none" <=> place[i] = "none"
                          /\ place'[i] = "done" <=> place[i] = "done"
      BY <1>2, <1>3, Parts DEF p
    <3> QED BY <1>2, <2>2, <3>1, Parts DEF Tended, Current, Pending
  <2> QED BY <1>1, <1>4, <2>11, <2>12, <2>13
<1> QED BY <1>5, <1>6

\* The task of a worker, while its body does not move.
LEMMA NextTask ==
  ASSUME IInv, NEW i \in 1..Len(run),
         StoppedUnpolled(i) \/ ShutdownSeen(i) \/ Joined(i) \/ WatcherTells(i)
  PROVE  IInv'
<1> USE DEF IInv
<1>1. VarTypes'
  <2>1. Tasks(i)
    BY DEF Tasks
  <2> QED BY <2>1, TypesTask
<1>2. UNCHANGED <<setup, gil, place, lock, box, sup>>
  BY DEF StoppedUnpolled, ShutdownSeen, Joined, WatcherTells
<1>3. Held' /\ Waits' /\ Asks'
  BY <1>2, HeldQuiet, WaitsQuiet, AsksQuiet
<1>4. run[i] \in Incarnation /\ i \in Thread /\ i \in Body
  BY Parts
<1>5. PICK r \in Incarnation :
        /\ run' = [run EXCEPT ![i] = r]
        /\ r.signal = run[i].signal /\ r.aborted = run[i].aborted /\ r.ended = run[i].ended
        /\ r.entries = run[i].entries
        /\ \/ run[i].task = "start" /\ r.task = "ended"
           \/ run[i].task = "run" /\ r.task = "join"
           \/ run[i].task = "join" /\ r.task = "ended" /\ place[i] = "done"
           \/ r.task = run[i].task
  <2>1. CASE StoppedUnpolled(i) \/ Joined(i)
    <3> DEFINE r == [run[i] EXCEPT !.task = "ended"]
    <3>1. run' = [run EXCEPT ![i] = r]
      BY <2>1 DEF StoppedUnpolled, Joined
    <3>2. r \in Incarnation /\ r.task = "ended"
          /\ r.signal = run[i].signal /\ r.aborted = run[i].aborted /\ r.ended = run[i].ended
          /\ r.entries = run[i].entries
      BY <1>4 DEF Incarnation
    <3>3. run[i].task = "start" \/ (run[i].task = "join" /\ place[i] = "done")
      BY <2>1 DEF StoppedUnpolled, Joined
    <3> HIDE DEF r
    <3> QED BY <3>1, <3>2, <3>3
  <2>2. CASE ShutdownSeen(i)
    <3> DEFINE r == [run[i] EXCEPT !.task = "join", !.told = TRUE]
    <3>1. run' = [run EXCEPT ![i] = r] /\ run[i].task = "run"
      BY <2>2 DEF ShutdownSeen
    <3>2. r \in Incarnation /\ r.task = "join"
          /\ r.signal = run[i].signal /\ r.aborted = run[i].aborted /\ r.ended = run[i].ended
          /\ r.entries = run[i].entries
      BY <1>4 DEF Incarnation
    <3> HIDE DEF r
    <3> QED BY <3>1, <3>2
  <2>3. CASE WatcherTells(i)
    <3> DEFINE r == [run[i] EXCEPT !.told = TRUE, !.watch = FALSE]
    <3>1. run' = [run EXCEPT ![i] = r]
      BY <2>3 DEF WatcherTells
    <3>2. r \in Incarnation /\ r.task = run[i].task
          /\ r.signal = run[i].signal /\ r.aborted = run[i].aborted /\ r.ended = run[i].ended
          /\ r.entries = run[i].entries
      BY <1>4 DEF Incarnation
    <3> HIDE DEF r
    <3> QED BY <3>1, <3>2
  <2> QED BY <2>1, <2>2, <2>3
<1>6. /\ Len(run') = Len(run) /\ run'[i] = r
      /\ \A j \in 1..Len(run) : j # i => run'[j] = run[j]
  BY <1>5, RunEdited
<1>7. Doing'
  BY <1>2, <1>5, <1>6, DoingQuiet
<1>8. Tended'
  <2>1. CASE r.task = run[i].task
    <3>1. \A j \in 1..Len(run) :
            /\ run'[j].task = run[j].task /\ run'[j].ended = run[j].ended
            /\ run'[j].aborted = run[j].aborted /\ run'[j].signal = run[j].signal
            /\ run'[j].entries = run[j].entries
      BY <1>5, <1>6, <2>1
    <3> QED BY <1>2, <1>6, <3>1 DEF Tended, Current, Pending
  <2>2. CASE r.task # run[i].task
    <3>1. /\ run[i].task = "start" => place[i] = "none"
          /\ place[i] = "done" <=> run[i].ended # "-"
          /\ setup.callable.frames => run[i].entries <= 1
      BY DEF Tended
    <3> QED BY <1>2, <1>5, <2>2, <3>1, TendedRun
  <2> QED BY <2>1, <2>2
<1> QED BY <1>1, <1>3, <1>7, <1>8
\* The body is handed to the pool, and started by it.
LEMMA NextPool ==
  ASSUME IInv, NEW i \in 1..Len(run), RunPolled(i) \/ BodyStarts(i)
  PROVE  IInv'
<1> USE DEF IInv
<1>1. VarTypes'
  <2>1. Tasks(i)
    BY DEF Tasks
  <2> QED BY <2>1, TypesTask
<1>2. run[i] \in Incarnation /\ i \in Thread /\ i \in Body
  BY Parts
<1>3. UNCHANGED <<setup, gil, lock, box, sup>>
  BY DEF RunPolled, BodyStarts
<1>4. CASE BodyStarts(i)
  <2>1. /\ place' = [place EXCEPT ![i] = "attach"] /\ "attach" \in Places
        /\ place[i] = "queued" /\ UNCHANGED run
    BY <1>4 DEF BodyStarts, Places
  <2> QED BY <1>1, <1>2, <1>3, <2>1, Moves, HeldMoves, StillWaits, WaitsQuiet
<1>5. CASE RunPolled(i)
  <2> DEFINE r == [run[i] EXCEPT !.task = "run", !.watch = TRUE]
  <2>1. /\ place' = [place EXCEPT ![i] = "queued"] /\ "queued" \in Places
        /\ run' = [run EXCEPT ![i] = r] /\ run[i].task = "start"
    BY <1>5 DEF RunPolled, Places
  <2>2. /\ r \in Incarnation /\ r.task = "run" /\ r.signal = run[i].signal
        /\ r.ended = run[i].ended /\ r.entries = run[i].entries
    BY <1>2 DEF Incarnation
  <2> HIDE DEF r
  <2>3. /\ place[i] = "none" /\ run[i].ended = "-"
        /\ setup.callable.frames => run[i].entries <= 1
    BY <2>1 DEF Tended
  <2>4. place'[i] = "queued" /\ \A u \in Thread \ {i} : place'[u] = place[u]
    BY <1>2, <2>1, PlaceTyped
  <2>5. Held' /\ Waits' /\ Asks'
    BY <1>2, <1>3, <2>1, <2>3, <2>4, HeldMoves, StillWaits, WaitsQuiet, AsksQuiet
  <2>6. /\ Len(run') = Len(run) /\ run'[i] = r
        /\ \A j \in 1..Len(run) : j # i => run'[j] = run[j]
    BY <2>1, <2>2, RunEdited
  <2>7. Doing'
    BY <1>3, <2>2, <2>6, DoingQuiet
  <2>8. Tended'
    BY <1>3, <2>1, <2>2, <2>3, <2>4, TendedRun
  <2> QED BY <1>1, <2>5, <2>7, <2>8
<1> QED BY <1>4, <1>5

\* `run` returns: its body has ended, and a report is sent.
LEMMA NextReturn ==
  ASSUME IInv, NEW i \in 1..Len(run), RunReturns(i)
  PROVE  IInv'
<1> USE DEF IInv
<1>1. VarTypes'
  <2>1. Tasks(i)
    BY DEF Tasks
  <2> QED BY <2>1, TypesTask
<1>2. run[i] \in Incarnation /\ i \in Thread /\ i \in Body
  BY Parts
<1>3. UNCHANGED <<setup, gil, place, lock, box>> /\ place[i] = "done" /\ run[i].task = "run"
  BY DEF RunReturns
<1>4. Held' /\ Waits'
  BY <1>3, HeldQuiet, WaitsQuiet
<1>5. sup'.at = sup.at /\ sup'.cur = sup.cur /\ sup'.next = sup.next
  BY DEF RunReturns, VarTypes
<1>6. Asks'
  <2>1. CASE UNCHANGED sup
    BY <1>3, <2>1, AsksQuiet
  <2>2. CASE sup'.queue = Append(sup.queue, [cmd |-> "report"])
    <3> DEFINE m == [cmd |-> "report"]
    <3>1. m \in Letter /\ ~IsAsk(m) /\ sup.queue \in Seq(Letter)
      BY DEF Letter, IsAsk, VarTypes
    <3> HIDE DEF m
    <3>2. /\ Len(sup'.queue) = Len(sup.queue) + 1 /\ sup'.queue[Len(sup.queue) + 1] = m
          /\ \A k \in 1..Len(sup.queue) : sup'.queue[k] = sup.queue[k]
          /\ Len(sup.queue) \in Nat
      BY <2>2, <3>1, AppendProperties, LenProperties DEF m
    <3>3. \A k \in 1..Len(sup'.queue) : IsAsk(sup'.queue[k]) =>
            k \in 1..Len(sup.queue) /\ sup'.queue[k] = sup.queue[k]
      BY <3>1, <3>2
    <3> QED BY <1>3, <1>5, <3>3 DEF Asks
  <2> QED BY <2>1, <2>2 DEF RunReturns, VarTypes
<1> DEFINE r == [run[i] EXCEPT !.task = "ended", !.watch = FALSE]
<1>7. run' = [run EXCEPT ![i] = r]
  BY DEF RunReturns
<1>8. /\ r \in Incarnation /\ r.task = "ended" /\ r.signal = run[i].signal
      /\ r.ended = run[i].ended /\ r.entries = run[i].entries
  BY <1>2 DEF Incarnation
<1> HIDE DEF r
<1>9. /\ Len(run') = Len(run) /\ run'[i] = r
      /\ \A j \in 1..Len(run) : j # i => run'[j] = run[j]
  BY <1>7, <1>8, RunEdited
<1>10. Doing'
  <2>1. sup.cur # 0 => sup.cur \in 1..Len(run)
    BY LenProperties DEF VarTypes
  <2>2. \A j \in 1..Len(run) : run'[j].signal = run[j].signal
    BY <1>8, <1>9
  <2> QED BY <1>5, <1>9, <2>1, <2>2 DEF Doing
<1>11. Tended'
  <2>1. run[i].ended # "-" /\ (setup.callable.frames => run[i].entries <= 1)
    BY <1>3 DEF Tended
  <2> QED BY <1>3, <1>5, <1>7, <1>8, <2>1, TendedRun
<1> QED BY <1>1, <1>4, <1>6, <1>10, <1>11

\* The body: entered, entered again, or over.
LEMMA NextBody ==
  ASSUME IInv, NEW i \in 1..Len(run),
         EnterBody(i) \/ BodyObeys(i) \/ BodyReturns(i) \/ BodyRaises(i)
  PROVE  IInv'
<1> USE DEF IInv
<1>1. VarTypes'
  BY TypesTask
<1>2. run[i] \in Incarnation /\ i \in Thread /\ i \in Body
  BY Parts
<1>3. UNCHANGED <<setup, lock, box, sup>> /\ place[i] = "python"
  BY DEF EnterBody, BodyObeys, BodyReturns, BodyRaises, Free, InPython
<1>4. /\ run[i].task # "start" /\ run[i].ended = "-"
      /\ run[i].task = "ended" => run[i].aborted /\ run[i].signal
      /\ setup.callable.frames => run[i].entries <= 1
      /\ ~Current(i) => run[i].task = "ended"
  BY <1>2, <1>3 DEF Tended, Pending, Incarnation
<1>5. ASSUME NEW r \in Incarnation, run' = [run EXCEPT ![i] = r], r.task = run[i].task,
             r.signal = run[i].signal, r.aborted = run[i].aborted,
             \A u \in Thread \ {i} : place'[u] = place[u],
             place'[i] = place[i] \/ place'[i] = "done",
             place'[i] = "done" <=> r.ended # "-",
             setup.callable.frames => r.entries <= 1
      PROVE  Doing' /\ Tended' /\ Asks' /\ Waits'
  <2>1. /\ Len(run') = Len(run) /\ run'[i] = r
        /\ \A j \in 1..Len(run) : j # i => run'[j] = run[j]
    BY <1>5, RunEdited
  <2>2. Doing'
    BY <1>3, <1>5, <2>1, DoingQuiet
  <2>3. \A u \in Thread : /\ place[u] = "ask" => place'[u] = "ask"
                          /\ place[u] = "send" => place'[u] = "send"
    BY <1>3, <1>5
  <2>4. Asks' /\ Waits'
    BY <1>3, <2>3, AsksQuiet, WaitsQuiet
  <2>5. \A j \in 1..Len(run) : Current(j)' <=> Current(j)
    BY <1>3, <2>1 DEF Current
  <2>6. \A j \in Body : j > Len(run) => place'[j] = "none"
    BY <1>2, <1>5, Parts DEF Tended
  <2>7. ASSUME NEW j \in 1..Len(run)
        PROVE  /\ run'[j].task = "start" => place'[j] = "none"
               /\ place'[j] = "done" <=> run'[j].ended # "-"
               /\ ~Current(j)' => run'[j].task = "ended"
               /\ run'[j].task = "ended" /\ Pending(j)' => run'[j].aborted /\ run'[j].signal
               /\ setup'.callable.frames => run'[j].entries <= 1
    <3>1. CASE j = i
      BY <1>3, <1>4, <1>5, <2>1, <2>5, <3>1 DEF Pending
    <3>2. CASE j # i
      <4>1. place'[j] = place[j] /\ run'[j] = run[j]
        BY <1>5, <2>1, <3>2, Parts
      <4> QED BY <1>3, <2>5, <4>1 DEF Tended, Pending
    <3> QED BY <3>1, <3>2
  <2> QED BY <2>1, <2>2, <2>4, <2>6, <2>7 DEF Tended
<1>6. ASSUME NEW how \in {"raised", "returned"}, BodyEnds(i, how)
      PROVE  IInv'
  <2> DEFINE r == [run[i] EXCEPT !.ended = how]
  <2>1. run' = [run EXCEPT ![i] = r] /\ place' = [place EXCEPT ![i] = "done"]
        /\ "done" \in Places /\ gil' = {}
    BY <1>6 DEF BodyEnds, Places
  <2>2. /\ r \in Incarnation /\ r.task = run[i].task /\ r.signal = run[i].signal
        /\ r.ended # "-" /\ r.entries = run[i].entries /\ r.aborted = run[i].aborted
    BY <1>2 DEF Incarnation
  <2> HIDE DEF r
  <2>3. place'[i] = "done" /\ \A u \in Thread \ {i} : place'[u] = place[u]
    BY <1>2, <2>1, PlaceTyped
  <2>4. Held'
    BY <1>2, <1>3, <2>1, HeldMoves
  <2>5. Doing' /\ Tended' /\ Asks' /\ Waits'
    BY <1>4, <1>5, <2>1, <2>2, <2>3
  <2> QED BY <1>1, <2>4, <2>5
<1>7. ASSUME NEW n \in Nat, run' = [run EXCEPT ![i].entries = n], UNCHANGED <<gil, place>>,
             n <= 1 \/ ~setup.callable.frames
      PROVE  IInv'
  <2> DEFINE r == [run[i] EXCEPT !.entries = n]
  <2>1. run' = [run EXCEPT ![i] = r]
    BY <1>7
  <2>2. /\ r \in Incarnation /\ r.task = run[i].task /\ r.signal = run[i].signal
        /\ r.ended = run[i].ended /\ r.entries = n /\ r.aborted = run[i].aborted
    BY <1>2 DEF Incarnation
  <2> HIDE DEF r
  <2>3. Held'
    BY <1>3, <1>7, HeldQuiet
  <2>4. place'[i] = "done" <=> r.ended # "-"
    BY <1>3, <1>4, <1>7, <2>2
  <2>5. Doing' /\ Tended' /\ Asks' /\ Waits'
    BY <1>4, <1>5, <1>7, <2>1, <2>2, <2>4
  <2> QED BY <1>1, <2>3, <2>5
<1>8. CASE EnterBody(i)
  BY <1>6, <1>7, <1>8 DEF EnterBody
<1>9. CASE BodyObeys(i) \/ BodyReturns(i)
  BY <1>6, <1>9 DEF BodyObeys, BodyReturns
<1>10. CASE BodyRaises(i)
  <2>1. run[i].entries + 1 \in Nat
    BY <1>2 DEF Incarnation
  <2>2. Retried(run[i].entries) => ~setup.callable.frames
    BY DEF Retried
  <2> QED BY <1>6, <1>7, <1>10, <2>1, <2>2 DEF BodyRaises
<1> QED BY <1>8, <1>9, <1>10
(***************************************************************************)
(* The supervisor.                                                         *)
(***************************************************************************)

\* The first letter is taken: whoever asked is answered, or will be.
LEMMA AsksServed ==
  ASSUME VarTypes, Asks, sup.queue # <<>>, sup'.queue = Tail(sup.queue),
         \A u \in Thread : place[u] = "ask" =>
           \/ place'[u] = "ask"
           \/ IsAsk(Head(sup.queue)) /\ u = Head(sup.queue).by /\ sup'.next.do # "answer",
         sup'.next.do = "answer" =>
           IsAsk(Head(sup.queue)) /\ sup'.next.to = Head(sup.queue).by
  PROVE  Asks'
<1> DEFINE h == Head(sup.queue)
           q == sup.queue
           s == Tail(sup.queue)
<1>1. /\ 1 \in 1..Len(q) /\ h = q[1]
      /\ \A i \in 1..Len(s) : i + 1 \in 1..Len(q) /\ s[i] = q[i + 1] /\ i + 1 # 1
  BY FirstLetter
<1>2. \A i \in 1..Len(q) : IsAsk(q[i]) => q[i].by \in Thread /\ place[q[i].by] = "ask"
  BY Parts, AskBy DEF Asks, IsAsk
<1>3. \A i, j \in 1..Len(q) : IsAsk(q[i]) /\ IsAsk(q[j]) /\ q[i].by = q[j].by => i = j
  BY DEF Asks
<1> HIDE DEF h, q, s
<1>4. \A i \in 1..Len(s) : IsAsk(s[i]) =>
        /\ s[i].by \in Thread /\ place[s[i].by] = "ask"
        /\ IsAsk(h) => s[i].by # h.by
  <2> TAKE i \in 1..Len(s)
  <2> HAVE IsAsk(s[i])
  <2>1. i + 1 \in 1..Len(q) /\ s[i] = q[i + 1] /\ i + 1 # 1
    BY <1>1
  <2>2. IsAsk(q[i + 1])
    BY <2>1
  <2>3. s[i].by \in Thread /\ place[s[i].by] = "ask"
    BY <1>2, <2>1, <2>2
  <2>4. IsAsk(h) => s[i].by # h.by
    BY <1>1, <1>3, <2>1, <2>2
  <2> QED BY <2>3, <2>4
<1>5. \A i \in 1..Len(s) : IsAsk(s[i]) => place'[s[i].by] = "ask"
  BY <1>4 DEF h
<1>6. \A i, j \in 1..Len(s) : IsAsk(s[i]) /\ IsAsk(s[j]) /\ s[i].by = s[j].by => i = j
  <2> TAKE i, j \in 1..Len(s)
  <2> HAVE IsAsk(s[i]) /\ IsAsk(s[j]) /\ s[i].by = s[j].by
  <2>1. /\ i + 1 \in 1..Len(q) /\ s[i] = q[i + 1]
        /\ j + 1 \in 1..Len(q) /\ s[j] = q[j + 1]
    BY <1>1
  <2>2. IsAsk(q[i + 1]) /\ IsAsk(q[j + 1]) /\ q[i + 1].by = q[j + 1].by
    BY <2>1
  <2>3. i + 1 = j + 1
    BY <1>3, <2>1, <2>2
  <2> QED BY <2>3
<1>7. sup'.next.do = "answer" =>
        /\ place'[sup'.next.to] = "ask"
        /\ \A i \in 1..Len(s) : IsAsk(s[i]) => s[i].by # sup'.next.to
  <2> HAVE sup'.next.do = "answer"
  <2>1. IsAsk(h) /\ sup'.next.to = h.by
    BY DEF h
  <2>2. h.by \in Thread /\ place[h.by] = "ask"
    BY <1>1, <1>2, <2>1
  <2>3. place'[h.by] = "ask"
    BY <2>2
  <2> QED BY <1>4, <2>1, <2>3
<1> QED BY <1>5, <1>6, <1>7 DEF Asks, s

\* The answer that was owed is given.
LEMMA AsksAnswered ==
  ASSUME VarTypes, Asks, sup'.queue = sup.queue, sup'.next.do # "answer",
         \A u \in Thread : place[u] = "ask" =>
           place'[u] = "ask" \/ (sup.next.do = "answer" /\ u = sup.next.to)
  PROVE  Asks'
<1>1. \A i \in 1..Len(sup.queue) : IsAsk(sup.queue[i]) =>
        /\ sup.queue[i].by \in Thread /\ place[sup.queue[i].by] = "ask"
        /\ sup.next.do = "answer" => sup.queue[i].by # sup.next.to
  BY Parts, AskBy DEF Asks, IsAsk
<1>2. \A i \in 1..Len(sup.queue) : IsAsk(sup.queue[i]) => place'[sup.queue[i].by] = "ask"
  BY <1>1
<1> QED BY <1>2 DEF Asks

\* Incarnations are at most told to stop; none is left without a supervisor.
LEMMA TendedKept ==
  ASSUME VarTypes, Tended, UNCHANGED setup, Len(run') = Len(run),
         \A i \in Body : /\ place'[i] = "none" <=> place[i] = "none"
                         /\ place'[i] = "done" <=> place[i] = "done",
         \A i \in 1..Len(run) :
           /\ run'[i].task = run[i].task /\ run'[i].ended = run[i].ended
           /\ run'[i].entries = run[i].entries /\ run'[i].aborted = run[i].aborted
           /\ run[i].signal => run'[i].signal,
         \A i \in 1..Len(run) : Current(i) => Current(i)' \/ run[i].task = "ended"
  PROVE  Tended'
<1>1. \A i \in 1..Len(run) : i \in Body
  BY Parts
<1> QED BY <1>1 DEF Tended, Pending

\* One more incarnation, when all the others have ended.
LEMMA TendedAdded ==
  ASSUME VarTypes, Tended, UNCHANGED setup, run' = Append(run, NewRun), Len(run) < MaxRuns,
         \A i \in Body : /\ place'[i] = "none" <=> place[i] = "none"
                         /\ place'[i] = "done" <=> place[i] = "done",
         \A i \in 1..Len(run) : Current(i) => run[i].task = "ended",
         sup'.cur = Len(run) + 1 \/ sup'.at = "link"
  PROVE  Tended'
<1>1. /\ Len(run') = Len(run) + 1 /\ run'[Len(run) + 1] = NewRun
      /\ \A i \in 1..Len(run) : run'[i] = run[i]
  BY RunAdded
<1>2. /\ Len(run) \in Nat /\ Len(run) + 1 \in Body
      /\ \A i \in 1..Len(run) : i \in Body
      /\ \A i \in 1..(Len(run) + 1) : i \in 1..Len(run) \/ i = Len(run) + 1
  BY Parts, PythonAssumption DEF Body
<1>3. place[Len(run) + 1] = "none" /\ place'[Len(run) + 1] = "none"
  BY <1>2 DEF Tended
<1>4. \A i \in Body : i > Len(run) + 1 => place'[i] = "none"
  BY <1>2 DEF Tended, Body
<1>5. \A i \in 1..Len(run) : run[i].task = "ended"
  BY DEF Tended
<1>6. ASSUME NEW i \in 1..Len(run')
      PROVE  /\ run'[i].task = "start" => place'[i] = "none"
             /\ place'[i] = "done" <=> run'[i].ended # "-"
             /\ ~Current(i)' => run'[i].task = "ended"
             /\ run'[i].task = "ended" /\ Pending(i)' => run'[i].aborted /\ run'[i].signal
             /\ setup'.callable.frames => run'[i].entries <= 1
  <2>1. CASE i \in 1..Len(run)
    <3>1. run'[i] = run[i] /\ i \in Body
      BY <1>1, <1>2, <2>1
    <3> QED BY <1>5, <2>1, <3>1 DEF Tended, Pending
  <2>2. CASE i = Len(run) + 1
    <3>1. run'[i].task = "start" /\ run'[i].ended = "-" /\ run'[i].entries = 0
      BY <1>1, <2>2 DEF NewRun
    <3>2. Current(i)'
      BY <1>1, <2>2 DEF Current
    <3> QED BY <1>3, <2>2, <3>1, <3>2
  <2> QED BY <1>1, <1>2, <2>1, <2>2
<1> QED BY <1>1, <1>4, <1>6 DEF Tended
\* A thread that waited for an answer has it.
LEMMA Answered ==
  ASSUME VarTypes, Held, Waits, NEW t \in Thread, place[t] = "ask", Returns(t),
         UNCHANGED <<gil, lock, box>>
  PROVE  /\ Held' /\ Waits'
         /\ \A i \in Body : /\ place'[i] = "none" <=> place[i] = "none"
                            /\ place'[i] = "done" <=> place[i] = "done"
         /\ \A u \in Thread : u # t => place'[u] = place[u]
<1>1. place' = [place EXCEPT ![t] = "attach"] /\ "attach" \in Places
  BY DEF Returns, Places
<1>2. place'[t] = "attach" /\ \A u \in Thread \ {t} : place'[u] = place[u]
  BY <1>1, PlaceTyped
<1> QED BY <1>1, <1>2, HeldMoves, StillWaits, WaitsQuiet, Parts

\* Nobody moves.
LEMMA Unmoved ==
  ASSUME VarTypes, Held, Waits, UNCHANGED <<place, gil, lock, box>>
  PROVE  /\ Held' /\ Waits'
         /\ \A i \in Body : /\ place'[i] = "none" <=> place[i] = "none"
                            /\ place'[i] = "done" <=> place[i] = "done"
         /\ \A u \in Thread : place'[u] = place[u]
BY HeldQuiet, WaitsQuiet

\* Serving: what the first letter says, and who sent it.
LEMMA Serving ==
  ASSUME IInv, NEW cmd, Serves(cmd)
  PROVE  /\ sup.at = "serve" /\ sup.next.do = "-" /\ sup.queue # <<>> /\ sup.cur \in 0..Len(run)
         /\ Rest \in Supervisors /\ Rest.at = "serve" /\ Rest.next = sup.next
         /\ Rest.queue = Tail(sup.queue) /\ Rest.cur = sup.cur
         /\ IsAsk(Head(sup.queue)) <=> cmd \notin {"report", "shutdown"}
         /\ cmd \notin {"report", "shutdown"} =>
              Head(sup.queue).by \in Thread /\ place[Head(sup.queue).by] = "ask"
         /\ \A i \in 1..Len(run) : i # sup.cur => run[i].task = "ended"
<1> USE DEF IInv
<1>1. sup.at = "serve" /\ sup.queue # <<>> /\ Head(sup.queue).cmd = cmd
  BY DEF Serves
<1>2. sup.next.do = "-"
  BY <1>1 DEF Doing
<1>3. 1 \in 1..Len(sup.queue) /\ Head(sup.queue) = sup.queue[1]
  BY <1>1, FirstLetter
<1>4. IsAsk(Head(sup.queue)) <=> cmd \notin {"report", "shutdown"}
  BY <1>1 DEF IsAsk
<1>5. IsAsk(Head(sup.queue)) => place[Head(sup.queue).by] = "ask"
  BY <1>3 DEF Asks
<1>6. \A i \in 1..Len(run) : i # sup.cur => run[i].task = "ended"
  BY <1>1 DEF Tended, Current
<1>7. sup.cur \in 0..Len(run)
  BY LenProperties DEF VarTypes
<1> QED BY <1>1, <1>2, <1>4, <1>5, <1>6, <1>7, RestTypes

\* A question that is answered at once.
LEMMA NextQuery ==
  ASSUME IInv, ServeQuery
  PROVE  IInv'
<1> USE DEF IInv
<1>1. VarTypes'
  BY TypesSupervises DEF Supervises
<1> DEFINE t == Head(sup.queue).by
<1>2. /\ sup.at = "serve" /\ sup.next.do = "-" /\ sup.queue # <<>>
      /\ t \in Thread /\ place[t] = "ask" /\ IsAsk(Head(sup.queue))
      /\ sup'.at = "serve" /\ sup'.cur = sup.cur /\ sup'.next = sup.next
      /\ sup'.queue = Tail(sup.queue)
  BY Serving DEF ServeQuery
<1> HIDE DEF t
<1>3. Returns(t) /\ UNCHANGED <<setup, gil, lock, box, run>>
  BY DEF ServeQuery, t
<1>4. /\ Held' /\ Waits'
      /\ \A i \in Body : /\ place'[i] = "none" <=> place[i] = "none"
                         /\ place'[i] = "done" <=> place[i] = "done"
      /\ \A u \in Thread : u # t => place'[u] = place[u]
  BY <1>2, <1>3, Answered
<1>5. Asks'
  BY <1>2, <1>4, AsksServed DEF t
<1>6. Doing'
  BY <1>2, <1>3 DEF Doing
<1>7. Tended'
  BY <1>2, <1>3, <1>4, TendedKept DEF Current
<1> QED BY <1>1, <1>4, <1>5, <1>6, <1>7

\* A start: refused, done, or waiting for its link.
LEMMA NextStart ==
  ASSUME IInv, ServeStart
  PROVE  IInv'
<1> USE DEF IInv
<1>1. VarTypes'
  BY TypesSupervises DEF Supervises
<1> DEFINE t == Head(sup.queue).by
<1>2. /\ sup.at = "serve" /\ sup.next.do = "-" /\ sup.queue # <<>>
      /\ t \in Thread /\ place[t] = "ask" /\ IsAsk(Head(sup.queue))
      /\ Rest \in Supervisors /\ Rest.at = "serve" /\ Rest.cur = sup.cur /\ Rest.next = sup.next
      /\ Rest.queue = Tail(sup.queue)
      /\ \A i \in 1..Len(run) : i # sup.cur => run[i].task = "ended"
  BY Serving DEF ServeStart
<1>3. UNCHANGED <<setup, gil, lock, box>>
  BY DEF ServeStart
<1>4. CASE sup.cur # 0
  <2>1. sup' = Rest /\ Returns(t) /\ UNCHANGED run
    BY <1>4 DEF ServeStart
  <2> HIDE DEF t
  <2>2. /\ Held' /\ Waits'
        /\ \A i \in Body : /\ place'[i] = "none" <=> place[i] = "none"
                           /\ place'[i] = "done" <=> place[i] = "done"
        /\ \A u \in Thread : u # t => place'[u] = place[u]
    BY <1>2, <1>3, <2>1, Answered
  <2>3. Asks'
    BY <1>2, <2>1, <2>2, AsksServed DEF t
  <2>4. Doing'
    BY <1>2, <2>1 DEF Doing
  <2>5. Tended'
    BY <1>2, <1>3, <2>1, <2>2, TendedKept DEF Current
  <2> QED BY <1>1, <2>2, <2>3, <2>4, <2>5
<1>5. CASE sup.cur = 0 /\ Head(sup.queue).cmd = "start_child"
  <2>1. /\ sup' = [Rest EXCEPT !.cur = Len(run) + 1] /\ Returns(t)
        /\ run' = Append(run, NewRun) /\ Len(run) < MaxRuns
    BY <1>5 DEF ServeStart
  <2> HIDE DEF t
  <2>2. /\ Held' /\ Waits'
        /\ \A i \in Body : /\ place'[i] = "none" <=> place[i] = "none"
                           /\ place'[i] = "done" <=> place[i] = "done"
        /\ \A u \in Thread : u # t => place'[u] = place[u]
    BY <1>2, <1>3, <2>1, Answered
  <2>3. /\ sup'.cur = Len(run) + 1 /\ sup'.at = "serve" /\ sup'.next = sup.next
        /\ sup'.queue = Tail(sup.queue) /\ Len(run') = Len(run) + 1
    BY <1>2, <2>1, RunAdded DEF Supervisors
  <2>4. Asks'
    BY <1>2, <2>2, <2>3, AsksServed DEF t
  <2>5. Doing'
    BY <1>2, <2>3 DEF Doing
  <2>6. \A i \in 1..Len(run) : run[i].task = "ended"
    BY <1>2, <1>5, Parts
  <2>7. Tended'
    BY <1>3, <2>1, <2>2, <2>3, <2>6, TendedAdded
  <2> QED BY <1>1, <2>2, <2>4, <2>5, <2>7
<1>6. CASE sup.cur = 0 /\ Head(sup.queue).cmd # "start_child"
  <2>1. /\ sup' = [Rest EXCEPT !.at = "link", !.next = [do |-> "answer", to |-> t]]
        /\ UNCHANGED place
        /\ run' = Append(run, NewRun) /\ Len(run) < MaxRuns
    BY <1>6 DEF ServeStart
  <2>2. /\ sup'.cur = sup.cur /\ sup'.at = "link" /\ sup'.next.do = "answer" /\ sup'.next.to = t
        /\ sup'.queue = Tail(sup.queue)
    BY <1>2, <2>1 DEF Supervisors
  <2>3. /\ Held' /\ Waits'
        /\ \A i \in Body : /\ place'[i] = "none" <=> place[i] = "none"
                           /\ place'[i] = "done" <=> place[i] = "done"
        /\ \A u \in Thread : place'[u] = place[u]
    BY <1>3, <2>1, Unmoved
  <2> HIDE DEF t
  <2>4. Asks'
    BY <1>2, <2>2, <2>3, AsksServed DEF t
  <2>5. Doing'
    BY <1>6, <2>2 DEF Doing
  <2>6. \A i \in 1..Len(run) : run[i].task = "ended"
    BY <1>2, <1>6, Parts
  <2>7. Tended'
    BY <1>3, <2>1, <2>2, <2>3, <2>6, TendedAdded
  <2> QED BY <1>1, <2>3, <2>4, <2>5, <2>7
<1> QED BY <1>4, <1>5, <1>6
\* The current incarnation is told to stop.
LEMMA Stopping ==
  ASSUME IInv, sup.at = "serve", sup.cur # 0, UNCHANGED <<setup, place>>,
         NEW s \in Supervisors, s.cur = sup.cur, NEW n \in Follow,
         n.do = "restart" => Len(run) < MaxRuns, Stop(s, n)
  PROVE  /\ Doing' /\ Tended'
         /\ sup'.at = "stop" /\ sup'.next = n /\ sup'.queue = s.queue
<1> USE DEF IInv
<1> DEFINE r == [run[sup.cur] EXCEPT !.signal = TRUE]
<1>1. /\ sup'.at = "stop" /\ sup'.next = n /\ sup'.queue = s.queue /\ sup'.cur = sup.cur
      /\ sup.cur \in 1..Len(run) /\ r \in Incarnation /\ run' = [run EXCEPT ![sup.cur] = r]
  BY StopTypes
<1>2. run[sup.cur] \in Incarnation
  BY <1>1, Parts
<1>3. /\ r.task = run[sup.cur].task /\ r.ended = run[sup.cur].ended /\ r.signal
      /\ r.entries = run[sup.cur].entries /\ r.aborted = run[sup.cur].aborted
  BY <1>2 DEF Incarnation
<1> HIDE DEF r
<1>4. /\ Len(run') = Len(run) /\ run'[sup.cur] = r
      /\ \A j \in 1..Len(run) : j # sup.cur => run'[j] = run[j]
  BY <1>1, RunEdited
<1>5. Doing'
  BY <1>1, <1>3, <1>4 DEF Doing
<1>6. \A j \in 1..Len(run) :
        /\ run'[j].task = run[j].task /\ run'[j].ended = run[j].ended
        /\ run'[j].entries = run[j].entries /\ run'[j].aborted = run[j].aborted
        /\ run[j].signal => run'[j].signal
  BY <1>3, <1>4
<1>7. \A j \in 1..Len(run) : Current(j) => Current(j)'
  BY <1>1 DEF Current
<1>8. Tended'
  BY <1>4, <1>6, <1>7, TendedKept
<1> QED BY <1>1, <1>5, <1>8

\* A linked incarnation is listed.
LEMMA NextLink ==
  ASSUME IInv, LinkOk
  PROVE  IInv'
<1> USE DEF IInv
<1>1. VarTypes'
  BY TypesSupervises DEF Supervises
<1> DEFINE t == sup.next.to
<1>2. /\ sup.at = "link" /\ sup.cur = 0 /\ sup.next.do = "answer"
      /\ Returns(t) /\ UNCHANGED <<setup, gil, lock, box, run>>
      /\ sup' = [Resumed EXCEPT !.cur = Len(run)]
  BY DEF LinkOk, Doing
<1>3. /\ sup'.at = "serve" /\ sup'.next.do = "-" /\ sup'.queue = sup.queue /\ sup'.cur = Len(run)
  BY <1>2, ResumedTypes DEF Supervisors
<1>4. t \in Thread /\ place[t] = "ask"
  BY <1>2, TypesNow, FollowTypes DEF Supervisors, Asks
<1> HIDE DEF t
<1>5. /\ Held' /\ Waits'
      /\ \A i \in Body : /\ place'[i] = "none" <=> place[i] = "none"
                         /\ place'[i] = "done" <=> place[i] = "done"
      /\ \A u \in Thread : u # t => place'[u] = place[u]
  BY <1>2, <1>4, Answered
<1>6. Asks'
  BY <1>2, <1>3, <1>5, AsksAnswered DEF t
<1>7. Doing'
  BY <1>2, <1>3 DEF Doing
<1>8. \A i \in 1..Len(run) : Current(i) => Current(i)'
  BY <1>2, <1>3, Parts DEF Current
<1>9. Tended'
  BY <1>2, <1>5, <1>8, TendedKept
<1> QED BY <1>1, <1>5, <1>6, <1>7, <1>9

\* The incarnation that is given up has not begun, or begins just now.
LEMMA NextLinkTimesOut ==
  ASSUME IInv, LinkTimesOut
  PROVE  IInv'
<1> USE DEF IInv
<1>1. VarTypes'
  BY TypesSupervises DEF Supervises
<1> DEFINE t == sup.next.to
           n == Len(run)
<1>2. /\ sup.at = "link" /\ sup.cur = 0 /\ sup.next.do = "answer" /\ run[n].task = "start"
      /\ UNCHANGED <<setup, gil, lock, box>> /\ sup' = Resumed
  BY DEF LinkTimesOut, Doing
<1>3. /\ sup'.at = "serve" /\ sup'.next.do = "-" /\ sup'.queue = sup.queue /\ sup'.cur = 0
  BY <1>2, ResumedTypes
<1>4. t \in Thread /\ place[t] = "ask"
  BY <1>2, TypesNow, FollowTypes DEF Supervisors, Asks
<1>5. n \in 1..n /\ n \in Body /\ n \in Thread /\ run[n] \in Incarnation
  BY Parts DEF VarTypes
<1>6. place[n] = "none" /\ n # t /\ run[n].ended = "-" /\ (setup.callable.frames => run[n].entries <= 1)
  BY <1>2, <1>4, <1>5 DEF Tended
<1>7. PICK begun \in BOOLEAN :
        /\ run' = [run EXCEPT ![n] = [@ EXCEPT !.task = "ended", !.signal = TRUE,
                                      !.aborted = TRUE, !.watch = begun]]
        /\ place' = [place EXCEPT ![t] = "attach", ![n] = IF begun THEN "queued" ELSE @]
  BY DEF LinkTimesOut
<1> DEFINE r == [run[n] EXCEPT !.task = "ended", !.signal = TRUE, !.aborted = TRUE, !.watch = begun]
<1>8. /\ r \in Incarnation /\ r.task = "ended" /\ r.signal /\ r.aborted
      /\ r.ended = run[n].ended /\ r.entries = run[n].entries
  BY <1>5 DEF Incarnation
<1>9. run' = [run EXCEPT ![n] = r]
  BY <1>7
<1> HIDE DEF r
<1>10. /\ place'[t] = "attach" /\ place'[n] \in {"none", "queued"}
       /\ \A u \in Thread \ {t, n} : place'[u] = place[u]
  BY <1>4, <1>5, <1>6, <1>7 DEF VarTypes
<1> HIDE DEF t, n
<1>11. /\ Len(run') = n /\ run'[n] = r /\ \A j \in 1..n : j # n => run'[j] = run[j]
  BY <1>5, <1>8, <1>9, RunEdited DEF n
<1>12. \A u \in Thread : /\ place'[u] = "python" <=> place[u] = "python"
                         /\ place'[u] = "recv" <=> place[u] = "recv"
                         /\ place[u] = "send" => place'[u] = "send"
                         /\ place[u] = "ask" => place'[u] = "ask" \/ u = t
                         /\ place'[u] = "done" <=> place[u] = "done"
                         /\ u # n => (place'[u] = "none" <=> place[u] = "none")
  BY <1>4, <1>6, <1>10
<1>13. Held' /\ Waits'
  BY <1>2, <1>12, HeldQuiet, WaitsQuiet
<1>14. Asks'
  BY <1>2, <1>3, <1>12, AsksAnswered DEF t
<1>15. Doing'
  BY <1>3 DEF Doing
<1>16. ASSUME NEW i \in 1..n
       PROVE  /\ run'[i].task = "ended"
              /\ place'[i] = "done" <=> run'[i].ended # "-"
              /\ Pending(i)' => run'[i].aborted /\ run'[i].signal
              /\ setup'.callable.frames => run'[i].entries <= 1
  <2>1. CASE i = n
    BY <1>2, <1>6, <1>8, <1>10, <1>11, <2>1
  <2>2. CASE i # n
    <3>1. i \in Thread /\ i \in Body /\ i \in 1..Len(run) /\ run'[i] = run[i]
      BY <1>11, <2>2, Parts DEF n
    <3>2. run[i].task = "ended"
      BY <1>2, <2>2, <3>1 DEF Tended, Current, n
    <3>3. Pending(i)' => Pending(i)
      BY <1>12, <2>2, <3>1 DEF Pending
    <3> QED BY <1>2, <1>12, <3>1, <3>2, <3>3 DEF Tended
  <2> QED BY <2>1, <2>2
<1>17. \A i \in Body : i > n => place'[i] = "none"
  BY <1>5, <1>12, Parts DEF Tended, n
<1>18. Tended'
  BY <1>11, <1>16, <1>17 DEF Tended
<1> QED BY <1>1, <1>13, <1>14, <1>15, <1>18
\* A child that is not there is answered for at once, another is stopped.
LEMMA NextTerminate ==
  ASSUME IInv, ServeTerminate
  PROVE  IInv'
<1> USE DEF IInv
<1>1. VarTypes'
  BY TypesSupervises DEF Supervises
<1> DEFINE t == Head(sup.queue).by
           f == [do |-> "answer", to |-> t]
<1>2. /\ sup.at = "serve" /\ sup.next.do = "-" /\ sup.queue # <<>>
      /\ t \in Thread /\ place[t] = "ask" /\ IsAsk(Head(sup.queue))
      /\ Rest \in Supervisors /\ Rest.at = "serve" /\ Rest.cur = sup.cur /\ Rest.next = sup.next
      /\ Rest.queue = Tail(sup.queue)
  BY Serving DEF ServeTerminate
<1>3. UNCHANGED <<setup, gil, lock, box>>
  BY DEF ServeTerminate
<1>4. CASE sup.cur = 0
  <2>1. sup' = Rest /\ Returns(t) /\ UNCHANGED run
    BY <1>4 DEF ServeTerminate
  <2> HIDE DEF t
  <2>2. /\ Held' /\ Waits'
        /\ \A i \in Body : /\ place'[i] = "none" <=> place[i] = "none"
                           /\ place'[i] = "done" <=> place[i] = "done"
        /\ \A u \in Thread : u # t => place'[u] = place[u]
    BY <1>2, <1>3, <2>1, Answered
  <2>3. Asks'
    BY <1>2, <2>1, <2>2, AsksServed DEF t
  <2>4. Doing'
    BY <1>2, <2>1 DEF Doing
  <2>5. Tended'
    BY <1>2, <1>3, <2>1, <2>2, TendedKept DEF Current
  <2> QED BY <1>1, <2>2, <2>3, <2>4, <2>5
<1>5. CASE sup.cur # 0
  <2>1. Stop(Rest, f) /\ UNCHANGED place
    BY <1>5 DEF ServeTerminate
  <2>2. f \in Follow /\ f.do = "answer" /\ f.to = t
    BY <1>2, FollowTypes
  <2> HIDE DEF f, t
  <2>3. /\ Doing' /\ Tended'
        /\ sup'.at = "stop" /\ sup'.next = f /\ sup'.queue = Tail(sup.queue)
    BY <1>2, <1>3, <1>5, <2>1, <2>2, Stopping
  <2>4. Held' /\ Waits' /\ \A u \in Thread : place'[u] = place[u]
    BY <1>3, <2>1, Unmoved
  <2>5. Asks'
    BY <1>2, <2>2, <2>3, <2>4, AsksServed DEF t
  <2> QED BY <1>1, <2>3, <2>4, <2>5
<1> QED BY <1>4, <1>5

\* Nobody waits for an answer to the first letter.
LEMMA NextUnasked ==
  ASSUME IInv, ServeShutdown \/ ServeReport
  PROVE  IInv'
<1> USE DEF IInv
<1>1. VarTypes'
  BY TypesSupervises DEF Supervises
<1>2. /\ sup.at = "serve" /\ sup.next.do = "-" /\ sup.queue # <<>>
      /\ ~IsAsk(Head(sup.queue))
      /\ Rest \in Supervisors /\ Rest.at = "serve" /\ Rest.cur = sup.cur /\ Rest.next = sup.next
      /\ Rest.queue = Tail(sup.queue)
  BY Serving DEF ServeShutdown, ServeReport
<1>3. UNCHANGED <<setup, gil, lock, box, place>>
  BY DEF ServeShutdown, ServeReport
<1>4. Held' /\ Waits' /\ \A u \in Thread : place'[u] = place[u]
  BY <1>3, Unmoved
<1>5. ASSUME sup'.queue = Tail(sup.queue), sup'.next.do # "answer"
      PROVE  Asks'
  BY <1>2, <1>4, <1>5, AsksServed
<1>6. CASE sup.cur # 0
  <2>1. PICK n \in Follow : Stop(Rest, n) /\ n.do \in {"exit", "restart"}
                            /\ (n.do = "restart" => Len(run) < MaxRuns)
    <3>1. CASE Stop(Rest, [do |-> "exit"])
      BY <3>1, FollowTypes
    <3>2. CASE Stop(Rest, [do |-> "restart"]) /\ Len(run) < MaxRuns
      BY <3>2, FollowTypes
    <3> QED BY <1>6, <3>1, <3>2 DEF ServeShutdown, ServeReport
  <2>2. /\ Doing' /\ Tended'
        /\ sup'.at = "stop" /\ sup'.next = n /\ sup'.queue = Tail(sup.queue)
    BY <1>2, <1>3, <1>6, <2>1, Stopping
  <2> QED BY <1>1, <1>4, <1>5, <2>1, <2>2
<1>7. CASE sup.cur = 0
  <2>1. /\ sup'.cur = sup.cur /\ sup'.queue = Tail(sup.queue) /\ UNCHANGED run
        /\ \/ sup'.at = "stop" /\ sup'.next.do = "exit"
           \/ sup'.at = "serve" /\ sup'.next.do = "-"
    <3>1. UNCHANGED run /\ (sup' = Rest \/ sup' = [Rest EXCEPT !.at = "stop", !.next = [do |-> "exit"]])
      BY <1>7 DEF ServeShutdown, ServeReport
    <3>2. CASE sup' = Rest
      BY <1>2, <3>1, <3>2
    <3>3. CASE sup' = [Rest EXCEPT !.at = "stop", !.next = [do |-> "exit"]]
      BY <1>2, <3>1, <3>3 DEF Supervisors
    <3> QED BY <3>1, <3>2, <3>3
  <2>2. Doing'
    BY <1>7, <2>1 DEF Doing
  <2>3. Tended'
    BY <1>2, <1>3, <2>1, TendedKept DEF Current
  <2> QED BY <1>1, <1>4, <1>5, <2>1, <2>2, <2>3
<1> QED BY <1>6, <1>7

\* A sibling fails, and the worker is restarted with it.
LEMMA NextSibling ==
  ASSUME IInv, SiblingFails
  PROVE  IInv'
<1> USE DEF IInv
<1>1. VarTypes'
  BY TypesSupervises
<1> DEFINE n == [do |-> "restart"]
<1>2. /\ sup.at = "serve" /\ sup.cur # 0 /\ Len(run) < MaxRuns /\ Stop(sup, n)
      /\ UNCHANGED <<setup, gil, place, lock, box>>
  BY DEF SiblingFails
<1>3. n \in Follow /\ n.do = "restart" /\ sup \in Supervisors
  BY FollowTypes, TypesNow
<1> HIDE DEF n
<1>4. Doing' /\ Tended' /\ sup'.at = "stop" /\ sup'.next = n /\ sup'.queue = sup.queue
  BY <1>2, <1>3, Stopping
<1>5. Held' /\ Waits' /\ \A u \in Thread : place'[u] = place[u]
  BY <1>2, Unmoved
<1>6. Asks'
  BY <1>3, <1>4, <1>5, AsksAnswered
<1> QED BY <1>1, <1>4, <1>5, <1>6

\* The task is aborted after it was told: its body may go on.
LEMMA NextStopTimesOut ==
  ASSUME IInv, StopTimesOut
  PROVE  IInv'
<1> USE DEF IInv
<1>1. VarTypes'
  BY TypesSupervises DEF Supervises
<1> DEFINE i == sup.cur
           r == [run[i] EXCEPT !.task = "ended", !.aborted = TRUE]
<1>2. /\ sup.at = "stop" /\ i # 0 /\ run' = [run EXCEPT ![i] = r]
      /\ UNCHANGED <<setup, gil, place, lock, box, sup>>
  BY DEF StopTimesOut
<1>3. i \in 1..Len(run)
  BY <1>2, LenProperties DEF VarTypes
<1>4. run[i] \in Incarnation /\ run[i].signal
  BY <1>2, <1>3, Parts DEF Doing
<1>5. /\ r \in Incarnation /\ r.task = "ended" /\ r.aborted /\ r.signal
      /\ r.ended = run[i].ended /\ r.entries = run[i].entries
  BY <1>4 DEF Incarnation
<1> HIDE DEF r, i
<1>6. /\ Len(run') = Len(run) /\ run'[i] = r
      /\ \A j \in 1..Len(run) : j # i => run'[j] = run[j]
  BY <1>2, <1>3, <1>5, RunEdited
<1>7. Held' /\ Waits' /\ Asks'
  BY <1>2, Unmoved, AsksQuiet
<1>8. Doing'
  BY <1>2, <1>5, <1>6, DoingQuiet
<1>9. Tended'
  <2>1. (place[i] = "done" <=> run[i].ended # "-") /\ (setup.callable.frames => run[i].entries <= 1)
    BY <1>3 DEF Tended
  <2> QED BY <1>2, <1>3, <1>5, <2>1, TendedRun
<1> QED BY <1>1, <1>7, <1>8, <1>9

\* When the supervisor has stopped the current incarnation, all have ended.
LEMMA AllEnded ==
  ASSUME IInv, Stopped
  PROVE  \A i \in 1..Len(run) : run[i].task = "ended"
BY Parts DEF IInv, Stopped, Tended, Current

\* What follows when the incarnation has stopped.
LEMMA NextStopped ==
  ASSUME IInv, AnswerTerminate \/ Respawn \/ SupervisorReturns
  PROVE  IInv'
<1> USE DEF IInv
<1>1. VarTypes'
  BY TypesSupervises DEF Supervises
<1>2. UNCHANGED <<setup, gil, lock, box>>
  BY DEF AnswerTerminate, Respawn, SupervisorReturns
<1>3. \A i \in 1..Len(run) : run[i].task = "ended"
  BY AllEnded DEF AnswerTerminate, Respawn, SupervisorReturns
<1>4. CASE AnswerTerminate
  <2> DEFINE t == sup.next.to
  <2>1. /\ sup.next.do = "answer" /\ Returns(t) /\ UNCHANGED run
        /\ sup' = [Resumed EXCEPT !.cur = 0]
    BY <1>4 DEF AnswerTerminate
  <2>2. /\ sup'.at = "serve" /\ sup'.next.do = "-" /\ sup'.queue = sup.queue /\ sup'.cur = 0
    BY <2>1, ResumedTypes DEF Supervisors
  <2>3. t \in Thread /\ place[t] = "ask"
    BY <2>1, TypesNow, FollowTypes DEF Supervisors, Asks
  <2> HIDE DEF t
  <2>4. /\ Held' /\ Waits'
        /\ \A i \in Body : /\ place'[i] = "none" <=> place[i] = "none"
                           /\ place'[i] = "done" <=> place[i] = "done"
        /\ \A u \in Thread : u # t => place'[u] = place[u]
    BY <1>2, <2>1, <2>3, Answered
  <2>5. Asks'
    BY <2>1, <2>2, <2>4, AsksAnswered DEF t
  <2>6. Doing'
    BY <2>2 DEF Doing
  <2>7. Tended'
    BY <1>2, <1>3, <2>1, <2>4, TendedKept
  <2> QED BY <1>1, <2>4, <2>5, <2>6, <2>7
<1>5. CASE Respawn
  <2>1. /\ run' = Append(run, NewRun) /\ UNCHANGED place /\ Len(run) < MaxRuns
        /\ sup' = [Resumed EXCEPT !.cur = Len(run) + 1]
    BY <1>5 DEF Respawn, Doing
  <2>2. /\ sup'.at = "serve" /\ sup'.next.do = "-" /\ sup'.queue = sup.queue
        /\ sup'.cur = Len(run) + 1 /\ Len(run') = Len(run) + 1
    BY <2>1, ResumedTypes, RunAdded DEF Supervisors
  <2>3. Held' /\ Waits' /\ \A u \in Thread : place'[u] = place[u]
    BY <1>2, <2>1, Unmoved
  <2>4. Asks'
    BY <2>2, <2>3, AsksAnswered
  <2>5. Doing'
    BY <2>2 DEF Doing
  <2>6. Tended'
    BY <1>2, <1>3, <2>1, <2>2, TendedAdded
  <2> QED BY <1>1, <2>3, <2>4, <2>5, <2>6
<1>6. CASE SupervisorReturns
  <2>1. /\ sup'.at = "gone" /\ sup'.next.do = "-" /\ sup'.queue = <<>> /\ sup'.cur = 0
        /\ Len(sup'.queue) = 0 /\ UNCHANGED run
    BY <1>6 DEF SupervisorReturns
  <2>2. \A u \in Thread : /\ place'[u] = "python" <=> place[u] = "python"
                          /\ place'[u] = "recv" <=> place[u] = "recv"
                          /\ place[u] = "send" => place'[u] = "send"
                          /\ place'[u] = "done" <=> place[u] = "done"
                          /\ place'[u] = "none" <=> place[u] = "none"
    BY <1>6 DEF SupervisorReturns
  <2>3. Held' /\ Waits'
    BY <1>2, <2>2, HeldQuiet, WaitsQuiet
  <2>4. Asks'
    BY <2>1 DEF Asks
  <2>5. Doing'
    BY <2>1 DEF Doing
  <2>6. Tended'
    BY <1>2, <1>3, <2>1, <2>2, TendedKept, Parts
  <2> QED BY <1>1, <2>3, <2>4, <2>5, <2>6
<1> QED BY <1>4, <1>5, <1>6
(***************************************************************************)
(* The theorems.                                                           *)
(***************************************************************************)

\* It holds at first.
LEMMA InitInv == Init => IInv
<1> SUFFICES ASSUME Init PROVE IInv
  OBVIOUS
<1>1. MaxRuns \in Nat \ {0} /\ MaxUses \in Nat /\ MaxFaults \in Nat /\ Setups \subseteq Setup
  BY PythonAssumption
<1>2. setup.capacity \in Nat
  BY <1>1 DEF Init, Setup, MailboxConfig
<1>3. run \in Seq(Incarnation) /\ Len(run) = 1 /\ run[1] = NewRun
  <2>1. NewRun \in Incarnation
    BY DEF NewRun, Incarnation
  <2> QED BY <2>1 DEF Init
<1>4. /\ sup.at = "serve" /\ sup.next.do = "-" /\ sup.queue = <<>> /\ sup.cur = 1
      /\ Len(sup.queue) = 0 /\ sup \in Supervisors
  BY <1>1, FollowTypes, EmptySeq DEF Init, NewSup, Supervisors
<1>5. /\ box.capacity = setup.capacity /\ box.len = 0 /\ box.waiting = <<>> /\ box.granted = {}
      /\ box.open /\ Len(box.waiting) = 0 /\ box \in Boxes
  BY <1>2, EmptySeq DEF Init, NewMailbox, Boxes
<1>6. /\ \A t \in Thread : place[t] \in {"attach", "none"}
      /\ \A i \in Body : place[i] = "none" /\ i \in Thread
      /\ place \in [Thread -> Places] /\ gil = {} /\ lock = {}
  BY PythonAssumption DEF Init, Places, Thread, Body
<1>7. VarTypes
  BY <1>1, <1>3, <1>4, <1>5, <1>6 DEF Init, VarTypes, Boxes, Supervisors
<1>8. Held
  BY <1>6 DEF Held
<1>9. Waits
  <2>1. IsFiniteSet({}) /\ Cardinality({}) = 0
    BY FS_EmptySet
  <2>2. CapacityKept(box)
    BY <1>2, <1>5, <2>1 DEF CapacityKept, Bounded, Taken, HasRoom
  <2> QED BY <1>5, <2>1, <2>2 DEF Waits
<1>10. Asks
  BY <1>4 DEF Asks
<1>11. Doing
  BY <1>3, <1>4 DEF Doing
<1>12. Tended
  <2>1. \A i \in 1..Len(run) : i = 1 /\ i \in Body
    BY <1>1, <1>3 DEF Body
  <2>2. NewRun.task = "start" /\ NewRun.ended = "-" /\ NewRun.entries = 0
    BY DEF NewRun
  <2> QED BY <1>3, <1>4, <1>6, <2>1, <2>2 DEF Tended, Current
<1> QED BY <1>7, <1>8, <1>9, <1>10, <1>11, <1>12 DEF IInv

\* Every step keeps it.
LEMMA NextInv == IInv /\ [Next]_vars => IInv'
<1> SUFFICES ASSUME IInv, [Next]_vars PROVE IInv'
  OBVIOUS
<1>1. CASE UNCHANGED vars
  <2>1. UNCHANGED <<setup, gil, place, lock, box, run, sup, uses, faults>>
    BY <1>1 DEF vars
  <2>2. VarTypes'
    BY <2>1 DEF IInv, VarTypes
  <2> QED BY <2>1, <2>2, HeldQuiet, WaitsQuiet, AsksQuiet, DoingQuiet, TendedQuiet DEF IInv
<1>2. DOMAIN run = 1..Len(run)
  BY Parts DEF IInv
<1>3. CASE Supervises
  BY <1>3, NextQuery, NextStart, NextLink, NextLinkTimesOut, NextTerminate, NextUnasked,
     NextStopTimesOut, NextStopped DEF Supervises
<1>4. ASSUME NEW i \in DOMAIN run, Tasks(i) PROVE IInv'
  BY <1>2, <1>4, NextTask, NextPool, NextReturn DEF Tasks
<1>5. CASE Runtime
  BY <1>3, <1>4, <1>5, NextSend DEF Runtime
<1>6. ASSUME NEW t \in Thread, Attach(t) \/ Yield(t) \/ Lock(t) \/ Received(t) \/ Python(t)
      PROVE  IInv'
  BY <1>6, NextGil, NextReceive, NextSend, NextAsk DEF Python
<1>7. ASSUME NEW i \in DOMAIN run, EnterBody(i) \/ BodyObeys(i) \/ BodyReturns(i) \/ BodyRaises(i)
      PROVE  IInv'
  BY <1>2, <1>7, NextBody
<1> QED BY <1>1, <1>5, <1>6, <1>7, NextSibling, NextDrops DEF Next

\* The invariant holds in every reachable state.
THEOREM Invariant == Spec => []IInv
<1>1. Init => IInv
  BY InitInv
<1>2. IInv /\ [Next]_vars => IInv'
  BY NextInv
<1> QED BY <1>1, <1>2, PTL DEF Spec

\* The variables have their types, and the GIL, the mutex and the mailbox agree
\* with where the threads are (PyMailbox, block_on_without_gil).
THEOREM TypeCorrect == Spec => []TypeOK
<1>1. IInv => TypeOK
  <2> SUFFICES ASSUME IInv PROVE TypeOK
    OBVIOUS
  <2> USE DEF IInv
  <2>1. /\ gil = {} \/ \E t \in Thread : gil = {t}
        /\ lock = {} \/ \E t \in Thread : lock = {t}
    BY DEF Held
  <2>2. Cardinality({}) = 0 /\ \A t : Cardinality({t}) = 1
    BY FS_EmptySet, FS_Singleton
  <2>3. Cardinality(gil) <= 1 /\ Cardinality(lock) <= 1
    <3>1. Cardinality(gil) = 0 \/ Cardinality(gil) = 1
      BY <2>1, <2>2
    <3>2. Cardinality(lock) = 0 \/ Cardinality(lock) = 1
      BY <2>1, <2>2
    <3> QED BY <3>1, <3>2
  <2>4. \A t \in Thread : WaitsToSend(box, t) => place[t] = "send"
    BY Parts DEF Waits, WaitsToSend
  <2>5. \A i \in DOMAIN run : /\ run[i].task \in {"start", "run", "join", "ended"}
                              /\ (place[i] = "done") <=> (run[i].ended # "-")
    BY Parts DEF Tended, Incarnation
  <2>6. sup.at \in {"serve", "link", "stop", "gone"} /\ sup.cur \in 0..Len(run)
    BY LenProperties DEF VarTypes
  <2>7. /\ setup \in Setups /\ place \in [Thread -> Places]
        /\ gil \in SUBSET Thread /\ lock \in SUBSET Thread
        /\ Len(run) \in 1..MaxRuns /\ uses \in 0..MaxUses /\ faults \in 0..MaxFaults
    BY DEF VarTypes
  <2>8. \A t \in Thread : (gil = {t} <=> place[t] = "python") /\ (lock = {t} <=> place[t] = "recv")
    BY DEF Held
  <2> QED BY <2>3, <2>4, <2>5, <2>6, <2>7, <2>8 DEF TypeOK
<1> QED BY <1>1, Invariant, PTL

\* A bounded mailbox never holds more than its capacity, counting the places
\* given to senders that wait, and no sender waits beside a free place.
THEOREM CapacityHeld == Spec => []MailboxBounded
<1>1. IInv => MailboxBounded
  BY DEF IInv, Waits, MailboxBounded
<1> QED BY <1>1, Invariant, PTL

\* A body that works beside its successor outlived a task that was told to stop
\* and aborted for not doing so in time (PyWorker::shutdown).
THEOREM OverlapExplained == Spec => []NoSilentOverlap
<1>1. IInv => NoSilentOverlap
  <2> SUFFICES ASSUME IInv, NEW i \in DOMAIN run, NEW j \in DOMAIN run,
                      i < j, Alive(j), Pending(i)
               PROVE  run[i].aborted /\ run[i].signal
    BY DEF NoSilentOverlap
  <2> USE DEF IInv
  <2>1. i \in 1..Len(run) /\ j \in 1..Len(run) /\ Len(run) \in Nat
    BY Parts
  <2>2. CASE run[i].task = "ended"
    BY <2>1, <2>2 DEF Tended
  <2>3. CASE run[i].task # "ended"
    <3>1. Current(i)
      BY <2>1, <2>3 DEF Tended
    <3>2. i = Len(run)
      BY <2>1, <3>1 DEF Current, Doing
    <3> QED BY <2>1, <3>2
  <2> QED BY <2>2, <2>3
<1> QED BY <1>1, Invariant, PTL

\* A callable written in Python is entered at most once per incarnation
\* (call_with_optional_args, is_arity_error).
THEOREM NotEnteredAgain == Spec => []EnteredOnce
<1>1. IInv => EnteredOnce
  BY Parts DEF IInv, Tended, EnteredOnce
<1> QED BY <1>1, Invariant, PTL

================================================================================
