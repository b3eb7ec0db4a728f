----------------------------- MODULE BuilderProofs -----------------------------
(***************************************************************************)
(* What the builders of stateful specifications promise to the runtimes    *)
(* started from them, for all names, contexts and settings.                *)
(***************************************************************************)
EXTENDS StatefulSpecBuilder, SequenceTheorems, TLAPS

Forest == INSTANCE SpecTrees

CONSTANTS Name, Context

WorkerEntry == [id : Name, kind : {"Worker"}, policy : Policy, context : Context]
NestedEntry == [id : Name, kind : {"Supervisor"}, policy : Policy]
Entry == WorkerEntry \cup NestedEntry

Own == [name : Name, children : Seq(Entry), restart_strategy : Strategy,
        restart_intensity : [max_restarts : Nat, within_seconds : Nat],
        restart_backoff : [initial_delay : Nat, max_delay : Nat],
        shutdown_timeout : Nat, context : Context]

Specification == Seq(Own) \ {<<>>}

\* A worker is given the context of the specification that holds it, and no other:
\* the StatefulTree module keeps one store per specification because of this.
OwnContext(spec) ==
  \A n \in DOMAIN spec : \A i \in DOMAIN spec[n].children :
    spec[n].children[i].kind = "Worker" =>
      spec[n].children[i].context = spec[n].context

\* Every nested specification is a child of one before it, as StatefulTree assumes.
NestedFollow(spec) ==
  \A n \in DOMAIN spec : n > 1 =>
    \E p \in 1..(n - 1) : \E i \in DOMAIN spec[p].children :
      spec[p].children[i] = Nested(spec[n].name)

DistinctChildren(spec) ==
  \A i, j \in DOMAIN spec[1].children :
    spec[1].children[i].id = spec[1].children[j].id => i = j

Built(spec) == spec \in Specification /\ OwnContext(spec) /\ NestedFollow(spec)

-------------------------------------------------------------------------------
\* StatefulSupervisorSpec::new: a specification on its own, with its context.
LEMMA NewIsBuilt ==
  ASSUME NEW name \in Name, NEW context \in Context
  PROVE  Built(new(name, context)) /\ DistinctChildren(new(name, context))
BY DEF Built, Specification, Own, Entry, OwnContext, NestedFollow, DistinctChildren, new,
   Plain!exponential, Plain!DefaultBackoff, Plain!DefaultIntensity,
   Plain!DEFAULT_SHUTDOWN_TIMEOUT, Strategy

\* What two specifications have in common that differ in their settings.
SameButSettings(s, spec) ==
  /\ DOMAIN s = DOMAIN spec
  /\ \A n \in DOMAIN spec : /\ s[n].name = spec[n].name
                            /\ s[n].children = spec[n].children
                            /\ s[n].context = spec[n].context

\* The settings touch neither children nor contexts.
LEMMA SettingsKeep ==
  ASSUME NEW spec, Built(spec), NEW s \in Specification, SameButSettings(s, spec)
  PROVE  Built(s)
<1>1. spec \in Seq(Own) /\ 1 \in DOMAIN spec
  BY DEF Built, Specification
<1>2. OwnContext(s)
  BY DEF Built, OwnContext, SameButSettings
<1>3. NestedFollow(s)
  BY <1>1 DEF Built, NestedFollow, SameButSettings
<1>4. QED
  BY <1>2, <1>3 DEF Built

\* with_worker hands the new worker the context of its own specification.
LEMMA WorkerKeeps ==
  ASSUME NEW spec, Built(spec), NEW id \in Name, NEW policy \in Policy
  PROVE  Built(with_worker(spec, id, policy))
<1> DEFINE own == [spec[1] EXCEPT !.children =
                     Append(spec[1].children, Worker(id, policy, spec[1].context))]
           s == with_worker(spec, id, policy)
<1>1. spec \in Seq(Own) /\ 1 \in DOMAIN spec /\ spec[1] \in Own
  BY DEF Built, Specification
<1>2. spec[1].children \in Seq(Entry) /\ Worker(id, policy, spec[1].context) \in Entry
  BY <1>1 DEF Own, Entry, WorkerEntry, Worker
<1>3. Append(spec[1].children, Worker(id, policy, spec[1].context)) \in Seq(Entry)
  BY <1>2
<1>4. own \in Own
  BY <1>1, <1>3 DEF Own
<1>5. s = [spec EXCEPT ![1] = own]
  BY <1>1 DEF with_worker
<1>6. s \in Specification /\ DOMAIN s = DOMAIN spec
  BY <1>1, <1>4, <1>5 DEF Specification
<1>7. \A n \in DOMAIN spec : s[n] = IF n = 1 THEN own ELSE spec[n]
  BY <1>1, <1>5
<1>8. /\ own.name = spec[1].name
      /\ own.context = spec[1].context
      /\ own.children = Append(spec[1].children, Worker(id, policy, spec[1].context))
  BY <1>1 DEF Own
<1> HIDE DEF own, s
<1>9. OwnContext(s)
  <2> SUFFICES ASSUME NEW n \in DOMAIN spec, NEW i \in DOMAIN s[n].children,
                      s[n].children[i].kind = "Worker"
               PROVE  s[n].children[i].context = s[n].context
    BY <1>6 DEF OwnContext
  <2>1. CASE n # 1
    BY <2>1, <1>7 DEF Built, OwnContext
  <2>2. CASE n = 1 /\ i \in DOMAIN spec[1].children
    <3>1. s[n].children[i] = spec[1].children[i] /\ s[n].context = spec[1].context
      BY <2>2, <1>2, <1>7, <1>8
    <3>2. QED
      BY <3>1, <2>2, <1>1 DEF Built, OwnContext
  <2>3. CASE n = 1 /\ i \notin DOMAIN spec[1].children
    <3>1. s[n].children[i] = Worker(id, policy, spec[1].context)
      BY <2>3, <1>2, <1>7, <1>8
    <3>2. QED
      BY <3>1, <2>3, <1>7, <1>8 DEF Worker
  <2>4. QED
    BY <2>1, <2>2, <2>3
<1>10. NestedFollow(s)
  <2> SUFFICES ASSUME NEW n \in DOMAIN spec, n > 1
               PROVE  \E p \in 1..(n - 1) : \E i \in DOMAIN s[p].children :
                        s[p].children[i] = Nested(s[n].name)
    BY <1>6 DEF NestedFollow
  <2>1. PICK p \in 1..(n - 1) : \E i \in DOMAIN spec[p].children :
          spec[p].children[i] = Nested(spec[n].name)
    BY DEF Built, NestedFollow
  <2>2. p \in DOMAIN spec
    BY <1>1
  <2>3. \A i \in DOMAIN spec[p].children :
          i \in DOMAIN s[p].children /\ s[p].children[i] = spec[p].children[i]
    BY <2>2, <1>2, <1>7, <1>8
  <2>4. s[n].name = spec[n].name
    BY <1>7
  <2>5. QED
    BY <2>1, <2>3, <2>4
<1>11. QED
  BY <1>6, <1>9, <1>10 DEF Built, s

\* with_supervisor leaves the nested specification its own context, and puts it
\* behind the one that lists it.
LEMMA SupervisorKeeps ==
  ASSUME NEW spec, Built(spec), NEW supervisor, Built(supervisor)
  PROVE  Built(with_supervisor(spec, supervisor))
<1> DEFINE child == Nested(supervisor[1].name)
           own == [spec[1] EXCEPT !.children = Append(spec[1].children, child)]
           front == [spec EXCEPT ![1] = own]
           s == with_supervisor(spec, supervisor)
           N == Len(spec)
           M == Len(supervisor)
<1>1. /\ spec \in Seq(Own) /\ 1 \in DOMAIN spec /\ spec[1] \in Own
      /\ supervisor \in Seq(Own) /\ 1 \in DOMAIN supervisor /\ supervisor[1] \in Own
  BY DEF Built, Specification
<1>2. spec[1].children \in Seq(Entry) /\ child \in Entry
  BY <1>1 DEF Own, Entry, NestedEntry, Nested, Policy
<1>3. Append(spec[1].children, child) \in Seq(Entry)
  BY <1>2
<1>4. own \in Own
  BY <1>1, <1>3 DEF Own
<1>5. s = front \o supervisor
  BY <1>1 DEF with_supervisor
<1>6. front \in Seq(Own) /\ Len(front) = N
  BY <1>1, <1>4
<1>7. /\ s \in Seq(Own) /\ N \in Nat \ {0} /\ M \in Nat \ {0}
      /\ DOMAIN s = 1..(N + M) /\ DOMAIN spec = 1..N /\ DOMAIN supervisor = 1..M
  BY <1>1, <1>5, <1>6
<1>8. \A n \in 1..N : s[n] = IF n = 1 THEN own ELSE spec[n]
  BY <1>1, <1>5, <1>6, <1>7
<1>9. \A n \in (N + 1)..(N + M) : n - N \in 1..M /\ s[n] = supervisor[n - N]
  BY <1>1, <1>5, <1>6, <1>7
<1>10. /\ own.name = spec[1].name
       /\ own.context = spec[1].context
       /\ own.children = Append(spec[1].children, child)
  BY <1>1 DEF Own
<1> HIDE DEF own, front, s, N, M
<1>11. OwnContext(s)
  <2> SUFFICES ASSUME NEW n \in 1..(N + M), NEW i \in DOMAIN s[n].children,
                      s[n].children[i].kind = "Worker"
               PROVE  s[n].children[i].context = s[n].context
    BY <1>7 DEF OwnContext
  <2>1. CASE n > N
    <3>1. n - N \in DOMAIN supervisor /\ s[n] = supervisor[n - N]
      BY <2>1, <1>1, <1>7, <1>9
    <3>2. QED
      BY <3>1 DEF Built, OwnContext
  <2>2. CASE n <= N /\ n # 1
    <3>1. n \in DOMAIN spec /\ s[n] = spec[n]
      BY <2>2, <1>1, <1>7, <1>8
    <3>2. QED
      BY <3>1 DEF Built, OwnContext
  <2>3. CASE n = 1
    <3>1. s[1] = own
      BY <1>7, <1>8
    <3>2. CASE i \in DOMAIN spec[1].children
      BY <2>3, <3>1, <3>2, <1>1, <1>2, <1>10 DEF Built, OwnContext
    <3>3. CASE i \notin DOMAIN spec[1].children
      <4>1. s[n].children[i] = child
        BY <2>3, <3>1, <3>3, <1>2, <1>10
      <4>2. QED
        BY <4>1 DEF Nested
    <3>4. QED
      BY <3>2, <3>3
  <2>4. QED
    BY <2>1, <2>2, <2>3, <1>7
<1>12. NestedFollow(s)
  <2> SUFFICES ASSUME NEW n \in 1..(N + M), n > 1
               PROVE  \E p \in 1..(n - 1) : \E i \in DOMAIN s[p].children :
                        s[p].children[i] = Nested(s[n].name)
    BY <1>7 DEF NestedFollow
  <2>1. CASE n <= N
    <3>1. n \in DOMAIN spec /\ s[n].name = spec[n].name
      BY <2>1, <1>1, <1>7, <1>8
    <3>2. PICK p \in 1..(n - 1) : \E i \in DOMAIN spec[p].children :
            spec[p].children[i] = Nested(spec[n].name)
      BY <3>1 DEF Built, NestedFollow
    <3>3. \A i \in DOMAIN spec[p].children :
            i \in DOMAIN s[p].children /\ s[p].children[i] = spec[p].children[i]
      <4>1. CASE p = 1
        <5>1. s[p] = own
          BY <4>1, <1>7, <1>8
        <5>2. QED
          BY <4>1, <5>1, <1>2, <1>10
      <4>2. CASE p # 1
        <5>1. p \in 1..N
          BY <2>1, <1>7
        <5>2. s[p] = spec[p]
          BY <4>2, <5>1, <1>8
        <5>3. QED
          BY <5>2
      <4>3. QED
        BY <4>1, <4>2
    <3>4. QED
      BY <3>1, <3>2, <3>3
  <2>2. CASE n = N + 1
    <3>1. s[n].name = supervisor[1].name
      BY <2>2, <1>7, <1>9
    <3>2. s[1] = own /\ 1 \in 1..(n - 1)
      BY <2>2, <1>7, <1>8
    <3>3. \E i \in DOMAIN own.children : own.children[i] = child
      <4> DEFINE k == Len(spec[1].children) + 1
      <4>1. k \in DOMAIN own.children /\ own.children[k] = child
        BY <1>2, <1>10
      <4> HIDE DEF k
      <4>2. QED
        BY <4>1
    <3>4. child = Nested(s[n].name)
      BY <3>1
    <3> HIDE DEF child
    <3>5. QED
      BY <3>2, <3>3, <3>4
  <2>3. CASE n > N + 1
    <3>1. n - N \in DOMAIN supervisor /\ n - N > 1 /\ s[n] = supervisor[n - N]
      BY <2>3, <1>1, <1>7, <1>9
    <3>2. PICK p \in 1..((n - N) - 1) : \E i \in DOMAIN supervisor[p].children :
            supervisor[p].children[i] = Nested(supervisor[n - N].name)
      BY <3>1 DEF Built, NestedFollow
    <3>3. N + p \in 1..(n - 1) /\ s[N + p] = supervisor[p]
      BY <3>1, <3>2, <2>3, <1>7, <1>9
    <3>4. QED
      BY <3>1, <3>2, <3>3
  <2>4. QED
    BY <2>1, <2>2, <2>3, <1>7
<1>13. QED
  BY <1>7, <1>11, <1>12 DEF Built, Specification, s

-------------------------------------------------------------------------------
\* Whatever the builder's methods, the macro's steps and the Python class (add_worker,
\* add_supervisor, with_shutdown_timeout) make out of built specifications is one: the
\* workers of every specification of a tree share its context, whichever way and in
\* whichever order they were added, and a nested specification follows its parent.
THEOREM BuildersKeepContexts ==
  ASSUME NEW spec, Built(spec), NEW supervisor, Built(supervisor),
         NEW id \in Name, NEW policy \in Policy, NEW callable \in BOOLEAN,
         NEW strategy \in Strategy, NEW delay \in Nat, NEW seconds \in Int,
         NEW intensity \in [max_restarts : Nat, within_seconds : Nat]
  PROVE  /\ Built(with_worker(spec, id, policy))
         /\ Built(with_supervisor(spec, supervisor))
         /\ Built(with_restart_strategy(spec, strategy))
         /\ Built(with_restart_intensity(spec, intensity))
         /\ Built(with_restart_delay(spec, delay))
         /\ Built(with_shutdown_timeout(spec, delay))
         /\ Built(PyWithShutdownTimeout(spec, seconds))
         /\ Built(PyAddWorker(spec, id, policy, callable))
         /\ Built(PyAddSupervisor(spec, supervisor))
<1>1. spec \in Seq(Own) /\ 1 \in DOMAIN spec /\ spec[1] \in Own
  BY DEF Built, Specification
<1>2. Built(with_restart_strategy(spec, strategy))
  <2> DEFINE own == [spec[1] EXCEPT !.restart_strategy = strategy]
             s == with_restart_strategy(spec, strategy)
  <2>1. s = [spec EXCEPT ![1] = own]
    BY <1>1 DEF with_restart_strategy
  <2>2. own \in Own /\ own.name = spec[1].name /\ own.children = spec[1].children
          /\ own.context = spec[1].context
    BY <1>1 DEF Own, Plain!exponential
  <2> HIDE DEF own, s
  <2>3. s \in Specification /\ SameButSettings(s, spec)
    BY <1>1, <2>1, <2>2 DEF Specification, SameButSettings
  <2>4. Built(s)
    BY <2>3, SettingsKeep
  <2>5. QED
    BY <2>4 DEF s
<1>3. Built(with_restart_intensity(spec, intensity))
  <2> DEFINE own == [spec[1] EXCEPT !.restart_intensity = intensity]
             s == with_restart_intensity(spec, intensity)
  <2>1. s = [spec EXCEPT ![1] = own]
    BY <1>1 DEF with_restart_intensity
  <2>2. own \in Own /\ own.name = spec[1].name /\ own.children = spec[1].children
          /\ own.context = spec[1].context
    BY <1>1 DEF Own, Plain!exponential
  <2> HIDE DEF own, s
  <2>3. s \in Specification /\ SameButSettings(s, spec)
    BY <1>1, <2>1, <2>2 DEF Specification, SameButSettings
  <2>4. Built(s)
    BY <2>3, SettingsKeep
  <2>5. QED
    BY <2>4 DEF s
<1>4. Built(with_restart_delay(spec, delay))
  <2> DEFINE own == [spec[1] EXCEPT !.restart_backoff = Plain!exponential(delay, delay)]
             s == with_restart_delay(spec, delay)
  <2>1. s = [spec EXCEPT ![1] = own]
    BY <1>1 DEF with_restart_delay, with_restart_backoff
  <2>2. own \in Own /\ own.name = spec[1].name /\ own.children = spec[1].children
          /\ own.context = spec[1].context
    BY <1>1 DEF Own, Plain!exponential
  <2> HIDE DEF own, s
  <2>3. s \in Specification /\ SameButSettings(s, spec)
    BY <1>1, <2>1, <2>2 DEF Specification, SameButSettings
  <2>4. Built(s)
    BY <2>3, SettingsKeep
  <2>5. QED
    BY <2>4 DEF s
<1>5. \A timeout \in Nat : Built(with_shutdown_timeout(spec, timeout))
  <2> SUFFICES ASSUME NEW timeout \in Nat
               PROVE  Built(with_shutdown_timeout(spec, timeout))
    OBVIOUS
  <2> DEFINE own == [spec[1] EXCEPT !.shutdown_timeout = timeout]
             s == with_shutdown_timeout(spec, timeout)
  <2>1. s = [spec EXCEPT ![1] = own]
    BY <1>1 DEF with_shutdown_timeout
  <2>2. own \in Own /\ own.name = spec[1].name /\ own.children = spec[1].children
          /\ own.context = spec[1].context
    BY <1>1 DEF Own, Plain!exponential
  <2> HIDE DEF own, s
  <2>3. s \in Specification /\ SameButSettings(s, spec)
    BY <1>1, <2>1, <2>2 DEF Specification, SameButSettings
  <2>4. Built(s)
    BY <2>3, SettingsKeep
  <2>5. QED
    BY <2>4 DEF s
<1>6. Built(PyWithShutdownTimeout(spec, seconds))
  <2>1. CASE seconds >= 0
    <3>1. 1000 * seconds \in Nat
      BY <2>1
    <3>2. QED
      BY <3>1, <1>5 DEF PyWithShutdownTimeout
  <2>2. CASE ~(seconds >= 0)
    BY <2>2 DEF PyWithShutdownTimeout, Plain!duration_from_secs
  <2>3. QED
    BY <2>1, <2>2
<1>7. QED
  BY <1>2, <1>3, <1>4, <1>5, <1>6, WorkerKeeps, SupervisorKeeps
     DEF PyAddWorker, PyAddSupervisor

\* PyStatefulSupervisorSpec::add_worker: as long as a supervisor is added under a name
\* of its own (which add_supervisor does not check), no two children share an id.
THEOREM PythonIdsStayDistinct ==
  ASSUME NEW spec, Built(spec), DistinctChildren(spec), NEW supervisor, Built(supervisor),
         NEW id \in Name, NEW policy \in Policy, NEW callable \in BOOLEAN
  PROVE  /\ DistinctChildren(PyAddWorker(spec, id, policy, callable))
         /\ ~has_child(spec, supervisor[1].name) =>
              DistinctChildren(PyAddSupervisor(spec, supervisor))
<1>1. /\ spec \in Seq(Own) /\ 1 \in DOMAIN spec /\ spec[1] \in Own
      /\ supervisor \in Seq(Own)
  BY DEF Built, Specification
<1>2. spec[1].children \in Seq(Entry)
  BY <1>1 DEF Own
<1>3. ASSUME NEW entry, ~has_child(spec, entry.id), NEW s,
             s[1].children = Append(spec[1].children, entry)
      PROVE  DistinctChildren(s)
  BY <1>2, <1>3 DEF DistinctChildren, has_child
<1>4. DistinctChildren(PyAddWorker(spec, id, policy, callable))
  <2>1. CASE ~callable \/ has_child(spec, id)
    BY <2>1 DEF PyAddWorker
  <2>2. CASE ~(~callable \/ has_child(spec, id))
    <3> DEFINE entry == Worker(id, policy, spec[1].context)
    <3>1. PyAddWorker(spec, id, policy, callable) = with_worker(spec, id, policy)
      BY <2>2 DEF PyAddWorker
    <3>2. with_worker(spec, id, policy)[1].children = Append(spec[1].children, entry)
      BY <1>1 DEF with_worker, Own
    <3>3. entry.id = id
      BY DEF Worker
    <3> HIDE DEF entry
    <3>4. QED
      BY <2>2, <3>1, <3>2, <3>3, <1>3
  <2>3. QED
    BY <2>1, <2>2
<1>5. ASSUME ~has_child(spec, supervisor[1].name)
      PROVE  DistinctChildren(PyAddSupervisor(spec, supervisor))
  <2> DEFINE entry == Nested(supervisor[1].name)
             front == [spec EXCEPT ![1].children = Append(@, entry)]
  <2>1. front[1].children = Append(spec[1].children, entry)
    BY <1>1 DEF Own
  <2>2. front \in Seq(Own) /\ 1 \in DOMAIN front
    <3>1. supervisor[1].name \in Name
      <4>1. 1 \in DOMAIN supervisor /\ supervisor[1] \in Own
        BY DEF Built, Specification
      <4>2. QED
        BY <4>1 DEF Own
    <3>2. entry \in Entry
      BY <3>1 DEF Nested, Entry, NestedEntry, Policy
    <3>3. Append(spec[1].children, entry) \in Seq(Entry)
      BY <1>2, <3>2
    <3>4. [spec[1] EXCEPT !.children = Append(@, entry)] \in Own
      BY <1>1, <3>3 DEF Own
    <3>5. QED
      BY <1>1, <3>4
  <2>3. PyAddSupervisor(spec, supervisor) = front \o supervisor
    BY DEF PyAddSupervisor, with_supervisor
  <2>4. (front \o supervisor)[1] = front[1]
    BY <1>1, <2>2
  <2>5. entry.id = supervisor[1].name
    BY DEF Nested
  <2> HIDE DEF entry, front
  <2>6. QED
    BY <2>1, <2>3, <2>4, <2>5, <1>3, <1>5
<1>6. QED
  BY <1>4, <1>5

-------------------------------------------------------------------------------
\* Specifications that list the same nested ones under the same names.
LEMMA SameTree ==
  ASSUME NEW s, NEW spec, Forest!WellFormed(spec), NEW size \in Nat, s # <<>>,
         DOMAIN s = 1..size, DOMAIN spec = 1..size,
         \A n \in 1..size : /\ s[n].name = spec[n].name
                            /\ Forest!NestedIds(s, n) = Forest!NestedIds(spec, n)
                            /\ Forest!DistinctIds(s[n].children)
  PROVE  Forest!WellFormed(s)
<1>1. \A n \in DOMAIN s : n > 1 => \E p \in 1..(n - 1) : s[n].name \in Forest!NestedIds(s, p)
  <2> SUFFICES ASSUME NEW n \in 1..size, n > 1
               PROVE  \E p \in 1..(n - 1) : s[n].name \in Forest!NestedIds(s, p)
    OBVIOUS
  <2>1. PICK p \in 1..(n - 1) : spec[n].name \in Forest!NestedIds(spec, p)
    BY DEF Forest!WellFormed
  <2>2. p \in 1..size
    OBVIOUS
  <2> QED BY <2>1, <2>2
<1>2. \A p \in DOMAIN s : \A id \in Forest!NestedIds(s, p) :
        \E n \in DOMAIN s : p < n /\ s[n].name = id
  BY DEF Forest!WellFormed
<1>3. \A p, q, k, m \in DOMAIN s :
        /\ s[m].name \in Forest!NestedIds(s, p) /\ s[k].name \in Forest!NestedIds(s, q)
        /\ p < k /\ k <= m
        => p <= q
  BY DEF Forest!WellFormed
<1>4. /\ \A m, n \in DOMAIN s : s[m].name = s[n].name => m = n
      /\ \A p, q \in DOMAIN s :
           Forest!NestedIds(s, p) \cap Forest!NestedIds(s, q) # {} => p = q
  BY DEF Forest!WellFormed
<1> QED BY <1>1, <1>2, <1>3, <1>4 DEF Forest!WellFormed

\* The runtimes read names, ids and kinds off a specification as they are.
LEMMA NodesAlike ==
  ASSUME NEW spec \in Specification, Forest!WellFormed(spec)
  PROVE  Forest!WellFormed(Nodes(spec))
<1> DEFINE s == Nodes(spec)
           size == Len(spec)
<1>1. /\ size \in Nat \ {0} /\ DOMAIN spec = 1..size /\ DOMAIN s = 1..size /\ s # <<>>
  <2>1. spec \in Seq(Own) /\ spec # <<>>
    BY DEF Specification
  <2>2. size \in Nat \ {0} /\ DOMAIN spec = 1..size
    BY <2>1
  <2>3. DOMAIN s = 1..size
    BY <2>2 DEF Nodes
  <2> QED BY <2>2, <2>3
<1>2. ASSUME NEW n \in 1..size
      PROVE  /\ s[n].name = spec[n].name
             /\ DOMAIN s[n].children = DOMAIN spec[n].children
             /\ \A i \in DOMAIN spec[n].children :
                  /\ s[n].children[i].id = spec[n].children[i].id
                  /\ s[n].children[i].kind = spec[n].children[i].kind
  BY <1>1 DEF Nodes, Node
<1> HIDE DEF s, size
<1>3. ASSUME NEW n \in 1..size
      PROVE  /\ Forest!NestedIds(s, n) = Forest!NestedIds(spec, n)
             /\ Forest!DistinctIds(s[n].children)
  <2>1. Forest!DistinctIds(spec[n].children)
    BY <1>1, <1>3 DEF Forest!WellFormed
  <2>2. Forest!DistinctIds(s[n].children)
    BY <1>2, <1>3, <2>1 DEF Forest!DistinctIds
  <2>3. Forest!NestedIds(s, n) = Forest!NestedIds(spec, n)
    BY <1>2, <1>3 DEF Forest!NestedIds
  <2> QED BY <2>2, <2>3
<1>4. Forest!WellFormed(s)
  BY <1>1, <1>2, <1>3, SameTree
<1> QED BY <1>4 DEF s

\* The settings leave the tree as it is.
LEMMA SettingsKeepTree ==
  ASSUME NEW spec \in Specification, Forest!WellFormed(spec),
         NEW s \in Specification, SameButSettings(s, spec)
  PROVE  Forest!WellFormed(s)
<1> DEFINE size == Len(spec)
<1>1. size \in Nat /\ DOMAIN spec = 1..size /\ DOMAIN s = 1..size /\ s # <<>>
  BY DEF Specification, SameButSettings
<1> HIDE DEF size
<1>2. \A n \in 1..size : /\ s[n].name = spec[n].name
                         /\ Forest!NestedIds(s, n) = Forest!NestedIds(spec, n)
                         /\ Forest!DistinctIds(s[n].children)
  BY <1>1 DEF SameButSettings, Forest!NestedIds, Forest!WellFormed
<1> QED BY <1>1, <1>2, SameTree

\* A specification on its own is a tree.
LEMMA NewIsTree ==
  ASSUME NEW name \in Name, NEW context \in Context
  PROVE  Forest!WellFormed(new(name, context))
<1> DEFINE s == new(name, context)
<1>1. s # <<>> /\ DOMAIN s = 1..1 /\ s[1].children = <<>>
  BY DEF new
<1> HIDE DEF s
<1>2. Forest!NestedIds(s, 1) = {} /\ Forest!DistinctIds(s[1].children)
  BY <1>1 DEF Forest!NestedIds, Forest!DistinctIds
<1>3. \A n \in DOMAIN s : n = 1
  BY <1>1
<1>4. Forest!WellFormed(s)
  BY <1>1, <1>2, <1>3 DEF Forest!WellFormed
<1> QED BY <1>4 DEF s

\* A worker under an id of its own.
LEMMA WorkerKeepsTree ==
  ASSUME NEW spec \in Specification, Forest!WellFormed(spec), NEW id \in Name,
         NEW policy \in Policy, ~has_child(spec, id)
  PROVE  Forest!WellFormed(with_worker(spec, id, policy))
<1> DEFINE size == Len(spec)
           w == Worker(id, policy, spec[1].context)
           cs == spec[1].children
           new_cs == Append(cs, w)
           s == with_worker(spec, id, policy)
<1>1. /\ spec \in Seq(Own) /\ size \in Nat \ {0} /\ DOMAIN spec = 1..size /\ spec[1] \in Own
      /\ cs \in Seq(Entry) /\ w.id = id /\ w.kind = "Worker"
  <2>1. spec \in Seq(Own) /\ spec # <<>>
    BY DEF Specification
  <2>2. size \in Nat \ {0} /\ DOMAIN spec = 1..size /\ spec[1] \in Own
    BY <2>1
  <2>3. cs \in Seq(Entry)
    BY <2>2 DEF Own
  <2>4. w.id = id /\ w.kind = "Worker"
    BY DEF Worker
  <2> QED BY <2>1, <2>2, <2>3, <2>4
<1>2. /\ DOMAIN s = 1..size /\ s # <<>> /\ s[1].name = spec[1].name /\ s[1].children = new_cs
      /\ \A n \in 2..size : s[n] = spec[n]
  BY <1>1 DEF with_worker, Own
<1>3. DOMAIN new_cs = DOMAIN cs \cup {Len(cs) + 1} /\ Len(cs) + 1 \notin DOMAIN cs
      /\ new_cs[Len(cs) + 1] = w /\ \A i \in DOMAIN cs : new_cs[i] = cs[i]
  BY <1>1
<1>4. Forest!DistinctIds(cs)
  BY <1>1 DEF Forest!WellFormed
<1>5. \A i \in DOMAIN cs : cs[i].id # id
  BY DEF has_child
<1>6. "Supervisor" # "Worker"
  OBVIOUS
<1> DEFINE last == Len(cs) + 1
<1> HIDE DEF s, size, w, cs, new_cs, last
<1>7. Forest!DistinctIds(s[1].children)
  BY <1>1, <1>2, <1>3, <1>4, <1>5 DEF Forest!DistinctIds, last
<1>8. Forest!NestedIds(s, 1) = Forest!NestedIds(spec, 1)
  BY <1>1, <1>2, <1>3, <1>6 DEF Forest!NestedIds, cs
<1>9. ASSUME NEW n \in 1..size
      PROVE  /\ s[n].name = spec[n].name
             /\ Forest!NestedIds(s, n) = Forest!NestedIds(spec, n)
             /\ Forest!DistinctIds(s[n].children)
  <2>1. CASE n = 1
    BY <1>2, <1>7, <1>8, <2>1
  <2>2. CASE n # 1
    <3>1. s[n] = spec[n] /\ n \in DOMAIN spec
      BY <1>1, <1>2, <2>2
    <3> QED BY <3>1 DEF Forest!NestedIds, Forest!WellFormed
  <2> QED BY <2>1, <2>2
<1>10. Forest!WellFormed(s)
  BY <1>1, <1>2, <1>9, SameTree
<1> QED BY <1>10 DEF s

\* Whatever is listed comes later.
LEMMA ListedLater ==
  ASSUME NEW spec, Forest!WellFormed(spec), NEW p \in DOMAIN spec,
         NEW id \in Forest!NestedIds(spec, p)
  PROVE  \E n \in DOMAIN spec : p < n /\ spec[n].name = id
BY DEF Forest!WellFormed

\* The names of two trees differ.
NamesApart(spec, supervisor) ==
  \A n \in DOMAIN spec, m \in DOMAIN supervisor : spec[n].name # supervisor[m].name

\* Another tree, with names of its own, becomes the last subtree.
LEMMA SupervisorKeepsTree ==
  ASSUME NEW spec \in Specification, Forest!WellFormed(spec),
         NEW supervisor \in Specification, Forest!WellFormed(supervisor),
         NamesApart(spec, supervisor), ~has_child(spec, supervisor[1].name)
  PROVE  Forest!WellFormed(with_supervisor(spec, supervisor))
<1> DEFINE child == Nested(supervisor[1].name)
           cs == spec[1].children
           new_cs == Append(cs, child)
           own == [spec[1] EXCEPT !.children = new_cs]
           front == [spec EXCEPT ![1] = own]
           s == with_supervisor(spec, supervisor)
           N == Len(spec)
           M == Len(supervisor)
           last == Len(cs) + 1
<1>1. /\ spec \in Seq(Own) /\ N \in Nat \ {0} /\ DOMAIN spec = 1..N /\ spec[1] \in Own
      /\ supervisor \in Seq(Own) /\ M \in Nat \ {0} /\ DOMAIN supervisor = 1..M
      /\ supervisor[1] \in Own /\ cs \in Seq(Entry)
      /\ child.id = supervisor[1].name /\ child.kind = "Supervisor"
  <2>1. spec \in Seq(Own) /\ spec # <<>> /\ supervisor \in Seq(Own) /\ supervisor # <<>>
    BY DEF Specification
  <2>2. N \in Nat \ {0} /\ DOMAIN spec = 1..N /\ spec[1] \in Own
    BY <2>1
  <2>3. M \in Nat \ {0} /\ DOMAIN supervisor = 1..M /\ supervisor[1] \in Own
    BY <2>1
  <2>4. cs \in Seq(Entry)
    BY <2>2 DEF Own
  <2>5. child.id = supervisor[1].name /\ child.kind = "Supervisor"
    BY DEF Nested
  <2> QED BY <2>1, <2>2, <2>3, <2>4, <2>5
<1>2. child \in Entry
  BY <1>1 DEF Own, Entry, NestedEntry, Nested, Policy
<1>3. own \in Own /\ own.name = spec[1].name /\ own.children = new_cs
  <2>1. new_cs \in Seq(Entry)
    BY <1>1, <1>2
  <2> HIDE DEF new_cs
  <2> QED BY <1>1, <2>1 DEF Own
<1>4. DOMAIN new_cs = DOMAIN cs \cup {last} /\ last \notin DOMAIN cs
      /\ new_cs[last] = child /\ \A i \in DOMAIN cs : new_cs[i] = cs[i]
  BY <1>1
<1>5. s = front \o supervisor
  BY <1>1 DEF with_supervisor
<1> HIDE DEF own
<1>6. front \in Seq(Own) /\ Len(front) = N /\ front[1] = own /\ \A n \in 2..N : front[n] = spec[n]
  BY <1>1, <1>3
<1>7. /\ s \in Seq(Own) /\ DOMAIN s = 1..(N + M) /\ s # <<>>
      /\ s[1] = own /\ \A n \in 2..N : s[n] = spec[n]
      /\ \A n \in 1..M : s[N + n] = supervisor[n]
  <2> HIDE DEF front, s
  <2>1. /\ front \o supervisor \in Seq(Own)
        /\ Len(front \o supervisor) = Len(front) + Len(supervisor)
        /\ \A n \in 1..(Len(front) + Len(supervisor)) :
             (front \o supervisor)[n] =
               IF n <= Len(front) THEN front[n] ELSE supervisor[n - Len(front)]
    BY <1>1, <1>6, ConcatProperties
  <2>2. Len(front) = N /\ Len(supervisor) = M
    BY <1>6
  <2> HIDE DEF N, M
  <2>3. s \in Seq(Own) /\ DOMAIN s = 1..(N + M)
    BY <1>1, <1>5, <2>1, <2>2
  <2>4. \A n \in 1..(N + M) : s[n] = IF n <= N THEN front[n] ELSE supervisor[n - N]
    BY <1>5, <2>1, <2>2
  <2>5. \A n \in 2..N : n \in 1..(N + M) /\ n <= N
    BY <1>1
  <2>6. \A n \in 1..M : N + n \in 1..(N + M) /\ ~(N + n <= N) /\ (N + n) - N = n
    BY <1>1
  <2>7. 1 \in 1..(N + M) /\ 1 <= N
    BY <1>1
  <2>8. s # <<>>
    <3>1. 1 \in DOMAIN s
      BY <2>3, <2>7
    <3> QED BY <3>1
  <2>9. s[1] = own
    BY <1>6, <2>4, <2>7
  <2>10. \A n \in 2..N : s[n] = spec[n]
    BY <1>6, <2>4, <2>5
  <2>11. \A n \in 1..M : s[N + n] = supervisor[n]
    BY <2>4, <2>6
  <2> QED BY <2>3, <2>8, <2>9, <2>10, <2>11
<1>8. \A i \in DOMAIN cs : cs[i].id # child.id
  BY <1>1 DEF has_child
<1>9. Forest!DistinctIds(cs)
  BY <1>1 DEF Forest!WellFormed
<1> HIDE DEF s, front, new_cs, cs, child, last, N, M
<1>10. Forest!DistinctIds(s[1].children)
  BY <1>3, <1>4, <1>7, <1>8, <1>9 DEF Forest!DistinctIds
\* what is nested in whom
<1>11. Forest!NestedIds(s, 1) = Forest!NestedIds(spec, 1) \cup {supervisor[1].name}
  <2>1. /\ s[1].children = new_cs /\ DOMAIN new_cs = DOMAIN cs \cup {last}
        /\ new_cs[last].id = supervisor[1].name /\ new_cs[last].kind = "Supervisor"
        /\ \A i \in DOMAIN cs : new_cs[i] = cs[i]
    BY <1>1, <1>3, <1>4, <1>7
  <2>2. Forest!NestedIds(s, 1) = {new_cs[i].id : i \in {j \in DOMAIN new_cs : new_cs[j].kind = "Supervisor"}}
    BY <2>1 DEF Forest!NestedIds
  <2>3. Forest!NestedIds(spec, 1) = {cs[i].id : i \in {j \in DOMAIN cs : cs[j].kind = "Supervisor"}}
    BY DEF Forest!NestedIds, cs
  <2> QED BY <2>1, <2>2, <2>3
<1>12. \A n \in 2..N : Forest!NestedIds(s, n) = Forest!NestedIds(spec, n)
  BY <1>7 DEF Forest!NestedIds
<1>13. \A n \in 1..M : Forest!NestedIds(s, N + n) = Forest!NestedIds(supervisor, n)
  BY <1>7 DEF Forest!NestedIds
<1>14. /\ \A n \in 1..N : s[n].name = spec[n].name
       /\ \A n \in 1..M : s[N + n].name = supervisor[n].name
  BY <1>1, <1>3, <1>7
\* a place in the joined tree is one in either tree
<1>15. \A n \in 1..(N + M) : n \in 1..N \/ \E k \in 1..M : n = N + k
  <2> SUFFICES ASSUME NEW n \in 1..(N + M), n \notin 1..N
               PROVE  \E k \in 1..M : n = N + k
    OBVIOUS
  <2>1. n - N \in 1..M /\ n = N + (n - N)
    BY <1>1
  <2> QED BY <2>1

\* the names of either tree name places of their own
<1>16. /\ \A n \in 1..N, m \in 1..M : spec[n].name # supervisor[m].name
       /\ \A n, m \in 1..N : spec[n].name = spec[m].name => n = m
       /\ \A n, m \in 1..M : supervisor[n].name = supervisor[m].name => n = m
  BY <1>1 DEF NamesApart, Forest!WellFormed
<1>17. /\ \A p \in 1..N : \A id \in Forest!NestedIds(spec, p) :
            \E n \in 1..N : p < n /\ spec[n].name = id
       /\ \A p \in 1..M : \A id \in Forest!NestedIds(supervisor, p) :
            \E n \in 1..M : p < n /\ supervisor[n].name = id
  <2>1. \A p \in 1..N : \A id \in Forest!NestedIds(spec, p) :
          \E n \in 1..N : p < n /\ spec[n].name = id
    BY <1>1, ListedLater
  <2>2. \A p \in 1..M : \A id \in Forest!NestedIds(supervisor, p) :
          \E n \in 1..M : p < n /\ supervisor[n].name = id
    BY <1>1, ListedLater
  <2> QED BY <2>1, <2>2
\* the parent of a place
<1>18. ASSUME NEW n \in 1..N, NEW p \in 1..(N + M), s[n].name \in Forest!NestedIds(s, p)
       PROVE  p \in 1..N /\ spec[n].name \in Forest!NestedIds(spec, p)
  <2>1. s[n].name = spec[n].name
    BY <1>14
  <2>2. CASE p \in 1..N
    BY <1>1, <1>11, <1>12, <1>16, <1>18, <2>1, <2>2
  <2>3. ASSUME NEW k \in 1..M, p = N + k PROVE FALSE
    BY <1>13, <1>16, <1>17, <1>18, <2>1, <2>3
  <2> QED BY <1>15, <2>2, <2>3
<1>19. ASSUME NEW n \in 1..M, NEW p \in 1..(N + M), s[N + n].name \in Forest!NestedIds(s, p)
       PROVE  \/ n = 1 /\ p = 1
              \/ \E k \in 1..M : /\ p = N + k /\ k < n
                                 /\ supervisor[n].name \in Forest!NestedIds(supervisor, k)
  <2>1. s[N + n].name = supervisor[n].name
    BY <1>14
  <2>2. CASE p \in 1..N
    <3>1. supervisor[n].name \notin Forest!NestedIds(spec, p)
      BY <1>16, <1>17, <2>2
    <3>2. p = 1 /\ supervisor[n].name = supervisor[1].name
      BY <1>1, <1>11, <1>12, <1>19, <2>1, <2>2, <3>1
    <3> QED BY <1>1, <1>16, <3>2
  <2>3. ASSUME NEW k \in 1..M, p = N + k
        PROVE  k < n /\ supervisor[n].name \in Forest!NestedIds(supervisor, k)
    <3>1. supervisor[n].name \in Forest!NestedIds(supervisor, k)
      BY <1>13, <1>19, <2>1, <2>3
    <3>2. PICK m \in 1..M : k < m /\ supervisor[m].name = supervisor[n].name
      BY <1>17, <3>1
    <3> QED BY <1>16, <3>1, <3>2
  <2> QED BY <1>15, <2>2, <2>3
\* the clauses of WellFormed
<1>20. ASSUME NEW m \in 1..(N + M), NEW n \in 1..(N + M), s[m].name = s[n].name
       PROVE  m = n
  <2>1. CASE m \in 1..N /\ n \in 1..N
    BY <1>14, <1>16, <1>20, <2>1
  <2>2. ASSUME NEW j \in 1..M, NEW k \in 1..M, m = N + j, n = N + k PROVE m = n
    BY <1>14, <1>16, <1>20, <2>2
  <2>3. ASSUME NEW j \in 1..M, \/ m = N + j /\ n \in 1..N
                               \/ n = N + j /\ m \in 1..N
        PROVE  FALSE
    BY <1>14, <1>16, <1>20, <2>3
  <2> QED BY <1>15, <2>1, <2>2, <2>3
<1>21. ASSUME NEW n \in 1..(N + M)
       PROVE  Forest!DistinctIds(s[n].children)
  <2>1. CASE n \in 1..N /\ n # 1
    <3>1. s[n] = spec[n] /\ n \in DOMAIN spec
      BY <1>1, <1>7, <2>1
    <3> QED BY <3>1 DEF Forest!WellFormed
  <2>2. ASSUME NEW k \in 1..M, n = N + k PROVE Forest!DistinctIds(s[n].children)
    <3>1. s[n] = supervisor[k] /\ k \in DOMAIN supervisor
      BY <1>1, <1>7, <2>2
    <3> QED BY <3>1 DEF Forest!WellFormed
  <2> QED BY <1>10, <1>15, <2>1, <2>2
<1>22. ASSUME NEW n \in 1..(N + M), n > 1
       PROVE  \E p \in 1..(n - 1) : s[n].name \in Forest!NestedIds(s, p)
  <2>1. CASE n \in 1..N
    <3>1. PICK p \in 1..(n - 1) : spec[n].name \in Forest!NestedIds(spec, p)
      BY <1>1, <1>22, <2>1 DEF Forest!WellFormed
    <3>2. p \in 1..N /\ (p = 1 \/ p \in 2..N)
      BY <1>1, <2>1
    <3> QED BY <1>11, <1>12, <1>14, <2>1, <3>1, <3>2
  <2>2. ASSUME NEW k \in 1..M, n = N + k, k > 1
        PROVE  \E p \in 1..(n - 1) : s[n].name \in Forest!NestedIds(s, p)
    <3>1. PICK p \in 1..(k - 1) : supervisor[k].name \in Forest!NestedIds(supervisor, p)
      BY <1>1, <2>2 DEF Forest!WellFormed
    <3>2. p \in 1..M /\ N + p \in 1..(n - 1)
      BY <1>1, <2>2
    <3> QED BY <1>13, <1>14, <2>2, <3>1, <3>2
  <2>3. CASE n = N + 1
    <3>1. s[n].name = supervisor[1].name /\ 1 \in 1..(n - 1)
      BY <1>1, <1>14, <2>3
    <3> QED BY <1>11, <3>1
  <2>4. \A k \in 1..M : k > 1 \/ k = 1
    BY <1>1
  <2> QED BY <1>15, <2>1, <2>2, <2>3, <2>4
<1>23. ASSUME NEW p \in 1..(N + M), NEW id \in Forest!NestedIds(s, p)
       PROVE  \E n \in 1..(N + M) : p < n /\ s[n].name = id
  <2>1. ASSUME p \in 1..N, id \in Forest!NestedIds(spec, p)
        PROVE  \E n \in 1..(N + M) : p < n /\ s[n].name = id
    <3>1. PICK n \in 1..N : p < n /\ spec[n].name = id
      BY <1>17, <2>1
    <3>2. n \in 1..(N + M)
      BY <1>1
    <3> QED BY <1>14, <3>1, <3>2
  <2>2. ASSUME p = 1, id = supervisor[1].name
        PROVE  \E n \in 1..(N + M) : p < n /\ s[n].name = id
    <3>1. N + 1 \in 1..(N + M) /\ 1 < N + 1 /\ s[N + 1].name = id
      BY <1>1, <1>14, <2>2
    <3> QED BY <2>2, <3>1
  <2>3. ASSUME NEW k \in 1..M, p = N + k
        PROVE  \E n \in 1..(N + M) : p < n /\ s[n].name = id
    <3>1. PICK n \in 1..M : k < n /\ supervisor[n].name = id
      BY <1>13, <1>17, <2>3
    <3>2. N + n \in 1..(N + M) /\ p < N + n
      BY <1>1, <2>3, <3>1
    <3> QED BY <1>14, <3>1, <3>2
  <2>4. p \in 1..N => p = 1 \/ p \in 2..N
    BY <1>1
  <2> QED BY <1>11, <1>12, <1>15, <1>23, <2>1, <2>2, <2>3, <2>4
<1>24. ASSUME NEW p \in 1..(N + M), NEW q \in 1..(N + M),
              Forest!NestedIds(s, p) \cap Forest!NestedIds(s, q) # {}
       PROVE  p = q
  <2>1. PICK id \in Forest!NestedIds(s, p) : id \in Forest!NestedIds(s, q)
    BY <1>24
  <2>2. PICK n \in 1..(N + M) : s[n].name = id
    BY <1>23, <2>1
  <2>3. CASE n \in 1..N
    <3>1. /\ p \in 1..N /\ spec[n].name \in Forest!NestedIds(spec, p)
          /\ q \in 1..N /\ spec[n].name \in Forest!NestedIds(spec, q)
      BY <1>18, <2>1, <2>2, <2>3
    <3> QED BY <1>1, <3>1 DEF Forest!WellFormed
  <2>4. ASSUME NEW k \in 1..M, n = N + k PROVE p = q
    <3>1. \/ k = 1 /\ p = 1
          \/ \E j \in 1..M : /\ p = N + j /\ j < k
                             /\ supervisor[k].name \in Forest!NestedIds(supervisor, j)
      BY <1>19, <2>1, <2>2, <2>4
    <3>2. \/ k = 1 /\ q = 1
          \/ \E j \in 1..M : /\ q = N + j /\ j < k
                             /\ supervisor[k].name \in Forest!NestedIds(supervisor, j)
      BY <1>19, <2>1, <2>2, <2>4
    <3>3. \A i, j \in 1..M : supervisor[k].name \in Forest!NestedIds(supervisor, i)
                               /\ supervisor[k].name \in Forest!NestedIds(supervisor, j) => i = j
      BY <1>1 DEF Forest!WellFormed
    <3>4. \A j \in 1..M : ~(j < 1)
      BY <1>1
    <3> QED BY <3>1, <3>2, <3>3, <3>4
  <2> QED BY <1>15, <2>3, <2>4
<1>25. ASSUME NEW p \in 1..(N + M), NEW q \in 1..(N + M), NEW k \in 1..(N + M), NEW m \in 1..(N + M),
              s[m].name \in Forest!NestedIds(s, p), s[k].name \in Forest!NestedIds(s, q),
              p < k, k <= m
       PROVE  p <= q
  <2>1. CASE m \in 1..N
    <3>1. k \in 1..N
      BY <1>1, <1>25, <2>1
    <3>2. /\ p \in 1..N /\ spec[m].name \in Forest!NestedIds(spec, p)
          /\ q \in 1..N /\ spec[k].name \in Forest!NestedIds(spec, q)
      BY <1>18, <1>25, <2>1, <3>1
    <3> QED BY <1>1, <1>25, <2>1, <3>1, <3>2 DEF Forest!WellFormed
  <2>2. CASE p = 1
    BY <1>1, <2>2
  <2>3. ASSUME NEW n \in 1..M, m = N + n, p # 1 PROVE p <= q
    <3>1. PICK i \in 1..M : p = N + i /\ i < n
                            /\ supervisor[n].name \in Forest!NestedIds(supervisor, i)
      BY <1>19, <1>25, <2>3
    <3>2. PICK j \in 1..M : k = N + j /\ i < j /\ j <= n /\ j # 1
      <4>1. k - N \in 1..M /\ k = N + (k - N) /\ i < k - N /\ k - N <= n /\ k - N # 1
        BY <1>1, <1>25, <2>3, <3>1
      <4> QED BY <4>1
    <3>3. PICK l \in 1..M : q = N + l /\ supervisor[j].name \in Forest!NestedIds(supervisor, l)
      BY <1>19, <1>25, <3>2
    <3>4. i <= l
      BY <1>1, <3>1, <3>2, <3>3 DEF Forest!WellFormed
    <3> QED BY <1>1, <3>1, <3>3, <3>4
  <2> QED BY <1>15, <2>1, <2>2, <2>3
<1>26. DOMAIN s = 1..(N + M) /\ s # <<>>
  BY <1>7
<1>27. Forest!WellFormed(s)
  BY <1>20, <1>21, <1>22, <1>23, <1>24, <1>25, <1>26 DEF Forest!WellFormed
<1> QED BY <1>27 DEF s

\* What the builder's methods, the macro's steps and the Python class make out of
\* specifications is what StatefulTree assumes of a tree (WellFormed), as long as no
\* name is used twice.  add_worker sees to that for its own id; nothing else does.
THEOREM BuildersYieldTrees ==
  ASSUME NEW spec, Built(spec), Forest!WellFormed(spec),
         NEW supervisor, Built(supervisor), Forest!WellFormed(supervisor),
         NEW name \in Name, NEW context \in Context,
         NEW id \in Name, NEW policy \in Policy, NEW callable \in BOOLEAN,
         NEW s \in Specification, SameButSettings(s, spec)
  PROVE  /\ Forest!WellFormed(Nodes(new(name, context)))
         /\ Forest!WellFormed(Nodes(s))
         /\ ~has_child(spec, id) => Forest!WellFormed(Nodes(with_worker(spec, id, policy)))
         /\ Forest!WellFormed(Nodes(PyAddWorker(spec, id, policy, callable)))
         /\ NamesApart(spec, supervisor) /\ ~has_child(spec, supervisor[1].name) =>
              /\ Forest!WellFormed(Nodes(with_supervisor(spec, supervisor)))
              /\ Forest!WellFormed(Nodes(PyAddSupervisor(spec, supervisor)))
<1>1. spec \in Specification /\ supervisor \in Specification
  BY DEF Built
<1>2. Forest!WellFormed(Nodes(new(name, context)))
  BY NewIsBuilt, NewIsTree, NodesAlike DEF Built
<1>3. Forest!WellFormed(Nodes(s))
  BY <1>1, SettingsKeepTree, NodesAlike
<1>4. ~has_child(spec, id) => Forest!WellFormed(Nodes(with_worker(spec, id, policy)))
  BY <1>1, WorkerKeeps, WorkerKeepsTree, NodesAlike DEF Built
<1>5. Forest!WellFormed(Nodes(PyAddWorker(spec, id, policy, callable)))
  BY <1>1, <1>4, NodesAlike DEF PyAddWorker
<1>6. NamesApart(spec, supervisor) /\ ~has_child(spec, supervisor[1].name) =>
        Forest!WellFormed(Nodes(with_supervisor(spec, supervisor)))
  BY <1>1, SupervisorKeeps, SupervisorKeepsTree, NodesAlike DEF Built
<1> QED BY <1>2, <1>3, <1>4, <1>5, <1>6 DEF PyAddSupervisor

================================================================================
