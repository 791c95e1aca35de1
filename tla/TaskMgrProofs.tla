----------------------------- MODULE TaskMgrProofs -----------------------------
(***************************************************************************)
(* Proofs about TaskMgr, for any tasks and any finite set of workers.  The *)
(* invariant says that a task is at one place: in the queue once, or with  *)
(* one worker, or with the http client while its worker waits for it.      *)
(***************************************************************************)
EXTENDS TaskMgr, FiniteSetTheorems, TLAPS

(* The conjuncts of TypeOK, those of Boolean variables apart. *)
Types ==
    /\ tasks \in Seq(Task)
    /\ taskMap \subseteq Task
    /\ worker \in [Worker -> [pc : {"loop", "waiting", "create", "future", "done"},
                              task : Task \cup {None}]]
    /\ client \in [Task -> {"none", "started", "called", "set", "released"}]
    /\ submitted \subseteq Task
    /\ handled \in [Task -> Nat]

Flags ==
    /\ stop \in BOOLEAN
    /\ destroyed \in BOOLEAN

(* The queue has each of its tasks once, and no worker has them. *)
Queue ==
    /\ \A i \in 1 .. Len(tasks) :
        /\ tasks[i] \in submitted
        /\ client[tasks[i]] = "none"
        /\ \A w \in Worker : worker[w].task # tasks[i]
    /\ \A i, j \in 1 .. Len(tasks) : tasks[i] = tasks[j] => i = j

(* A worker in "future" waits for the client it has started. *)
Busy ==
    \A w \in Worker :
        /\ worker[w].task = None <=> worker[w].pc \notin {"create", "future"}
        /\ worker[w].pc = "create" =>
            worker[w].task \in submitted /\ client[worker[w].task] = "none"
        /\ worker[w].pc = "future" => client[worker[w].task] # "none"

Apart ==
    \A v, w \in Worker :
        worker[v].task = worker[w].task => v = w \/ worker[v].task = None

Clients ==
    \A t \in Task :
        /\ client[t] # "none" => t \in submitted
        /\ client[t] \in {"started", "called"} => \E w \in Worker : worker[w] = At("future", t)
        /\ handled[t] = IF client[t] \in {"none", "started"} THEN 0 ELSE 1

Mapped == taskMap = {t \in submitted : client[t] # "released"}

Ended ==
    /\ \A w \in Worker : worker[w].pc = "done" => stop
    /\ destroyed => stop /\ \A w \in Worker : worker[w].pc = "done"

(* The inductive invariant. *)
IInv == Types /\ Flags /\ Queue /\ Busy /\ Apart /\ Clients /\ Mapped /\ Ended

LEMMA InitIInv == Init => IInv
<1> SUFFICES ASSUME Init PROVE IInv
  OBVIOUS
<1>1. Types
  BY DEF Init, Types, At
<1>2. Flags
  BY Zenon DEF Init, Flags
<1>3. Queue /\ Clients /\ Mapped
  BY DEF Init, Queue, Clients, Mapped
<1>4. Busy /\ Apart
  BY TaskMgrAssumption DEF Init, Busy, Apart, At
<1>5. Ended
  BY DEF Init, Ended, At
<1> QED
  BY <1>1, <1>2, <1>3, <1>4, <1>5 DEF IInv

(* What a notification does to the workers: those that waited may loop. *)
Woken ==
    /\ worker' \in [Worker -> [pc : {"loop", "waiting", "create", "future", "done"},
                               task : Task \cup {None}]]
    /\ \A w \in Worker :
        /\ worker'[w].task = worker[w].task
        /\ \/ worker'[w] = worker[w]
           \/ worker[w].pc = "waiting" /\ worker'[w].pc = "loop"

LEMMA NotifyOneWakes == ASSUME Types, Busy, NotifyOne PROVE Woken
<1>1. CASE Waiting = {} /\ UNCHANGED worker
  BY <1>1 DEF Woken, Types
<1>2. ASSUME NEW w \in Waiting, worker' = [worker EXCEPT ![w] = At("loop", None)] PROVE Woken
  BY <1>2 DEF Woken, Types, Busy, Waiting, At
<1> QED
  BY <1>1, <1>2 DEF NotifyOne

LEMMA StopWakes == ASSUME Types, Busy, Stop PROVE Woken
  BY DEF Woken, Types, Busy, Stop, At

(* A notification leaves what is said of the workers as it was. *)
LEMMA WokenKeeps ==
    ASSUME Types, Busy, Apart, Woken, UNCHANGED client, submitted \subseteq submitted'
    PROVE  Busy' /\ Apart'
  BY DEF Types, Busy, Apart, Woken

(* Every step keeps the invariant. *)
LEMMA NextIInv == IInv /\ [Next]_vars => IInv'
<1> SUFFICES ASSUME IInv, [Next]_vars PROVE IInv'
  OBVIOUS
<1> USE DEF IInv
<1>1. ASSUME NEW t \in Task, AddTask(t) PROVE IInv'
  <2>1. Woken
    BY <1>1, NotifyOneWakes DEF AddTask
  <2>2. Types'
    BY <1>1, <2>1 DEF AddTask, Types, Woken
  <2>3. Flags'
    BY Zenon, <1>1 DEF AddTask, Flags
  <2>4. client[t] = "none"
    BY <1>1 DEF AddTask, Clients, Types
  <2>5. \A w \in Worker : worker[w].task # t
    BY <1>1, TaskMgrAssumption DEF AddTask, Busy, Clients, Types
  <2>6. Queue'
    <3>1. /\ Len(tasks') = Len(tasks) + 1
          /\ \A i \in 1 .. Len(tasks) : tasks'[i] = tasks[i]
          /\ tasks'[Len(tasks) + 1] = t
          /\ Len(tasks) \in Nat
      BY <1>1 DEF AddTask, Types
    <3>2. \A i \in 1 .. Len(tasks) : tasks[i] # t
      BY <1>1 DEF AddTask, Queue
    <3> QED
      BY <1>1, <2>1, <2>4, <2>5, <3>1, <3>2 DEF AddTask, Queue, Woken
  <2>7. Busy' /\ Apart'
    BY <1>1, <2>1, WokenKeeps DEF AddTask
  <2>8. Clients'
    BY <1>1, <2>1 DEF AddTask, Clients, Woken, At, Types
  <2>9. Mapped'
    BY <1>1, <2>4 DEF AddTask, Mapped
  <2>10. Ended'
    BY <1>1, <2>1 DEF AddTask, Ended, Woken
  <2> QED
    BY <2>2, <2>3, <2>6, <2>7, <2>8, <2>9, <2>10
<1>2. ASSUME NEW t \in Task, Callback(t) PROVE IInv'
  <2>1. Types'
    BY <1>2 DEF Callback, Types
  <2>2. Flags'
    BY Zenon, <1>2 DEF Callback, Flags
  <2>3. Queue'
    BY <1>2 DEF Callback, Queue, Types
  <2>4. Busy' /\ Apart'
    BY <1>2 DEF Callback, Busy, Apart, Types
  <2>5. Clients'
    BY <1>2 DEF Callback, Clients, Types
  <2>6. Mapped'
    BY <1>2 DEF Callback, Mapped, Types
  <2>7. Ended'
    BY <1>2 DEF Callback, Ended
  <2> QED
    BY <2>1, <2>2, <2>3, <2>4, <2>5, <2>6, <2>7
<1>3. ASSUME NEW t \in Task, SetValue(t) PROVE IInv'
  <2>1. Types'
    BY <1>3 DEF SetValue, Types
  <2>2. Flags'
    BY Zenon, <1>3 DEF SetValue, Flags
  <2>3. Queue'
    BY <1>3 DEF SetValue, Queue, Types
  <2>4. Busy' /\ Apart'
    BY <1>3 DEF SetValue, Busy, Apart, Types
  <2>5. Clients'
    BY <1>3 DEF SetValue, Clients, Types
  <2>6. Mapped'
    BY <1>3 DEF SetValue, Mapped, Types
  <2>7. Ended'
    BY <1>3 DEF SetValue, Ended
  <2> QED
    BY <2>1, <2>2, <2>3, <2>4, <2>5, <2>6, <2>7
<1>4. ASSUME NEW t \in Task, Release(t) PROVE IInv'
  <2>1. Types'
    BY <1>4 DEF Release, Types
  <2>2. Flags'
    BY Zenon, <1>4 DEF Release, Flags
  <2>3. Queue'
    BY <1>4 DEF Release, Queue, Types
  <2>4. Busy' /\ Apart'
    BY <1>4 DEF Release, Busy, Apart, Types
  <2>5. Clients'
    BY <1>4 DEF Release, Clients, Types
  <2>6. Mapped'
    BY <1>4 DEF Release, Mapped, Types
  <2>7. Ended'
    BY <1>4 DEF Release, Ended
  <2> QED
    BY <2>1, <2>2, <2>3, <2>4, <2>5, <2>6, <2>7
<1>5. ASSUME NEW w \in Worker, Loop(w) PROVE IInv'
  <2>1. worker[w].pc = "loop" /\ worker[w].task = None
    BY <1>5 DEF Loop, Busy
  <2>2. Flags'
    BY Zenon, <1>5 DEF Loop, Flags
  <2>3. Mapped'
    BY <1>5 DEF Loop, Mapped
  <2>4. CASE /\ stop \/ tasks = <<>>
             /\ UNCHANGED tasks
             /\ \/ stop /\ worker' = [worker EXCEPT ![w] = At("done", None)]
                \/ ~stop /\ worker' = [worker EXCEPT ![w] = At("waiting", None)]
    <3>1. Types'
      BY <1>5, <2>4 DEF Loop, Types, At
    <3>2. \A v \in Worker : /\ worker'[v].task = worker[v].task
                            /\ v # w => worker'[v] = worker[v]
      BY <2>1, <2>4 DEF Types, At
    <3>5. worker'[w].pc \in {"done", "waiting"}
      BY <2>4 DEF Types, At
    <3>6. Queue'
      BY <1>5, <2>4, <3>2 DEF Loop, Queue
    <3>7. Busy'
      BY <1>5, <2>1, <3>2, <3>5 DEF Loop, Busy
    <3>8. Apart'
      BY <3>2 DEF Apart
    <3>3. Clients'
      BY <1>5, <2>1, <2>4 DEF Loop, Clients, Types, At
    <3>4. Ended'
      BY <1>5, <2>1, <2>4 DEF Loop, Ended, Types, At
    <3> QED
      BY <2>2, <2>3, <3>1, <3>3, <3>4, <3>6, <3>7, <3>8
  <2>5. CASE /\ ~stop
             /\ tasks # <<>>
             /\ worker' = [worker EXCEPT ![w] = At("create", Head(tasks))]
             /\ tasks' = Tail(tasks)
    <3>1. /\ tasks' \in Seq(Task)
          /\ Len(tasks) \in Nat \ {0}
          /\ Len(tasks') = Len(tasks) - 1
          /\ \A i \in 1 .. Len(tasks') : tasks'[i] = tasks[i + 1]
          /\ Head(tasks) = tasks[1]
          /\ Head(tasks) \in Task
      BY <2>5 DEF Types
    <3>2. Types'
      BY <1>5, <2>5, <3>1 DEF Loop, Types, At
    <3>8. /\ \A v \in Worker \ {w} : worker'[v] = worker[v]
          /\ worker'[w].pc = "create"
          /\ worker'[w].task = tasks[1]
      BY <2>5, <3>1 DEF Types, At
    <3>9. /\ tasks[1] \in submitted
          /\ tasks[1] # None
          /\ client[tasks[1]] = "none"
          /\ \A v \in Worker : worker[v].task # tasks[1]
          /\ \A i \in 1 .. Len(tasks') : tasks'[i] # tasks[1]
      BY <3>1, TaskMgrAssumption DEF Queue
    <3>10. UNCHANGED <<submitted, client>>
      BY <1>5 DEF Loop
    <3>3. Queue'
      <4>1. ASSUME NEW i \in 1 .. Len(tasks')
            PROVE  /\ tasks'[i] \in submitted'
                   /\ client'[tasks'[i]] = "none"
                   /\ \A v \in Worker : worker'[v].task # tasks'[i]
        <5>1. i + 1 \in 1 .. Len(tasks) /\ tasks'[i] = tasks[i + 1]
          BY <3>1
        <5> QED
          BY <5>1, <3>8, <3>9, <3>10 DEF Queue
      <4>2. ASSUME NEW i \in 1 .. Len(tasks'), NEW j \in 1 .. Len(tasks'), tasks'[i] = tasks'[j]
            PROVE  i = j
        BY <4>2, <3>1 DEF Queue
      <4> QED
        BY <4>1, <4>2 DEF Queue
    <3>4. Busy'
      BY <3>8, <3>9, <3>10 DEF Busy
    <3>5. Apart'
      BY <3>8, <3>9 DEF Apart
    <3>6. Clients'
      BY <1>5, <2>1, <2>5 DEF Loop, Clients, Types, At
    <3>7. Ended'
      BY <1>5, <2>1, <2>5 DEF Loop, Ended, Types, At
    <3> QED
      BY <2>2, <2>3, <3>2, <3>3, <3>4, <3>5, <3>6, <3>7
  <2> QED
    BY <1>5, <2>4, <2>5 DEF Loop
<1>6. ASSUME NEW w \in Worker, Start(w) PROVE IInv'
  <2> DEFINE t == worker[w].task
  <2>1. /\ t \in Task
        /\ t \in submitted
        /\ client[t] = "none"
    BY <1>6 DEF Start, Busy, Types
  <2>2. Types'
    BY <1>6 DEF Start, Types
  <2>3. Flags'
    BY Zenon, <1>6 DEF Start, Flags
  <2>4. Queue'
    BY <1>6, <2>1 DEF Start, Queue, Types
  <2>5. Busy' /\ Apart'
    BY <1>6, <2>1 DEF Start, Busy, Apart, Types
  <2>6. Clients'
    BY <1>6, <2>1 DEF Start, Clients, Types, At
  <2>7. Mapped'
    BY <1>6, <2>1 DEF Start, Mapped, Types
  <2>8. Ended'
    BY <1>6 DEF Start, Ended, Types
  <2> QED
    BY <2>2, <2>3, <2>4, <2>5, <2>6, <2>7, <2>8
<1>7. ASSUME NEW w \in Worker, CreateFails(w) PROVE IInv'
  <2> DEFINE t == worker[w].task
  <2>1. /\ t \in Task
        /\ t \in submitted
        /\ client[t] = "none"
        /\ handled[t] = 0
    BY <1>7 DEF CreateFails, Busy, Clients, Types
  <2>2. Types'
    BY <1>7, <2>1 DEF CreateFails, Types, At
  <2>3. Flags'
    BY Zenon, <1>7 DEF CreateFails, Flags
  <2>4. Queue'
    BY <1>7, <2>1, TaskMgrAssumption DEF CreateFails, Queue, Types, At
  <2>5. Busy' /\ Apart'
    BY <1>7, <2>1 DEF CreateFails, Busy, Apart, Types, At
  <2>6. Clients'
    BY <1>7, <2>1 DEF CreateFails, Clients, Types, At
  <2>7. Mapped'
    BY <1>7, <2>1 DEF CreateFails, Mapped, Types
  <2>8. Ended'
    BY <1>7 DEF CreateFails, Ended, Types, At
  <2> QED
    BY <2>2, <2>3, <2>4, <2>5, <2>6, <2>7, <2>8
<1>8. ASSUME NEW w \in Worker, FutureReady(w) PROVE IInv'
  <2>1. Types'
    BY <1>8 DEF FutureReady, Types, At
  <2>2. Flags'
    BY Zenon, <1>8 DEF FutureReady, Flags
  <2>3. Queue'
    BY <1>8, TaskMgrAssumption DEF FutureReady, Queue, Types, At
  <2>4. Busy' /\ Apart'
    BY <1>8 DEF FutureReady, Busy, Apart, Types, At
  <2>5. Clients'
    BY <1>8 DEF FutureReady, Clients, Types, At
  <2>6. Mapped'
    BY <1>8 DEF FutureReady, Mapped
  <2>7. Ended'
    BY <1>8 DEF FutureReady, Ended, Types, At
  <2> QED
    BY <2>1, <2>2, <2>3, <2>4, <2>5, <2>6, <2>7
<1>9. CASE Stop
  <2>1. Woken
    BY <1>9, StopWakes
  <2>2. Types'
    BY <1>9, <2>1 DEF Stop, Types, Woken
  <2>3. Flags'
    BY Zenon, <1>9 DEF Stop, Flags
  <2>4. Queue'
    BY <1>9, <2>1 DEF Stop, Queue, Woken
  <2>5. Busy' /\ Apart'
    BY <1>9, <2>1, WokenKeeps DEF Stop
  <2>6. Clients' /\ Mapped'
    BY <1>9, <2>1 DEF Stop, Clients, Mapped, Woken, At
  <2>7. Ended'
    BY <1>9, <2>1 DEF Stop, Ended, Woken
  <2> QED
    BY <2>2, <2>3, <2>4, <2>5, <2>6, <2>7
<1>10. CASE Destroy
  <2>1. Types' /\ Queue' /\ Busy' /\ Apart' /\ Clients' /\ Mapped'
    BY <1>10 DEF Destroy, Types, Queue, Busy, Apart, Clients, Mapped
  <2>2. Flags'
    BY Zenon, <1>10 DEF Destroy, Flags
  <2>3. Ended'
    BY <1>10 DEF Destroy, Ended
  <2> QED
    BY <2>1, <2>2, <2>3
<1>11. CASE UNCHANGED vars
  <2>1. Types' /\ Queue' /\ Busy' /\ Apart' /\ Clients' /\ Mapped' /\ Ended'
    BY <1>11 DEF vars, Types, Queue, Busy, Apart, Clients, Mapped, Ended
  <2>2. Flags'
    BY Zenon, <1>11 DEF vars, Flags
  <2> QED
    BY <2>1, <2>2
<1> QED
  BY <1>1, <1>2, <1>3, <1>4, <1>5, <1>6, <1>7, <1>8, <1>9, <1>10, <1>11
     DEF Next, WorkerStep, ClientStep
-----------------------------------------------------------------------------
(* A task is at one place, and what is at the client is waited for. *)
THEOREM SpecIInv == Spec => []IInv
  BY InitIInv, NextIInv, PTL DEF Spec

(* All variables keep their types. *)
THEOREM SpecTypeOK == Spec => []TypeOK
<1>1. IInv => TypeOK
  <2> SUFFICES ASSUME IInv PROVE TypeOK
    OBVIOUS
  <2>1. Types /\ Flags
    BY DEF IInv
  <2> QED
    BY Zenon, <2>1 DEF Types, Flags, TypeOK
<1> QED
  BY <1>1, SpecIInv, PTL

(* When IsIdle holds every task added has been handled and released: the   *)
(* agent that unloads on it loses none (AppDomainVerifyTaskMgr::IsIdle).   *)
THEOREM SpecIdleMeansHandled == Spec => []IdleMeansHandled
<1>1. IInv => IdleMeansHandled
  BY DEF IInv, Types, Clients, Mapped, IdleMeansHandled, IsIdle
<1> QED
  BY <1>1, SpecIInv, PTL

(* When the destructor has returned no worker runs and no handler is under *)
(* way (~AppDomainVerifyTaskMgr).                                          *)
THEOREM SpecDestroyedIsQuiet == Spec => []DestroyedIsQuiet
<1>1. IInv => DestroyedIsQuiet
  <2> SUFFICES ASSUME IInv, destroyed PROVE DestroyedIsQuiet
    BY DEF DestroyedIsQuiet
  <2>1. \A w \in Worker : worker[w].pc = "done"
    BY DEF IInv, Ended
  <2>2. ASSUME NEW t \in Task PROVE client[t] \in {"none", "set", "released"}
    <3>1. ASSUME NEW w \in Worker, worker[w] = At("future", t) PROVE FALSE
      <4>1. worker[w].pc = "future"
        BY <3>1 DEF At
      <4> QED
        BY <4>1, <2>1
    <3>2. client[t] \notin {"started", "called"}
      BY <3>1 DEF IInv, Clients
    <3>3. client[t] \in {"none", "started", "called", "set", "released"}
      BY DEF IInv, Types
    <3> QED
      BY <3>2, <3>3
  <2>3. ASSUME NEW t \in submitted
        PROVE  \/ handled[t] = 1 /\ client[t] \in {"set", "released"}
               \/ handled[t] = 0 /\ client[t] = "none"
    BY <2>2 DEF IInv, Types, Clients
  <2> QED
    BY <2>1, <2>3 DEF DestroyedIsQuiet
<1> QED
  BY <1>1, SpecIInv, PTL
-----------------------------------------------------------------------------
(* What HandleOnce calls taken. *)
Taken == {t \in Task : client[t] # "none" \/ \E w \in Worker : worker[w].task = t}

(* Each task that is taken and not handled has a worker of its own: a      *)
(* worker that has none leaves room in the pool.                           *)
LEMMA RoomInPool ==
    ASSUME IInv, NEW w \in Worker, worker[w].task = None
    PROVE  Cardinality({u \in Taken : handled[u] = 0}) < Cardinality(Worker)
<1> DEFINE S == {u \in Taken : handled[u] = 0}
           Others == Worker \ {w}
           f == [u \in S |-> CHOOSE v \in Worker : worker[v].task = u]
<1>1. ASSUME NEW u \in S PROVE \E v \in Worker : worker[v].task = u
  <2>1. u \in Task /\ client[u] \in {"none", "started"}
    BY DEF Taken, IInv, Clients, Types
  <2>2. CASE client[u] = "none"
    BY <2>2 DEF Taken
  <2>3. CASE client[u] = "started"
    <3>1. PICK v \in Worker : worker[v] = At("future", u)
      BY <2>1, <2>3 DEF IInv, Clients
    <3>2. worker[v].task = u
      BY <3>1 DEF At
    <3> QED
      BY <3>2
  <2> QED
    BY <2>1, <2>2, <2>3
<1>2. ASSUME NEW u \in S PROVE f[u] \in Others /\ worker[f[u]].task = u
  <2>1. f[u] \in Worker /\ worker[f[u]].task = u
    BY <1>1
  <2>2. u # None
    BY TaskMgrAssumption DEF Taken
  <2> QED
    BY <2>1, <2>2
<1>3. f \in Injection(S, Others)
  <2>1. f \in [S -> Others]
    BY <1>2
  <2>2. \A u, v \in S : f[u] = f[v] => u = v
    BY <1>2
  <2> QED
    BY <2>1, <2>2 DEF Injection, IsInjective
<1>4. IsFiniteSet(Others) /\ Cardinality(Others) = Cardinality(Worker) - 1
  BY FS_RemoveElement, TaskMgrAssumption
<1>5. Cardinality(S) <= Cardinality(Others) /\ IsFiniteSet(S)
  <2> HIDE DEF S, Others, f
  <2> QED
    BY <1>3, <1>4, FS_Injection
<1>6. Cardinality(S) \in Int /\ Cardinality(Worker) \in Int
  BY <1>5, FS_CardinalityType, TaskMgrAssumption
<1> QED
  BY <1>4, <1>5, <1>6

(* The cardinality HandleOnce speaks of is the usual one. *)
LEMMA SameCardinality == \A S : Pool!Cardinality(S) = Cardinality(S)
  BY Zenon DEF Pool!Cardinality, Cardinality

LEMMA InitHandlesOnce == Init => Pool!Init
  BY TaskMgrAssumption DEF Init, Pool!Init, At

(* Every step of the pool is one of HandleOnce, or none. *)
LEMMA NextHandlesOnce == IInv /\ [Next]_vars => [Pool!Next]_(Pool!vars)
<1> SUFFICES ASSUME IInv, [Next]_vars PROVE [Pool!Next]_(Pool!vars)
  OBVIOUS
<1> DEFINE Stutters == UNCHANGED <<submitted, Taken, handled, stop>>
<1>a. Stutters => [Pool!Next]_(Pool!vars)
  BY DEF Pool!vars, Taken
<1> USE DEF IInv
<1>1. ASSUME NEW t \in Task, AddTask(t) PROVE Pool!Submit(t)
  <2>1. Woken
    BY <1>1, NotifyOneWakes DEF AddTask
  <2>2. Taken' = Taken
    BY <1>1, <2>1 DEF AddTask, Woken, Taken
  <2> QED
    BY <1>1, <2>2 DEF AddTask, Pool!Submit, Taken
<1>2. ASSUME NEW t \in Task, Callback(t) PROVE Pool!Handle(t)
  <2>1. Taken' = Taken
    BY <1>2 DEF Callback, Taken, Types
  <2>2. t \in Taken /\ handled[t] = 0
    BY <1>2 DEF Callback, Taken, Clients
  <2> QED
    BY <1>2, <2>1, <2>2 DEF Callback, Pool!Handle, Taken
<1>3. ASSUME NEW t \in Task, SetValue(t) \/ Release(t) PROVE Stutters
  <2>1. Taken' = Taken
    BY <1>3 DEF SetValue, Release, Taken, Types
  <2> QED
    BY <1>3, <2>1 DEF SetValue, Release
<1>4. ASSUME NEW w \in Worker, Loop(w)
      PROVE  Stutters \/ Pool!Next
  <2>1. worker[w].task = None
    BY <1>4 DEF Loop, Busy
  <2>2. CASE \/ worker' = [worker EXCEPT ![w] = At("done", None)]
             \/ worker' = [worker EXCEPT ![w] = At("waiting", None)]
    <3>1. \A v \in Worker : worker'[v].task = worker[v].task
      BY <2>1, <2>2 DEF Types, At
    <3>2. Taken' = Taken
      BY <1>4, <3>1 DEF Loop, Taken
    <3> QED
      BY <1>4, <3>2 DEF Loop
  <2>3. CASE /\ ~stop
             /\ tasks # <<>>
             /\ worker' = [worker EXCEPT ![w] = At("create", Head(tasks))]
    <3>0. PICK t \in Task : t = Head(tasks)
      BY <2>3 DEF Types
    <3>1. Len(tasks) \in Nat \ {0} /\ t = tasks[1]
      BY <2>3, <3>0 DEF Types
    <3>2. t \in submitted \ Taken
      BY <3>1 DEF Queue, Taken
    <3>3. \A v \in Worker : worker'[v].task = IF v = w THEN t ELSE worker[v].task
      BY <2>3, <3>0 DEF Types, At
    <3>4. Taken' = Taken \cup {t}
      BY <1>4, <2>1, <3>1, <3>3, TaskMgrAssumption DEF Loop, Taken
    <3>5. Cardinality({u \in Taken : handled[u] = 0}) < Cardinality(Worker)
      BY <2>1, RoomInPool
    <3>6. Pool!Take(t)
      <4>1. ~stop /\ UNCHANGED <<submitted, handled, stop>>
        BY <1>4, <2>3 DEF Loop
      <4> QED
        BY Zenon, <3>2, <3>4, <3>5, <4>1, SameCardinality DEF Pool!Take, Taken
    <3> QED
      BY <3>6 DEF Pool!Next
  <2> QED
    BY <1>4, <2>2, <2>3 DEF Loop
<1>5. ASSUME NEW w \in Worker, Start(w) PROVE Stutters
  <2>1. \A v \in Worker : worker'[v].task = worker[v].task
    BY <1>5 DEF Start, Types
  <2>2. worker[w].task \in Task
    BY <1>5 DEF Start, Busy, Types
  <2>3. Taken' = Taken
    BY <1>5, <2>1, <2>2 DEF Start, Taken, Types
  <2> QED
    BY <1>5, <2>3 DEF Start
<1>6. ASSUME NEW w \in Worker, CreateFails(w) PROVE \E t \in Task : Pool!Handle(t)
  <2> DEFINE t == worker[w].task
  <2>1. t \in Task /\ client[t] = "none" /\ handled[t] = 0
    BY <1>6 DEF CreateFails, Busy, Clients, Types
  <2>2. t \in Taken
    BY <2>1 DEF Taken
  <2>3. \A v \in Worker : worker'[v].task = IF v = w THEN None ELSE worker[v].task
    BY <1>6 DEF CreateFails, Types, At
  <2>4. Taken' = Taken
    BY <1>6, <2>1, <2>3, TaskMgrAssumption DEF CreateFails, Taken, Types
  <2>5. Pool!Handle(t)
    BY <1>6, <2>1, <2>2, <2>4 DEF CreateFails, Pool!Handle, Taken
  <2> QED
    BY <2>1, <2>5
<1>7. ASSUME NEW w \in Worker, FutureReady(w) PROVE Stutters
  <2>1. \A v \in Worker : worker'[v].task = IF v = w THEN None ELSE worker[v].task
    BY <1>7 DEF FutureReady, Types, At
  <2>2. client[worker[w].task] # "none"
    BY <1>7 DEF FutureReady
  <2>3. Taken' = Taken
    BY <1>7, <2>1, <2>2, TaskMgrAssumption DEF FutureReady, Taken, Types
  <2> QED
    BY <1>7, <2>3 DEF FutureReady
<1>8. CASE Stop
  <2>1. Taken' = Taken
    BY <1>8, StopWakes DEF Stop, Woken, Taken
  <2>2. Pool!Stop
    BY <1>8, <2>1 DEF Stop, Pool!Stop, Taken
  <2> QED
    BY <2>2 DEF Pool!Next
<1>9. CASE Destroy \/ UNCHANGED vars
  <2>1. Stutters
    BY <1>9 DEF Destroy, vars, Taken
  <2> QED
    BY <1>a, <2>1
<1> QED
  BY <1>a, <1>1, <1>2, <1>3, <1>4, <1>5, <1>6, <1>7, <1>8, <1>9
     DEF Next, WorkerStep, ClientStep, Pool!Next

(* The pool as coded hands each task to one handler at most, and works on  *)
(* no more tasks than it has workers (AppDomainVerifyTaskMgr::Init).       *)
THEOREM SpecHandlesOnce == Spec => HandlesOnce
  BY SpecIInv, InitHandlesOnce, NextHandlesOnce, PTL DEF Spec, HandlesOnce, Pool!Spec
===============================================================================
