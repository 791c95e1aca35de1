------------------------------- MODULE TaskMgr -------------------------------
(***************************************************************************)
(* AppDomainVerifyTaskMgr: a queue of http tasks and the workers that run  *)
(* them.  mutex_ guards the queue and stop_; each critical section is one  *)
(* step, and a worker in cond_.wait is "waiting" until it is notified.     *)
(* The handlers run on the http client's threads (external): one of        *)
(* OnSuccess, OnFail and OnCancel per started task, then set_value, then   *)
(* the AutoSeqReleaser erases the task from taskMap_ as it goes out of     *)
(* scope.  The destructor may run at any time.                             *)
(***************************************************************************)
EXTENDS Integers, Sequences, FiniteSets

CONSTANTS
    Task,   \* http tasks; each has its own id and is added once
    Worker, \* the poolSize_ workers
    None    \* no task

ASSUME TaskMgrAssumption == None \notin Task /\ IsFiniteSet(Worker)

VARIABLES
    stop,       \* stop_
    tasks,      \* tasks_
    taskMap,    \* the keys of taskMap_
    worker,     \* per worker, where it is and the task it runs
    client,     \* per task, how far its http client task and callback are
    destroyed,  \* the destructor has returned
    submitted,  \* history: tasks that were added
    handled     \* history: per task, how often its handler was called

vars == <<stop, tasks, taskMap, worker, client, destroyed, submitted, handled>>
-----------------------------------------------------------------------------
At(pc, t) == [pc |-> pc, task |-> t]

Waiting == {w \in Worker : worker[w].pc = "waiting"}

Init ==
    /\ stop = FALSE
    /\ tasks = <<>>
    /\ taskMap = {}
    /\ worker = [w \in Worker |-> At("loop", None)]
    /\ client = [t \in Task |-> "none"]
    /\ destroyed = FALSE
    /\ submitted = {}
    /\ handled = [t \in Task |-> 0]

(* cond_.notify_one wakes a waiting worker, if there is one. *)
NotifyOne ==
    \/ Waiting = {} /\ UNCHANGED worker
    \/ \E w \in Waiting : worker' = [worker EXCEPT ![w] = At("loop", None)]

\* mutant: no worker is notified
AddTaskNotifiesNone(t) ==
    /\ ~stop
    /\ t \notin submitted
    /\ submitted' = submitted \cup {t}
    /\ taskMap' = taskMap \cup {t}
    /\ tasks' = Append(tasks, t)
    /\ UNCHANGED worker
    /\ UNCHANGED <<stop, client, destroyed, handled>>

AddTask(t) ==
    /\ ~stop
    /\ t \notin submitted
    /\ submitted' = submitted \cup {t}
    /\ taskMap' = taskMap \cup {t}
    /\ tasks' = Append(tasks, t)
    /\ NotifyOne
    /\ UNCHANGED <<stop, client, destroyed, handled>>

(* Under mutex_: while (!stop_) take a task, or wait for one. *)
Loop(w) ==
    /\ worker[w].pc = "loop"
    /\ \/ /\ stop
          /\ worker' = [worker EXCEPT ![w] = At("done", None)]
          /\ UNCHANGED tasks
       \/ /\ ~stop
          /\ tasks # <<>>
          /\ worker' = [worker EXCEPT ![w] = At("create", Head(tasks))]
          /\ tasks' = Tail(tasks)
       \/ /\ ~stop
          /\ tasks = <<>>
          /\ worker' = [worker EXCEPT ![w] = At("waiting", None)]
          /\ UNCHANGED tasks
    /\ UNCHANGED <<stop, taskMap, client, destroyed, submitted, handled>>

(* CreateHttpClientTask, and Start if it gave a client task. *)
Start(w) ==
    /\ worker[w].pc = "create"
    /\ worker' = [worker EXCEPT ![w].pc = "future"]
    /\ client' = [client EXCEPT ![worker[w].task] = "started"]
    /\ UNCHANGED <<stop, tasks, taskMap, destroyed, submitted, handled>>

(* No client task: the worker calls OnFail itself. *)
CreateFails(w) ==
    /\ worker[w].pc = "create"
    /\ handled' = [handled EXCEPT ![worker[w].task] = @ + 1]
    /\ taskMap' = taskMap \ {worker[w].task}
    /\ client' = [client EXCEPT ![worker[w].task] = "released"]
    /\ worker' = [worker EXCEPT ![w] = At("loop", None)]
    /\ UNCHANGED <<stop, tasks, destroyed, submitted>>

\* mutant: the task leaves taskMap_ before its handler is called
CallbackReleasesFirst(t) ==
    /\ client[t] = "started"
    /\ IF t \in taskMap
         THEN /\ taskMap' = taskMap \ {t}
              /\ UNCHANGED <<client, handled>>
         ELSE /\ client' = [client EXCEPT ![t] = "called"]
              /\ handled' = [handled EXCEPT ![t] = @ + 1]
              /\ UNCHANGED taskMap
    /\ UNCHANGED <<stop, tasks, worker, destroyed, submitted>>

\* mutant: OnCancel and then OnFail are called for one client task
CallbackTwice(t) ==
    /\ client[t] \in {"started", "called"}
    /\ client' = [client EXCEPT ![t] = "called"]
    /\ handled[t] < 2
    /\ handled' = [handled EXCEPT ![t] = @ + 1]
    /\ UNCHANGED <<stop, tasks, taskMap, worker, destroyed, submitted>>

(* The callbacks: httpTask->OnSuccess, OnFail or OnCancel, *)
Callback(t) ==
    /\ client[t] = "started"
    /\ client' = [client EXCEPT ![t] = "called"]
    /\ handled' = [handled EXCEPT ![t] = @ + 1]
    /\ UNCHANGED <<stop, tasks, taskMap, worker, destroyed, submitted>>

(* then promise.set_value, *)
SetValue(t) ==
    /\ client[t] = "called"
    /\ client' = [client EXCEPT ![t] = "set"]
    /\ UNCHANGED <<stop, tasks, taskMap, worker, destroyed, submitted, handled>>

(* then ~AutoSeqReleaser.  The worker may be gone by now, and the manager  *)
(* with its taskMap_.                                                      *)
Release(t) ==
    /\ client[t] = "set"
    /\ client' = [client EXCEPT ![t] = "released"]
    /\ taskMap' = taskMap \ {t}
    /\ UNCHANGED <<stop, tasks, worker, destroyed, submitted, handled>>

(* future.wait returns; the worker takes mutex_ again. *)
FutureReady(w) ==
    /\ worker[w].pc = "future"
    /\ client[worker[w].task] \in {"set", "released"}
    /\ worker' = [worker EXCEPT ![w] = At("loop", None)]
    /\ UNCHANGED <<stop, tasks, taskMap, client, destroyed, submitted, handled>>

\* mutant: the destructor notifies one worker
StopNotifiesOne ==
    /\ ~stop
    /\ stop' = TRUE
    /\ NotifyOne
    /\ UNCHANGED <<tasks, taskMap, client, destroyed, submitted, handled>>

(* The destructor sets stop_ and notifies every worker, *)
Stop ==
    /\ ~stop
    /\ stop' = TRUE
    /\ worker' = [w \in Worker |->
        IF worker[w].pc = "waiting" THEN At("loop", None) ELSE worker[w]]
    /\ UNCHANGED <<tasks, taskMap, client, destroyed, submitted, handled>>

\* mutant: the destructor does not wait for the workers
DestroyAtOnce ==
    /\ stop
    /\ ~destroyed
    /\ destroyed' = TRUE
    /\ UNCHANGED <<stop, tasks, taskMap, worker, client, submitted, handled>>

(* and waits for them in ffrt::wait. *)
Destroy ==
    /\ stop
    /\ ~destroyed
    /\ \A w \in Worker : worker[w].pc = "done"
    /\ destroyed' = TRUE
    /\ UNCHANGED <<stop, tasks, taskMap, worker, client, submitted, handled>>

WorkerStep(w) == Loop(w) \/ Start(w) \/ CreateFails(w) \/ FutureReady(w)

ClientStep(t) == Callback(t) \/ SetValue(t) \/ Release(t)

Next ==
    \/ \E t \in Task : AddTask(t) \/ ClientStep(t)
    \/ \E w \in Worker : WorkerStep(w)
    \/ Stop \/ Destroy

Spec == Init /\ [][Next]_vars

(* Runnable ffrt tasks are scheduled, the http client calls back for each  *)
(* started task, and ffrt::wait returns once the workers are done.         *)
Fairness ==
    /\ \A w \in Worker : WF_vars(WorkerStep(w))
    /\ \A t \in Task : WF_vars(ClientStep(t))
    /\ WF_vars(Destroy)

FairSpec == Spec /\ Fairness
-----------------------------------------------------------------------------
IsIdle == taskMap = {}

TypeOK ==
    /\ stop \in BOOLEAN
    /\ tasks \in Seq(Task)
    /\ taskMap \subseteq Task
    /\ worker \in [Worker -> [pc : {"loop", "waiting", "create", "future", "done"},
                              task : Task \cup {None}]]
    /\ client \in [Task -> {"none", "started", "called", "set", "released"}]
    /\ destroyed \in BOOLEAN
    /\ submitted \subseteq Task
    /\ handled \in [Task -> Nat]

(***************************************************************************)
(* The agent unloads itself on IsIdle: when it holds, the handler of every *)
(* task that was added has returned, so its result has been saved, and no  *)
(* callback is left that would still use the manager.                      *)
(***************************************************************************)
IdleMeansHandled ==
    IsIdle => \A t \in submitted : handled[t] = 1 /\ client[t] = "released"

(***************************************************************************)
(* When the destructor returns no worker is in the manager's code, and     *)
(* each task either ran to the end of its handler or was never started.    *)
(***************************************************************************)
DestroyedIsQuiet ==
    destroyed =>
        /\ \A w \in Worker : worker[w].pc = "done"
        /\ \A t \in submitted :
            \/ handled[t] = 1 /\ client[t] \in {"set", "released"}
            \/ handled[t] = 0 /\ client[t] = "none"

(* A task that is added is handled, unless the manager is destroyed before *)
(* a worker reaches it: no notification is lost.                           *)
AddedIsHandled == \A t \in Task : t \in submitted ~> (handled[t] > 0 \/ stop)

(* The destructor returns: every worker sees stop_, also one that waits.   *)
StopEnds == stop ~> destroyed

(* The manager implements HandleOnce: a task has been taken once its       *)
(* worker, or its callback, has it.                                        *)
Pool == INSTANCE HandleOnce WITH
    PoolSize <- Cardinality(Worker),
    taken <- {t \in Task : client[t] # "none" \/ \E w \in Worker : worker[w].task = t}

HandlesOnce == Pool!Spec
==============================================================================
