----------------------------- MODULE AgentService -----------------------------
(***************************************************************************)
(* AgentService: the life of the agent process, and the manager's          *)
(* connection to it.  The agent is loaded by a call of the manager or      *)
(* started by the system (boot completed, once a day); every DELAY_TIME it *)
(* unloads itself if it has nothing to do, or else repeats the boot        *)
(* refresh.  It may die at any step.  The manager keeps one proxy under    *)
(* proxyLock_ and drops it when it is told of the death.                   *)
(***************************************************************************)
EXTENDS Integers

CONSTANTS
    Bundle,
    MAX_DELAY_RETRY_CNT,
    MaxCalls,             \* bound: calls of the manager
    None

ASSUME AgentServiceAssumption ==
    /\ MAX_DELAY_RETRY_CNT \in Nat \ {0}
    /\ MaxCalls \in Nat
    /\ None \notin Bundle

VARIABLES
    extension,     \* the library: "absent", "vendor", or one that without an
                   \* extension: "unregistered"
    agent,         \* "down", "up", or "leaving": samgr was told to unload it
    timer,         \* the unload task: "none", "posted", or "unloading": it
                   \* has found that the agent can go
    retryCnt,      \* counted to MAX_DELAY_RETRY_CNT
    isDoSyncDone,
    tasks,         \* bundles the pool has tasks of
    unverified,    \* bundles whose results in the manager need a task
    client,        \* the manager's call that holds proxyLock_
    waiting,       \* bundles whose call waits for it
    agentServiceProxy,  \* "none", "live", or "stale": of a process that is gone
    deathRecipient,     \* it was added to the proxy's object, of a live process
    deaths,             \* calls of OnRemoteSaDied to come
    calls,
    untried,       \* history: of them, those not tried since VerifyDomain
    refused        \* history: samgr has refused to unload this process

agentVars == <<agent, timer, retryCnt, isDoSyncDone, tasks, refused>>
proxyVars == <<agentServiceProxy, deathRecipient, deaths>>
clientVars == <<client, waiting, proxyVars>>
bundleVars == <<unverified, untried, calls, extension>>
vars == <<agentVars, clientVars, bundleVars>>

Idle == [pc |-> "idle", bundle |-> None, live |-> FALSE]

Init ==
    /\ extension \in {"absent", "unregistered", "vendor"}
    /\ agent = "down"
    /\ timer = "none"
    /\ retryCnt = 0
    /\ isDoSyncDone = FALSE
    /\ tasks = {}
    /\ unverified = {}
    /\ client = Idle
    /\ waiting = {}
    /\ agentServiceProxy = "none"
    /\ deathRecipient = FALSE
    /\ deaths = 0
    /\ calls = 0
    /\ untried = {}
    /\ refused = FALSE
-----------------------------------------------------------------------------
(* The manager's handler has saved the new results and calls the agent. *)
VerifyDomain(b) ==
    /\ calls < MaxCalls
    /\ calls' = calls + 1
    /\ b \notin waiting
    /\ waiting' = waiting \cup {b}
    /\ unverified' = unverified \cup {b}
    /\ untried' = untried \cup {b}
    /\ UNCHANGED <<agentVars, client, proxyVars, extension>>

(* The state a new process starts in; OnStart posts the unload task. *)
OnStart ==
    /\ agent' = "up"
    /\ timer' = "posted"
    /\ retryCnt' = 0
    /\ isDoSyncDone' = FALSE
    /\ tasks' = {}
    /\ refused' = FALSE

(* Boot completed, or the loop event. *)
OnDemandStart ==
    /\ agent = "down"
    /\ OnStart
    /\ UNCHANGED <<clientVars, bundleVars>>

(* ExecuteVerifyTask: the extension first; a task only when the library is *)
(* not there.  The vendor's extension answers for what it takes.           *)
ExecuteVerifyTask(bundles) ==
    /\ tasks' = IF extension = "absent" THEN tasks \cup bundles ELSE tasks
    /\ untried' = IF extension = "unregistered" THEN untried ELSE untried \ bundles

(* The task saves the results of the bundle's hosts, those of an older     *)
(* version as well; a host may have to be retried, or the save be lost.    *)
TaskEnds(b) ==
    /\ agent # "down"
    /\ b \in tasks
    /\ tasks' = tasks \ {b}
    /\ \/ /\ unverified' = unverified \ {b}
          /\ untried' = untried \ {b}
       \/ UNCHANGED <<unverified, untried>>
    /\ UNCHANGED <<agent, timer, retryCnt, isDoSyncDone, refused, clientVars, calls, extension>>
-----------------------------------------------------------------------------
IsIdle == tasks = {}

\* mutant: an idle agent leaves before it has looked
CanUnloadSaIdle == IsIdle

CanUnloadSa ==
    /\ isDoSyncDone \/ retryCnt >= MAX_DELAY_RETRY_CNT - 1
    /\ IsIdle

(* OnDelayUnloadSA when the agent can go.  Requests still reach it before  *)
(* samgr is told ...                                                       *)
DecideToUnload ==
    /\ timer = "posted"
    /\ agent = "up"
    /\ CanUnloadSa
    /\ timer' = "unloading"
    /\ UNCHANGED <<agent, retryCnt, isDoSyncDone, tasks, refused, clientVars, bundleVars>>

(* ... by UnloadSystemAbility, which may fail: the timer is gone all the   *)
(* same.                                                                   *)
UnloadSa ==
    /\ timer = "unloading"
    /\ timer' = "none"
    /\ \/ agent' = "leaving" /\ UNCHANGED refused
       \/ refused' = TRUE /\ UNCHANGED agent
    /\ UNCHANGED <<retryCnt, isDoSyncDone, tasks, clientVars, bundleVars>>

\* mutant: the last retry is not posted
PostDelayUnloadTaskStops ==
    /\ timer' = IF retryCnt < MAX_DELAY_RETRY_CNT - 2 THEN "posted" ELSE "none"
    /\ retryCnt' = IF retryCnt < MAX_DELAY_RETRY_CNT THEN retryCnt + 1 ELSE retryCnt

PostDelayUnloadTask ==
    /\ timer' = "posted"
    /\ retryCnt' = IF retryCnt < MAX_DELAY_RETRY_CNT THEN retryCnt + 1 ELSE retryCnt

(* No network, or done before. *)
NoSync == UNCHANGED <<isDoSyncDone, tasks, untried>>

(* The refresh of all bundles that need it, less those the bundle manager  *)
(* does not answer for; a failed query is an empty refresh.                *)
DoSync(bundles) ==
    /\ ~isDoSyncDone
    /\ isDoSyncDone' = TRUE
    /\ CASE extension = "absent" -> ExecuteVerifyTask(bundles)
         [] extension = "unregistered" -> UNCHANGED <<tasks, untried>>
         [] extension = "vendor" -> untried' = {} /\ UNCHANGED tasks

(* OnDelayUnloadSA when the agent cannot go: with a refresh or not. *)
OnDelayUnloadSA(sync) ==
    /\ timer = "posted"
    /\ agent = "up"
    /\ ~CanUnloadSa
    /\ sync
    /\ PostDelayUnloadTask
    /\ UNCHANGED <<agent, refused, clientVars, unverified, calls, extension>>

Delay == OnDelayUnloadSA(NoSync)

Refresh(bundles) == OnDelayUnloadSA(DoSync(bundles))
-----------------------------------------------------------------------------
(* The process is gone, with its tasks; its objects are stale. *)
Gone ==
    /\ agent' = "down"
    /\ timer' = "none"
    /\ retryCnt' = 0
    /\ isDoSyncDone' = FALSE
    /\ tasks' = {}
    /\ refused' = FALSE
    /\ client' = [client EXCEPT !.live = FALSE]
    /\ agentServiceProxy' = IF agentServiceProxy = "none" THEN "none" ELSE "stale"
    /\ deaths' = IF deathRecipient THEN deaths + 1 ELSE deaths
    /\ deathRecipient' = FALSE
    /\ UNCHANGED <<waiting, bundleVars>>

(* samgr stops the ability. *)
OnStop == agent = "leaving" /\ Gone

Die == agent # "down" /\ Gone
-----------------------------------------------------------------------------
\* mutant: connects again if the process of the proxy is gone
IsServiceAvailableReconnects(b) ==
    /\ client = Idle
    /\ client' = [pc |-> IF agentServiceProxy = "live" THEN "call" ELSE "connect",
                  bundle |-> b, live |-> FALSE]
    /\ UNCHANGED <<agentVars, proxyVars>>

(* A call takes proxyLock_. *)
IsServiceAvailable(b) ==
    /\ client = Idle
    /\ client' = [pc |-> IF agentServiceProxy = "none" THEN "connect" ELSE "call",
                  bundle |-> b, live |-> FALSE]
    /\ UNCHANGED <<agentVars, proxyVars>>

SingleVerify(b) ==
    /\ b \in waiting
    /\ waiting' = waiting \ {b}
    /\ IsServiceAvailable(b)
    /\ UNCHANGED bundleVars

(* Of the extension's matter only, but it connects like SingleVerify. *)
ConvertToExplicitWant ==
    /\ calls < MaxCalls
    /\ calls' = calls + 1
    /\ IsServiceAvailable(None)
    /\ UNCHANGED <<waiting, unverified, untried, extension>>

(* CheckSystemAbility finds the agent. *)
CheckSystemAbility ==
    /\ client.pc = "connect"
    /\ agent # "down"
    /\ client' = [client EXCEPT !.pc = "watch", !.live = TRUE]
    /\ UNCHANGED <<agentVars, waiting, proxyVars, bundleVars>>

(* It does not; LoadSystemAbility starts the agent. *)
LoadSystemAbility ==
    /\ client.pc = "connect"
    /\ agent = "down"
    /\ OnStart
    /\ client' = [client EXCEPT !.pc = "watch", !.live = TRUE]
    /\ UNCHANGED <<waiting, proxyVars, bundleVars>>

(* No samgr, or not loaded in LOADSA_TIMEOUT_MS: the request is lost. *)
ConnectFails ==
    /\ client.pc = "connect"
    /\ client' = Idle
    /\ UNCHANGED <<agentVars, waiting, proxyVars, bundleVars>>

(* The result of AddDeathRecipient is not looked at: an object whose       *)
(* process is gone by now becomes the proxy, and nobody will tell.         *)
AddDeathRecipient ==
    /\ client.pc = "watch"
    /\ agentServiceProxy' = IF client.live THEN "live" ELSE "stale"
    /\ deathRecipient' = client.live
    /\ client' = [client EXCEPT !.pc = "call", !.live = FALSE]
    /\ UNCHANGED <<agentVars, waiting, deaths, bundleVars>>

(* The call reaches the agent if it is there; an error is logged. *)
SendRequest ==
    /\ client.pc = "call"
    /\ client' = Idle
    /\ \/ /\ agentServiceProxy = "live"
          /\ ExecuteVerifyTask({client.bundle} \cap Bundle)
       \/ UNCHANGED <<tasks, untried>>
    /\ UNCHANGED <<agent, timer, retryCnt, isDoSyncDone, refused, waiting, proxyVars,
                   unverified, calls, extension>>

\* mutant: the proxy is kept
OnRemoteSaDiedKeeps ==
    /\ client = Idle
    /\ deaths > 0
    /\ deaths' = deaths - 1
    /\ UNCHANGED <<agentVars, client, waiting, agentServiceProxy, deathRecipient, bundleVars>>

(* The death recipient, under proxyLock_: drops the proxy there is, and    *)
(* takes the recipient from it, whatever object has died.                  *)
OnRemoteSaDied ==
    /\ client = Idle
    /\ deaths > 0
    /\ deaths' = deaths - 1
    /\ agentServiceProxy' = "none"
    /\ deathRecipient' = FALSE
    /\ UNCHANGED <<agentVars, client, waiting, bundleVars>>

Client ==
    \/ \E b \in Bundle : SingleVerify(b)
    \/ CheckSystemAbility \/ LoadSystemAbility \/ ConnectFails
    \/ AddDeathRecipient \/ SendRequest

Next ==
    \/ \E b \in Bundle : VerifyDomain(b) \/ TaskEnds(b)
    \/ ConvertToExplicitWant
    \/ OnDemandStart
    \/ DecideToUnload \/ UnloadSa \/ Delay
    \/ \E bundles \in SUBSET unverified : Refresh(bundles)
    \/ OnStop \/ Die
    \/ Client
    \/ OnRemoteSaDied

Spec == Init /\ [][Next]_vars

(***************************************************************************)
(* Handlers, timers and calls run to their end; the system starts the      *)
(* agent again and again (the loop event).  Of the environment: when the   *)
(* agent gets to its timer again and again before a refresh, the network,  *)
(* the manager and the bundle manager are there for one of them.  Neither  *)
(* deaths nor failures are fair.                                           *)
(***************************************************************************)
Fairness ==
    /\ \A b \in Bundle : WF_vars(TaskEnds(b)) /\ WF_vars(SingleVerify(b))
    /\ WF_vars(OnDemandStart)
    /\ WF_vars(DecideToUnload \/ UnloadSa \/ Delay)
    /\ SF_vars(Refresh(unverified))
    /\ WF_vars(OnStop)
    /\ WF_vars(Client)
    /\ WF_vars(OnRemoteSaDied)

FairSpec == Spec /\ Fairness
-----------------------------------------------------------------------------
TypeOK ==
    /\ extension \in {"absent", "unregistered", "vendor"}
    /\ agent \in {"down", "up", "leaving"}
    /\ timer \in {"none", "posted", "unloading"}
    /\ timer # "none" \/ refused <=> agent = "up"
    /\ retryCnt \in 0 .. MAX_DELAY_RETRY_CNT
    /\ isDoSyncDone \in BOOLEAN
    /\ tasks \subseteq Bundle
    /\ agent = "down" => tasks = {}
    /\ unverified \subseteq Bundle
    /\ client \in [pc : {"idle", "connect", "watch", "call"}, bundle : Bundle \cup {None},
                   live : BOOLEAN]
    /\ waiting \subseteq Bundle
    /\ agentServiceProxy \in {"none", "live", "stale"}
    /\ deathRecipient \in BOOLEAN
    /\ deaths \in 0 .. 1
    /\ calls \in 0 .. MaxCalls
    /\ untried \subseteq unverified
    /\ refused \in BOOLEAN

(***************************************************************************)
(* A proxy of a process that is there is not dropped, though the handler   *)
(* of a death drops whatever proxy it finds: no call puts a new proxy in   *)
(* the place of one whose death is still to be told.                       *)
(***************************************************************************)
LiveProxyStays ==
    [][ agentServiceProxy = "live" => agentServiceProxy' # "none" ]_vars

(***************************************************************************)
(* The agent does not stay: it leaves, or dies, however often a task or    *)
(* the network keeps it, unless samgr has refused to unload it.            *)
(***************************************************************************)
AgentUnloads == agent = "up" ~> agent # "up" \/ refused

(***************************************************************************)
(* A verification whose call was lost, in whatever way, is tried by a      *)
(* later boot refresh, unless an extension library without an extension    *)
(* drops it or an agent that was refused to unload is there and never      *)
(* looks again.                                                            *)
(***************************************************************************)
LostIsRetried ==
    \A b \in Bundle :
        b \in untried ~> b \notin untried \/ extension = "unregistered" \/ refused

(***************************************************************************)
(* A proxy whose process is gone is dropped, so that the next call loads   *)
(* the agent, unless the process was gone before AddDeathRecipient.        *)
(***************************************************************************)
StaleProxyIsDropped ==
    agentServiceProxy = "stale" /\ deaths > 0 ~> agentServiceProxy # "stale"
===============================================================================
