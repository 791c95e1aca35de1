------------------------------ MODULE VerifyTask ------------------------------
(***************************************************************************)
(* VerifyTask: one task verifies the hosts of one bundle that need it.     *)
(* The answers of the hosts are handled concurrently, on the threads of    *)
(* the worker pool: they share the task's appVerifyBaseInfo_ (whose        *)
(* priority VerifyHost writes), its verifyResultInfo_ and unVerifiedSet_;  *)
(* only the last is guarded by a mutex.  OnPostVerify is six steps here,   *)
(* one for each access to what it shares.                                  *)
(*                                                                         *)
(* VerifyDomain starts a task when the bundle is installed or updated, a   *)
(* boot refresh starts one from a copy of what the manager has saved; both *)
(* may do so while others of the bundle are under way.                     *)
(***************************************************************************)
EXTENDS DomainVerifier

CONSTANTS
    Host,       \* hosts of the bundle
    AppInfo,    \* the bundle: appIdentifier, bundleName, fingerprint
    Response,   \* answers to a request: code and file
    Task,       \* bound: places for tasks under way
    MaxTime,    \* bound: hours the clock counts
    MaxErrors   \* bound: consecutive client errors counted

ASSUME VerifyTaskAssumption ==
    /\ Host # {}  \* else there is no task
    /\ Response # {}
    /\ \A r \in Response :
        /\ r.code \in Int
        /\ DOMAIN r.file.apps \subseteq Nat
        /\ \A i \in DOMAIN r.file.apps : r.file.apps[i].priority \in Int
    /\ MaxTime \in Nat
    /\ MaxErrors \in Nat

NoTime == -1  \* verifyTime is empty

CLIENT_ERR_MAX_RETRY_COUNTS == 7

VerifyStatus(status, retryCnt, verifyTime, priority) ==
    [status |-> status, retryCnt |-> retryCnt, verifyTime |-> verifyTime,
     priority |-> priority]

VARIABLES
    now,                \* the system clock, in hours
    installed,          \* in the bundle manager
    stored,             \* the bundle's hostVerifyStatusMap in the manager
    task,               \* tasks, and copies a refresh has yet to start; map is what they
                        \* start from, hosts (history) those the task requests
    appVerifyBaseInfo,  \* of a task
    result,             \* its verifyResultInfo_.hostVerifyStatusMap
    unVerified,         \* its unVerifiedSet_
    pc,                 \* where its OnPostVerify of each host is
    status,             \* the local variable of this
    seen,               \* history: priorities the task's files gave
    saves,              \* history: calls of OnSaveVerifyResult by the task
    errors,             \* history: saved client errors of a host in a row
    mixed               \* history: a task of an older version has saved

handlerVars == <<appVerifyBaseInfo, result, unVerified, pc, status, seen, saves>>
managerVars == <<installed, stored, errors, mixed>>
vars == <<now, task, handlerVars, managerVars>>
-----------------------------------------------------------------------------
Fresh == VerifyStatus("UNKNOWN", 0, NoTime, PRIORITY_UNSET)

AllFresh == [h \in Host |-> Fresh]

BaseInfo(isPreinstalled) ==
    [appIdentifier |-> AppInfo.appIdentifier, bundleName |-> AppInfo.bundleName,
     fingerprint |-> AppInfo.fingerprint, priority |-> PRIORITY_UNSET,
     isPreinstalled |-> isPreinstalled]

CalcRetryDuration(cnt) == 2 ^ cnt

\* mutant: the time since the last attempt is not looked at
HandleFailureAlwaysRetries(info) == TRUE

HandleFailureClientError(info) ==
    info.verifyTime # NoTime => now - info.verifyTime > CalcRetryDuration(info.retryCnt)

\* mutant: no handler for STATE_SUCCESS, which is retried like any other
IsNeedRetryVerifiedToo(info) ==
    CASE info.status = "FORBIDDEN_FOREVER" -> FALSE
      [] info.status = "FAILURE_CLIENT_ERROR" -> HandleFailureClientError(info)
      [] OTHER -> TRUE

IsNeedRetry(info) ==
    CASE info.status \in {"STATE_SUCCESS", "FORBIDDEN_FOREVER"} -> FALSE
      [] info.status = "FAILURE_CLIENT_ERROR" -> HandleFailureClientError(info)
      [] OTHER -> TRUE

NeedRetry(map) == {h \in Host : IsNeedRetry(map[h])}

Free == [phase |-> "free", map |-> AllFresh, hosts |-> {}, stale |-> FALSE, overlap |-> FALSE]

Present == {t \in Task : task[t].phase # "free"}

Running(t) == task[t].phase = "running"

(* A task in place t; history: it overlaps those that are there. *)
NewTask(tasks, t, phase, map, hosts) ==
    [u \in Task |->
        IF u = t THEN [phase |-> phase, map |-> map, hosts |-> hosts, stale |-> FALSE,
                       overlap |-> Present # {}]
        ELSE IF u \in Present THEN [tasks[u] EXCEPT !.overlap = TRUE]
        ELSE tasks[u]]

(* History: the tasks there are become those of an older version. *)
Outdated == [u \in Task |-> IF u \in Present THEN [task[u] EXCEPT !.stale = TRUE] ELSE task[u]]

Init ==
    /\ now = 0
    /\ installed = FALSE
    /\ stored = AllFresh
    /\ task = [t \in Task |-> Free]
    /\ appVerifyBaseInfo = [t \in Task |-> BaseInfo(FALSE)]
    /\ result = [t \in Task |-> AllFresh]
    /\ unVerified = [t \in Task |-> {}]
    /\ pc = [t \in Task |-> [h \in Host |-> "idle"]]
    /\ status = [t \in Task |-> [h \in Host |-> "UNKNOWN"]]
    /\ seen = [t \in Task |-> {}]
    /\ saves = [t \in Task |-> 0]
    /\ errors = [h \in Host |-> 0]
    /\ mixed = FALSE

(* The constructor and Execute: a task for each host that needs a retry.   *)
(* unVerifiedSet_ is complete before the first of them is queued.          *)
Execute(t, map, hosts, isPreinstalled) ==
    /\ appVerifyBaseInfo' = [appVerifyBaseInfo EXCEPT ![t] = BaseInfo(isPreinstalled)]
    /\ result' = [result EXCEPT ![t] = map]
    /\ unVerified' = [unVerified EXCEPT ![t] = hosts]
    /\ pc' = [pc EXCEPT ![t] = [h \in Host |-> IF h \in hosts THEN "queued" ELSE "idle"]]
    /\ seen' = [seen EXCEPT ![t] = {}]
    /\ saves' = [saves EXCEPT ![t] = 0]
    /\ UNCHANGED status

(* The manager's VerifyDomain, of a new bundle or a new version; the call  *)
(* to the agent may be lost.                                               *)
VerifyDomain(isPreinstalled) ==
    /\ installed' = TRUE
    /\ stored' = AllFresh
    /\ errors' = [h \in Host |-> 0]
    /\ mixed' = FALSE
    /\ \/ task' = Outdated /\ UNCHANGED handlerVars
       \/ \E t \in Task \ Present :
            /\ task' = NewTask(Outdated, t, "running", AllFresh, NeedRetry(AllFresh))
            /\ Execute(t, AllFresh, NeedRetry(AllFresh), isPreinstalled)
    /\ UNCHANGED now

ClearDomainVerifyStatus ==
    /\ installed
    /\ installed' = FALSE
    /\ stored' = AllFresh
    /\ errors' = [h \in Host |-> 0]
    /\ mixed' = FALSE
    /\ task' = Outdated
    /\ UNCHANGED <<now, handlerVars>>

(* A refresh: the agent copies the results of the bundle ... *)
QueryAllDomainVerifyStatus(t) ==
    /\ t \notin Present
    /\ installed
    /\ task' = NewTask(task, t, "copy", stored, {})
    /\ UNCHANGED <<now, handlerVars, managerVars>>

(* ... and starts a task, if the bundle is there and a host needs one; the *)
(* base info says nothing of preinstalled.                                 *)
CompleteVerifyRefresh(t) ==
    LET map == task[t].map
        hosts == NeedRetry(map)
    IN  /\ task[t].phase = "copy"
        /\ IF installed /\ hosts # {}
             THEN /\ task' = [task EXCEPT ![t].phase = "running", ![t].hosts = hosts]
                  /\ Execute(t, map, hosts, FALSE)
             ELSE /\ task' = [task EXCEPT ![t] = Free]
                  /\ UNCHANGED handlerVars
        /\ UNCHANGED <<now, managerVars>>

\* mutant: the host leaves unVerifiedSet_ when its answer arrives
AnswerErases(t, h) ==
    /\ pc[t][h] = "queued"
    /\ \E r \in Response :
        LET v == VerifyHost(r.code, r.file, appVerifyBaseInfo[t]) IN
        /\ status' = [status EXCEPT ![t][h] = v.status]
        /\ appVerifyBaseInfo' = [appVerifyBaseInfo EXCEPT ![t].priority = v.priority]
        /\ seen' = [seen EXCEPT ![t] = @ \cup {v.priority}]
    /\ pc' = [pc EXCEPT ![t][h] = "answered"]
    /\ unVerified' = [unVerified EXCEPT ![t] = @ \ {h}]
    /\ UNCHANGED <<now, task, managerVars, result, saves>>

(* OnSuccess, OnFail or OnCancel calls OnPostVerify, which calls VerifyHost. *)
Answer(t, h) ==
    /\ pc[t][h] = "queued"
    /\ \E r \in Response :
        LET v == VerifyHost(r.code, r.file, appVerifyBaseInfo[t]) IN
        /\ status' = [status EXCEPT ![t][h] = v.status]
        /\ appVerifyBaseInfo' = [appVerifyBaseInfo EXCEPT ![t].priority = v.priority]
        /\ seen' = [seen EXCEPT ![t] = @ \cup {v.priority}]
    /\ pc' = [pc EXCEPT ![t][h] = "answered"]
    /\ UNCHANGED <<now, task, managerVars, result, unVerified, saves>>

(* priority != PRIORITY_UNSET && (priority < PRIORITY_MIN || priority >    *)
(* PRIORITY_MAX): each comparison reads the shared priority anew.          *)
CheckUnset(t, h) ==
    /\ pc[t][h] = "answered"
    /\ pc' = [pc EXCEPT ![t][h] = IF appVerifyBaseInfo[t].priority = PRIORITY_UNSET
                                    THEN "checked" ELSE "set"]
    /\ UNCHANGED <<now, task, managerVars, appVerifyBaseInfo, result, unVerified, status,
                   seen, saves>>

CheckMin(t, h) ==
    /\ pc[t][h] = "set"
    /\ IF appVerifyBaseInfo[t].priority < PRIORITY_MIN
         THEN /\ status' = [status EXCEPT ![t][h] = "FAILURE_CLIENT_ERROR"]
              /\ pc' = [pc EXCEPT ![t][h] = "checked"]
         ELSE /\ UNCHANGED status
              /\ pc' = [pc EXCEPT ![t][h] = "notLow"]
    /\ UNCHANGED <<now, task, managerVars, appVerifyBaseInfo, result, unVerified, seen, saves>>

\* mutant: the upper bound is not looked at
CheckMaxLost(t, h) ==
    /\ pc[t][h] = "notLow"
    /\ pc' = [pc EXCEPT ![t][h] = "checked"]
    /\ UNCHANGED <<now, task, managerVars, appVerifyBaseInfo, result, unVerified, status,
                   seen, saves>>

CheckMax(t, h) ==
    /\ pc[t][h] = "notLow"
    /\ pc' = [pc EXCEPT ![t][h] = "checked"]
    /\ status' = IF appVerifyBaseInfo[t].priority > PRIORITY_MAX
                   THEN [status EXCEPT ![t][h] = "FAILURE_CLIENT_ERROR"] ELSE status
    /\ UNCHANGED <<now, task, managerVars, appVerifyBaseInfo, result, unVerified, seen, saves>>

(* The count starts from 0 each time: it is 1 after a client error, and    *)
(* the limit of CLIENT_ERR_MAX_RETRY_COUNTS is not reached.                *)
Counted(s, priority) ==
    LET retryCnt == IF s = "FAILURE_CLIENT_ERROR" THEN 1 ELSE 0
    IN  VerifyStatus(IF s = "FAILURE_CLIENT_ERROR" /\ retryCnt >= CLIENT_ERR_MAX_RETRY_COUNTS
                       THEN "FORBIDDEN_FOREVER" ELSE s,
                     retryCnt, now, priority)

\* mutant: the host leaves unVerifiedSet_ before the mutex is taken
UpdateErasesFirst(t, h) ==
    /\ pc[t][h] = "checked"
    /\ result' = [result EXCEPT ![t][h] = Counted(status[t][h], appVerifyBaseInfo[t].priority)]
    /\ unVerified' = [unVerified EXCEPT ![t] = @ \ {h}]
    /\ pc' = [pc EXCEPT ![t][h] = "updated"]
    /\ UNCHANGED <<now, task, managerVars, appVerifyBaseInfo, status, seen, saves>>

UpdateVerifyResultInfo(t, h) ==
    /\ pc[t][h] = "checked"
    /\ result' = [result EXCEPT ![t][h] = Counted(
        IF status[t][h] = "FAILURE_HTTP_UNKNOWN" /\ appVerifyBaseInfo[t].isPreinstalled
          THEN "PRE_INSTALLED" ELSE status[t][h], appVerifyBaseInfo[t].priority)]
    /\ pc' = [pc EXCEPT ![t][h] = "updated"]
    /\ UNCHANGED <<now, task, managerVars, appVerifyBaseInfo, unVerified, status, seen, saves>>

(* SaveDomainVerifyStatus returns false when the call or the manager's     *)
(* update fails: that is logged, and the results are dropped; as they are  *)
(* by a manager that does not know the bundle.                             *)
OnSaveVerifyResult(t) ==
    /\ saves' = [saves EXCEPT ![t] = @ + 1]
    /\ \/ UNCHANGED <<stored, errors, mixed>>
       \/ /\ stored' = IF installed THEN result[t] ELSE stored
          /\ errors' = [h \in Host |->
                IF ~installed \/ h \notin task[t].hosts THEN errors[h]
                ELSE IF result[t][h].status # "FAILURE_CLIENT_ERROR" THEN 0
                ELSE IF errors[h] < MaxErrors THEN errors[h] + 1 ELSE MaxErrors]
          /\ mixed' = (mixed \/ task[t].stale)

(* What is left of a task when its last reference goes. *)
Gone(t) ==
    /\ task' = [task EXCEPT ![t] = Free]
    /\ unVerified' = [unVerified EXCEPT ![t] = {}]
    /\ pc' = [pc EXCEPT ![t] = [h \in Host |-> "idle"]]
    /\ status' = [status EXCEPT ![t] = [h \in Host |-> "UNKNOWN"]]
    /\ appVerifyBaseInfo' = [appVerifyBaseInfo EXCEPT ![t] = BaseInfo(FALSE)]
    /\ result' = [result EXCEPT ![t] = AllFresh]
    /\ seen' = [seen EXCEPT ![t] = {}]

LastRunning(t, h) == \A g \in Host \ {h} : pc[t][g] = "idle"

\* mutant: waits to be the last host before it erases
FinishWaitsToBeLast(t, h) ==
    /\ pc[t][h] = "updated"
    /\ unVerified[t] = {h}
    /\ OnSaveVerifyResult(t)
    /\ IF LastRunning(t, h) THEN Gone(t)
       ELSE /\ unVerified' = [unVerified EXCEPT ![t] = @ \ {h}]
            /\ pc' = [pc EXCEPT ![t][h] = "idle"]
            /\ UNCHANGED <<task, appVerifyBaseInfo, result, status, seen>>
    /\ UNCHANGED <<now, installed>>

(* Under unVerifiedSetMutex_: erase, and save if this host was the last;   *)
(* the last http task to end drops the last reference to the task.         *)
Finish(t, h) ==
    /\ pc[t][h] = "updated"
    /\ IF unVerified[t] \subseteq {h} THEN OnSaveVerifyResult(t)
       ELSE UNCHANGED <<stored, saves, errors, mixed>>
    /\ IF LastRunning(t, h) THEN Gone(t)
       ELSE /\ unVerified' = [unVerified EXCEPT ![t] = @ \ {h}]
            /\ pc' = [pc EXCEPT ![t][h] = "idle"]
            /\ UNCHANGED <<task, appVerifyBaseInfo, result, status, seen>>
    /\ UNCHANGED <<now, installed>>

(* The agent process ends, unloaded or dead, and a task or a copy with it; *)
(* all there are go one after the other.                                   *)
Lost(t) ==
    /\ t \in Present
    /\ Gone(t)
    /\ UNCHANGED <<now, managerVars, saves>>

Tick ==
    /\ now < MaxTime
    /\ now' = now + 1
    /\ UNCHANGED <<task, handlerVars, managerVars>>

OnPostVerify(t, h) ==
    \/ Answer(t, h) \/ CheckUnset(t, h) \/ CheckMin(t, h) \/ CheckMax(t, h)
    \/ UpdateVerifyResultInfo(t, h) \/ Finish(t, h)

Next ==
    \/ \E isPreinstalled \in BOOLEAN : VerifyDomain(isPreinstalled)
    \/ ClearDomainVerifyStatus
    \/ \E t \in Task :
        \/ QueryAllDomainVerifyStatus(t)
        \/ CompleteVerifyRefresh(t)
        \/ \E h \in Host : OnPostVerify(t, h)
        \/ Lost(t)
    \/ Tick

Spec == Init /\ [][Next]_vars

(* Every request is answered once, if only by OnFail, and the handlers run *)
(* to their end.                                                           *)
Fairness == \A t \in Task, h \in Host : WF_vars(OnPostVerify(t, h))

FairSpec == Spec /\ Fairness
-----------------------------------------------------------------------------
VerifyStatuses ==
    [status : InnerVerifyStatus, retryCnt : {0, 1}, verifyTime : {NoTime} \cup 0 .. MaxTime,
     priority : Int]

TypeOK ==
    /\ now \in 0 .. MaxTime
    /\ installed \in BOOLEAN
    /\ stored \in [Host -> VerifyStatuses]
    /\ task \in [Task -> [phase : {"free", "copy", "running"}, map : [Host -> VerifyStatuses],
                          hosts : SUBSET Host, stale : BOOLEAN, overlap : BOOLEAN]]
    /\ \A t \in Task : appVerifyBaseInfo[t].priority \in Int
    /\ result \in [Task -> [Host -> VerifyStatuses]]
    /\ unVerified \in [Task -> SUBSET Host]
    /\ pc \in [Task -> [Host -> {"idle", "queued", "answered", "set", "notLow", "checked",
                                 "updated"}]]
    /\ status \in [Task -> [Host -> InnerVerifyStatus]]
    /\ seen \in [Task -> SUBSET Int]
    /\ saves \in [Task -> 0 .. 1]
    /\ errors \in [Host -> 0 .. MaxErrors]
    /\ mixed \in BOOLEAN

(***************************************************************************)
(* To the manager a task is one step: DomainVerify, with this bundle, is   *)
(* implemented.  What a task saves, after any steps of its handlers and of *)
(* other tasks, has a verdict for each host it had to verify, keeps those  *)
(* of its copy, and says PRE_INSTALLED only in a task of an install.       *)
(***************************************************************************)
(* A status as the manager tells them apart. *)
Told(s) ==
    [status |-> IF s.status \in {"STATE_SUCCESS", "PRE_INSTALLED", "UNKNOWN"}
                  THEN s.status ELSE "FAILURE",
     priority |-> IF s.status \in {"STATE_SUCCESS", "PRE_INSTALLED"}
                    THEN s.priority ELSE PRIORITY_UNSET,
     by |-> IF s.status = "STATE_SUCCESS" THEN "app" ELSE "none"]

ToldMap(map) == [h \in Host |-> Told(map[h])]

NoHosts ==
    [h \in Host |-> [status |-> "none", priority |-> PRIORITY_UNSET, by |-> "none"]]

TaskToManager(t) ==
    [phase |-> task[t].phase,
     bundle |-> IF t \in Present THEN "bundle" ELSE "none",
     app |-> IF Running(t) THEN "app" ELSE "none",
     pre |-> appVerifyBaseInfo[t].isPreinstalled,
     map |-> IF t \in Present THEN ToldMap(task[t].map) ELSE NoHosts,
     stale |-> task[t].stale, overlap |-> task[t].overlap]

EntryInManager ==
    IF installed THEN [app |-> "app", hosts |-> ToldMap(stored)]
    ELSE [app |-> "none", hosts |-> NoHosts]

(* Unset, or as a file gives it. *)
Priorities ==
    {PRIORITY_UNSET} \cup
        UNION {{r.file.apps[i].priority : i \in DOMAIN r.file.apps} : r \in Response}

Skill == [scheme : {"https"}, host : Host, fuzzy : {FALSE}]

Manager == INSTANCE DomainVerify WITH
    Bundle <- {"bundle"}, App <- {"app"}, PreInstalled <- {"bundle"},
    None <- "none", SkillUri <- Skill, Skills <- {Skill}, Priority <- Priorities,
    LinkHost <- {},
    installed <- [b \in {"bundle"} |-> IF installed THEN "app" ELSE "none"],
    verifyMap <- [b \in {"bundle"} |-> EntryInManager],
    task <- [t \in Task |-> TaskToManager(t)],
    links <- {}, filter <- "none", announced <- {}, late <- {},
    missed <- [b \in {"bundle"} |-> {}],
    mixed <- IF mixed THEN {"bundle"} ELSE {}

TaskIsOneStep == Manager!Spec

(***************************************************************************)
(* A save carries the result of every host the task requested, each with a *)
(* priority that some answer to this task gave: no result is missing       *)
(* because its handler had erased its host too early, and nothing is left  *)
(* over from another task or from a default.                               *)
(***************************************************************************)
SaveIsWhole ==
    [][ \A t \in Task : saves'[t] > saves[t] =>
        \A h \in task[t].hosts : /\ pc[t][h] \in {"updated", "idle"}
                                 /\ result[t][h].priority \in seen[t] ]_vars

(***************************************************************************)
(* A task saves exactly once, as the last thing it does, unless its        *)
(* process ends first; no handler runs after the save.                     *)
(***************************************************************************)
EndsBySaving ==
    /\ [](\A t \in Task : Running(t) => saves[t] = 0)
    /\ [][ \A t \in Task : Running(t) /\ ~Running(t)' => saves'[t] = 1 \/ Lost(t) ]_vars

(***************************************************************************)
(* With one host to verify nothing else writes the priority: a host is     *)
(* saved as verified only with a priority that is in range or not set.     *)
(***************************************************************************)
LoneHostInRange ==
    \A t \in Task, h \in Host :
        /\ task[t].hosts = {h}
        /\ pc[t][h] = "updated"
        /\ result[t][h].status = "STATE_SUCCESS"
        /\ result[t][h].priority # PRIORITY_UNSET
        => ~OutOfRange(result[t][h].priority)

(***************************************************************************)
(* Two client errors in a row are saved for a host only if more than the   *)
(* retry duration lies between them, whatever other hosts, failed saves,   *)
(* lost calls, deaths and new versions do, unless the task that saves the  *)
(* second has overlapped another of the bundle, or a copy: both may have   *)
(* chosen the host before either had saved.                                *)
(***************************************************************************)
BackoffHolds ==
    [][ \A h \in Host :
        /\ stored[h].status = "FAILURE_CLIENT_ERROR"
        /\ stored'[h].status = "FAILURE_CLIENT_ERROR"
        /\ stored'[h].verifyTime # stored[h].verifyTime
        => \/ stored'[h].verifyTime - stored[h].verifyTime
                > CalcRetryDuration(stored[h].retryCnt)
           \/ \E t \in Task : Running(t) /\ ~Running(t)' /\ task[t].overlap ]_vars

(* Every task that is started comes to its end: no handler waits for       *)
(* another, and the set is emptied whatever the order of the answers.      *)
TaskEnds == \A t \in Task : Running(t) ~> ~Running(t)

(***************************************************************************)
(* A host that fails with a client error "7 times for max retry count"     *)
(* (CLIENT_ERR_MAX_RETRY_COUNTS) is FORBIDDEN_FOREVER from then on.        *)
(***************************************************************************)
ForbiddenAfterLimit ==
    \A h \in Host :
        errors[h] >= CLIENT_ERR_MAX_RETRY_COUNTS => stored[h].status = "FORBIDDEN_FOREVER"
===============================================================================
