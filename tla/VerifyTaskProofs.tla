--------------------------- MODULE VerifyTaskProofs ---------------------------
(***************************************************************************)
(* Proofs about VerifyTask, for any hosts, any app, any answers and any    *)
(* bounds; and, at the end, about the loops over an asset file (AssetFile) *)
(* that reach the verdict on an answer, for any file.                      *)
(***************************************************************************)
EXTENDS VerifyTask, AssetFile, WellFoundedInduction, TLAPS

(* A set of naturals that is not empty has a least element. *)
LEMMA LeastNat ==
    ASSUME NEW S \in SUBSET Nat, S # {}
    PROVE  Min(S) \in S /\ \A i \in S : Min(S) <= i
<1>1. PICK m \in S : \A i \in S : ~ (<<i, m>> \in OpToRel(<, Nat))
  BY WFMin, NatLessThanWellFounded
<1>2. OpToRel(<, Nat) = {ss \in Nat \X Nat : ss[1] < ss[2]}
  BY DEF OpToRel
<1>3. ASSUME NEW i \in S PROVE m <= i
  <2>1. ~ (<<i, m>> \in {ss \in Nat \X Nat : ss[1] < ss[2]})
    BY <1>1, <1>2
  <2>. QED
    BY <2>1
<1>. QED
  BY <1>3 DEF Min

(* A verdict has a status of the enumeration, and the priority of the app  *)
(* or of an entry of the file.                                             *)
LEMMA VerdictType ==
    ASSUME NEW r \in Response, NEW info, info.priority \in Int
    PROVE  /\ VerifyHost(r.code, r.file, info).status \in InnerVerifyStatus
           /\ VerifyHost(r.code, r.file, info).priority \in Int
<1>. DEFINE entries == r.file.apps
<1>1. /\ r.code \in Int
      /\ DOMAIN entries \subseteq Nat
      /\ \A i \in DOMAIN entries : entries[i].priority \in Int
  BY VerifyTaskAssumption
<1>2. \A S \in SUBSET DOMAIN entries : S # {} => entries[Min(S)].priority \in Int
  BY <1>1, LeastNat
<1>3. GetVerifyStatusFromHttpError(r.code) \in InnerVerifyStatus
  BY <1>1 DEF GetVerifyStatusFromHttpError, InnerVerifyStatus, MULT_CHOICE, BAD_REQUEST, INTERNAL_ERROR
<1>4. /\ VerifyHostWithAppIdentifier(entries, info).status \in InnerVerifyStatus
      /\ VerifyHostWithAppIdentifier(entries, info).priority \in Int
  <2>. DEFINE deciding == {i \in DOMAIN entries : Decides(entries[i], info)}
  <2>1. deciding # {} => entries[Min(deciding)].priority \in Int
    BY <1>2
  <2>. QED
    BY <2>1 DEF VerifyHostWithAppIdentifier, Verdict, InnerVerifyStatus
<1>5. /\ VerifyHostWithBundleName(entries, info).status \in InnerVerifyStatus
      /\ VerifyHostWithBundleName(entries, info).priority \in Int
  <2>. DEFINE naming == {i \in DOMAIN entries : /\ entries[i].bundleName = info.bundleName
                                             /\ entries[i].fingerprint = info.fingerprint}
  <2>1. naming # {} => entries[Min(naming)].priority \in Int
    BY <1>2
  <2>. QED
    BY <2>1 DEF VerifyHostWithBundleName, Verdict, InnerVerifyStatus
<1>. QED
  BY <1>3, <1>4, <1>5 DEF VerifyHost, Verdict, InnerVerifyStatus

(* Each count of retries that occurs has a duration. *)
LEMMA DurationType == \A cnt \in {0, 1} : CalcRetryDuration(cnt) \in Int
  BY DEF CalcRetryDuration
-----------------------------------------------------------------------------
PC == {"idle", "queued", "answered", "set", "notLow", "checked", "updated"}

Tasks ==
    [phase : {"free", "copy", "running"}, map : [Host -> VerifyStatuses],
     hosts : SUBSET Host, stale : BOOLEAN, overlap : BOOLEAN]

BaseInfos ==
    [appIdentifier : {AppInfo.appIdentifier}, bundleName : {AppInfo.bundleName},
     fingerprint : {AppInfo.fingerprint}, priority : Int, isPreinstalled : BOOLEAN]

Types ==
    /\ now \in 0 .. MaxTime
    /\ installed \in BOOLEAN
    /\ stored \in [Host -> VerifyStatuses]
    /\ task \in [Task -> Tasks]
    /\ appVerifyBaseInfo \in [Task -> BaseInfos]
    /\ result \in [Task -> [Host -> VerifyStatuses]]
    /\ unVerified \in [Task -> SUBSET Host]
    /\ pc \in [Task -> [Host -> PC]]
    /\ status \in [Task -> [Host -> InnerVerifyStatus]]
    /\ seen \in [Task -> SUBSET Int]
    /\ saves \in [Task -> 0 .. 1]
    /\ errors \in [Host -> 0 .. MaxErrors]
    /\ mixed \in BOOLEAN

(* A place without a task is as new; one with a copy has only that.        *)
Idle(t) ==
    /\ task[t].phase = "free" => task[t] = Free
    /\ ~Running(t) => task[t].hosts = {} /\ ~appVerifyBaseInfo[t].isPreinstalled

(* unVerifiedSet_ has the hosts whose handlers have not ended; a task that *)
(* is running has such a host and has not saved.                           *)
Pending(t) ==
    /\ unVerified[t] = {h \in Host : pc[t][h] # "idle"}
    /\ unVerified[t] \subseteq task[t].hosts
    /\ Running(t) => unVerified[t] # {} /\ saves[t] = 0

(* From the first answer on the shared priority is one that was given, and *)
(* each result has one that was.                                           *)
Given(t) ==
    /\ (\E h \in Host : pc[t][h] \notin {"idle", "queued"})
            => appVerifyBaseInfo[t].priority \in seen[t]
    /\ \A h \in task[t].hosts :
        pc[t][h] \in {"updated", "idle"} => result[t][h].priority \in seen[t]

InRange(p) == p = PRIORITY_UNSET \/ ~OutOfRange(p)

(* What the handler of a lone host knows of the priority at each step.     *)
Lone(t) ==
    \A h \in Host : task[t].hosts = {h} =>
        /\ pc[t][h] = "set" => appVerifyBaseInfo[t].priority # PRIORITY_UNSET
        /\ pc[t][h] = "notLow" => appVerifyBaseInfo[t].priority >= PRIORITY_MIN
        /\ pc[t][h] = "checked" /\ status[t][h] = "STATE_SUCCESS"
                => InRange(appVerifyBaseInfo[t].priority)
        /\ pc[t][h] = "updated" /\ result[t][h].status = "STATE_SUCCESS"
                => InRange(result[t][h].priority)

(* Each client error has a time. *)
Timed(map) ==
    \A h \in Host : map[h].status = "FAILURE_CLIENT_ERROR" => map[h].verifyTime # NoTime

(* The status s may be followed at time i by a client error. *)
Waited(s, i) == s.status = "FAILURE_CLIENT_ERROR" => i - s.verifyTime > CalcRetryDuration(s.retryCnt)

(* What a host had was old enough when it was chosen, and its result is    *)
(* this or a later one.                                                    *)
Times(t) ==
    /\ Timed(task[t].map)
    /\ Timed(result[t])
    /\ Running(t) => \A h \in Host :
        /\ h \in task[t].hosts => Waited(task[t].map[h], now)
        /\ \/ result[t][h] = task[t].map[h]
           \/ h \in task[t].hosts /\ Waited(task[t].map[h], result[t][h].verifyTime)

(* Each priority is unset or from a file, and each verdict is one.         *)
Sourced(t) ==
    /\ appVerifyBaseInfo[t].priority \in Priorities
    /\ \A h \in Host :
        /\ task[t].map[h].priority \in Priorities
        /\ result[t][h].priority \in Priorities
        /\ pc[t][h] \in {"answered", "set", "notLow", "checked"}
                => status[t][h] \notin {"UNKNOWN", "PRE_INSTALLED"}

(* A task has the hosts without a verdict, none that is verified, and its  *)
(* handlers leave a verdict for each of them.                              *)
Chosen(t) ==
    Running(t) => \A h \in Host :
        /\ task[t].map[h].status \in {"UNKNOWN", "PRE_INSTALLED"} => h \in task[t].hosts
        /\ task[t].map[h].status = "STATE_SUCCESS" => h \notin task[t].hosts
        /\ h \in task[t].hosts /\ pc[t][h] \in {"updated", "idle"} =>
            /\ result[t][h].status # "UNKNOWN"
            /\ result[t][h].status = "PRE_INSTALLED" => appVerifyBaseInfo[t].isPreinstalled

TaskInv(t) ==
    Idle(t) /\ Pending(t) /\ Given(t) /\ Lone(t) /\ Times(t) /\ Sourced(t) /\ Chosen(t)

Saved ==
    /\ Timed(stored)
    /\ \A h \in Host : stored[h].priority \in Priorities

(* To a task that has met no other what is stored is what it started from, *)
(* unless the bundle has gone or has a new version since.                  *)
Alone(t) ==
    t \in Present /\ ~task[t].overlap =>
        /\ Present = {t}
        /\ \A h \in Host : stored[h] \in {task[t].map[h], Fresh}

IInv == Types /\ Saved /\ \A t \in Task : TaskInv(t) /\ Alone(t)

LEMMA FreshType ==
    /\ Fresh \in VerifyStatuses
    /\ Fresh.status = "UNKNOWN"
    /\ Fresh.priority \in Priorities
    /\ AllFresh \in [Host -> VerifyStatuses]
    /\ Timed(AllFresh)
    /\ \A h \in Host : AllFresh[h] = Fresh
<1>1. Fresh \in VerifyStatuses /\ Fresh.status = "UNKNOWN" /\ Fresh.priority \in Priorities
  BY VerifyTaskAssumption
     DEF Fresh, VerifyStatus, VerifyStatuses, InnerVerifyStatus, NoTime, PRIORITY_UNSET, Priorities
<1> QED
  BY <1>1 DEF AllFresh, Timed

LEMMA FreeType ==
    /\ Free \in Tasks
    /\ Free.phase = "free" /\ Free.map = AllFresh /\ Free.hosts = {}
    /\ \A b \in BOOLEAN : /\ BaseInfo(b) \in BaseInfos
                          /\ BaseInfo(b).isPreinstalled = b
                          /\ BaseInfo(b).priority \in Priorities
<1>1. Free \in Tasks /\ Free.phase = "free" /\ Free.map = AllFresh /\ Free.hosts = {}
  BY FreshType DEF Free, Tasks
<1>2. ASSUME NEW b \in BOOLEAN
      PROVE  /\ BaseInfo(b) \in BaseInfos
             /\ BaseInfo(b).isPreinstalled = b
             /\ BaseInfo(b).priority \in Priorities
  BY DEF BaseInfo, BaseInfos, PRIORITY_UNSET, Priorities
<1> QED
  BY <1>1, <1>2

LEMMA InitIInv == Init => IInv
<1> SUFFICES ASSUME Init PROVE IInv
  OBVIOUS
<1>1. Types
  <2>1. task \in [Task -> Tasks] /\ appVerifyBaseInfo \in [Task -> BaseInfos]
    BY FreeType DEF Init
  <2>2. stored \in [Host -> VerifyStatuses] /\ result \in [Task -> [Host -> VerifyStatuses]]
    BY FreshType DEF Init
  <2>3. /\ unVerified \in [Task -> SUBSET Host]
        /\ pc \in [Task -> [Host -> PC]]
        /\ status \in [Task -> [Host -> InnerVerifyStatus]]
        /\ seen \in [Task -> SUBSET Int]
    BY DEF Init, InnerVerifyStatus, PC
  <2>4. /\ now \in 0 .. MaxTime
        /\ saves \in [Task -> 0 .. 1]
        /\ errors \in [Host -> 0 .. MaxErrors]
    BY VerifyTaskAssumption DEF Init
  <2> QED
    BY <2>1, <2>2, <2>3, <2>4 DEF Init, Types
<1>2. Saved
  BY FreshType DEF Init, Saved
<1>3. ASSUME NEW t \in Task PROVE TaskInv(t) /\ Alone(t)
  <2>1. /\ task[t] = Free
        /\ appVerifyBaseInfo[t] = BaseInfo(FALSE)
        /\ result[t] = AllFresh
        /\ unVerified[t] = {}
        /\ pc[t] = [h \in Host |-> "idle"]
    BY DEF Init
  <2>2. Idle(t) /\ Pending(t) /\ Given(t) /\ Lone(t)
    BY <2>1, FreeType DEF Idle, Running, Pending, Given, Lone
  <2>3. Times(t) /\ Sourced(t) /\ Chosen(t)
    BY <2>1, FreeType, FreshType DEF Running, Times, Sourced, Chosen
  <2>4. Alone(t)
    BY <2>1, FreeType DEF Alone, Present
  <2> QED
    BY <2>2, <2>3, <2>4 DEF TaskInv
<1> QED
  BY <1>1, <1>2, <1>3 DEF IInv
-----------------------------------------------------------------------------
(* What a task has of its own. *)
OwnStays(t) ==
    /\ appVerifyBaseInfo'[t] = appVerifyBaseInfo[t]
    /\ result'[t] = result[t]
    /\ unVerified'[t] = unVerified[t]
    /\ pc'[t] = pc[t]
    /\ status'[t] = status[t]
    /\ seen'[t] = seen[t]
    /\ saves'[t] = saves[t]

StartStays(t) ==
    /\ task'[t].phase = task[t].phase
    /\ task'[t].map = task[t].map
    /\ task'[t].hosts = task[t].hosts

(* A task that no step is of keeps what is known of it, while time passes. *)
LEMMA OwnKeeps ==
    ASSUME Types, Types', NEW t \in Task, TaskInv(t),
           OwnStays(t),
           StartStays(t),
           task'[t] = task[t] \/ task[t].phase # "free",
           now' >= now
    PROVE  TaskInv(t)'
<1> USE DEF OwnStays, StartStays
<1>2. Idle(t)' /\ Pending(t)'
  BY DEF TaskInv, Idle, Pending, Running
<1>3. Given(t)' /\ Lone(t)'
  BY DEF TaskInv, Given, Lone
<1>4. Sourced(t)' /\ Chosen(t)'
  BY DEF TaskInv, Sourced, Chosen, Running
<1>5. Timed(task'[t].map) /\ Timed(result'[t])
  BY DEF TaskInv, Times
<1>6. Running(t)' => Running(t)
  BY DEF Running
<1>7. ASSUME NEW h \in task[t].hosts, Waited(task[t].map[h], now) PROVE Waited(task[t].map[h], now')
  <2>1. task[t].map[h] \in VerifyStatuses
    BY DEF Types, Tasks
  <2> QED
    BY <1>7, <2>1, VerifyTaskAssumption, DurationType DEF Types, Waited, VerifyStatuses, NoTime
<1>8. Times(t)'
  BY <1>5, <1>6, <1>7 DEF TaskInv, Times
<1> QED
  BY <1>2, <1>3, <1>4, <1>8 DEF TaskInv

(* A step of one handler: all else of the invariant stays. *)
LEMMA HandlerKeeps ==
    ASSUME IInv, Types', NEW t \in Task, TaskInv(t)',
           UNCHANGED <<now, task, stored>>,
           \A u \in Task \ {t} : OwnStays(u)
    PROVE  IInv'
<1>1. ASSUME NEW u \in Task \ {t} PROVE TaskInv(u)'
  BY <1>1, OwnKeeps DEF IInv, StartStays, Types
<1>2. Saved'
  BY DEF IInv, Saved
<1>3. ASSUME NEW u \in Task PROVE Alone(u)'
  BY DEF IInv, Alone, Present
<1> QED
  BY <1>1, <1>2, <1>3 DEF IInv
(* An answer gives a verdict, with a priority of a file or the old one.    *)
LEMMA VerdictSourced ==
    ASSUME NEW r \in Response, NEW info, info.priority \in Priorities
    PROVE  /\ VerifyHost(r.code, r.file, info).priority \in Priorities
           /\ VerifyHost(r.code, r.file, info).status \notin {"UNKNOWN", "PRE_INSTALLED"}
<1>. DEFINE entries == r.file.apps
<1>1. r.code \in Int /\ DOMAIN entries \subseteq Nat
  BY VerifyTaskAssumption
<1>2. ASSUME NEW S \in SUBSET DOMAIN entries, S # {}
      PROVE  entries[Min(S)].priority \in Priorities
  <2>1. Min(S) \in DOMAIN entries
    BY <1>1, <1>2, LeastNat
  <2>. QED
    BY <2>1 DEF Priorities
<1>3. GetVerifyStatusFromHttpError(r.code) \notin {"UNKNOWN", "PRE_INSTALLED"}
  BY <1>1 DEF GetVerifyStatusFromHttpError, MULT_CHOICE, BAD_REQUEST, INTERNAL_ERROR
<1>4. /\ VerifyHostWithAppIdentifier(entries, info).status # "PRE_INSTALLED"
      /\ VerifyHostWithAppIdentifier(entries, info).priority \in Priorities
  <2>. DEFINE deciding == {i \in DOMAIN entries : Decides(entries[i], info)}
  <2>1. deciding # {} => entries[Min(deciding)].priority \in Priorities
    BY <1>2
  <2>. QED
    BY <2>1 DEF VerifyHostWithAppIdentifier, Verdict
<1>5. /\ VerifyHostWithBundleName(entries, info).status \notin {"UNKNOWN", "PRE_INSTALLED"}
      /\ VerifyHostWithBundleName(entries, info).priority \in Priorities
  <2>. DEFINE naming == {i \in DOMAIN entries : /\ entries[i].bundleName = info.bundleName
                                             /\ entries[i].fingerprint = info.fingerprint}
  <2>1. naming # {} => entries[Min(naming)].priority \in Priorities
    BY <1>2
  <2>. QED
    BY <2>1 DEF VerifyHostWithBundleName, Verdict
<1>6. CASE r.code # OK
  BY <1>3, <1>6 DEF VerifyHost, Verdict
<1>7. CASE r.code = OK /\ ~r.file.parsed
  BY <1>7 DEF VerifyHost, Verdict
<1>8. CASE r.code = OK /\ r.file.parsed
  BY <1>4, <1>5, <1>8 DEF VerifyHost, Verdict
<1>. QED
  BY <1>6, <1>7, <1>8


(* One lemma for each step of OnPostVerify. *)
LEMMA AnswerIInv == ASSUME IInv, NEW t \in Task, NEW h \in Host, Answer(t, h) PROVE IInv'
<1>1. PICK r \in Response :
        LET v == VerifyHost(r.code, r.file, appVerifyBaseInfo[t]) IN
        /\ status' = [status EXCEPT ![t][h] = v.status]
        /\ appVerifyBaseInfo' = [appVerifyBaseInfo EXCEPT ![t].priority = v.priority]
        /\ seen' = [seen EXCEPT ![t] = @ \cup {v.priority}]
  BY DEF Answer
<1>. DEFINE v == VerifyHost(r.code, r.file, appVerifyBaseInfo[t])
<1>2. Types /\ TaskInv(t)
  BY DEF IInv
<1>3. appVerifyBaseInfo[t] \in BaseInfos /\ appVerifyBaseInfo[t].priority \in Priorities
  BY <1>2 DEF Types, TaskInv, Sourced
<1>4. v.status \in InnerVerifyStatus /\ v.priority \in Int
  BY <1>3, VerdictType DEF BaseInfos
<1>5. v.priority \in Priorities /\ v.status \notin {"UNKNOWN", "PRE_INSTALLED"}
  BY <1>3, VerdictSourced
<1>6. /\ status' = [status EXCEPT ![t][h] = v.status]
      /\ appVerifyBaseInfo' = [appVerifyBaseInfo EXCEPT ![t].priority = v.priority]
      /\ seen' = [seen EXCEPT ![t] = @ \cup {v.priority}]
      /\ pc' = [pc EXCEPT ![t][h] = "answered"]
      /\ pc[t][h] = "queued"
      /\ UNCHANGED <<now, task, installed, stored, errors, mixed, result, unVerified, saves>>
  BY <1>1 DEF Answer, managerVars
<1> HIDE DEF v
<1>7. /\ appVerifyBaseInfo'[t].priority = v.priority
      /\ appVerifyBaseInfo'[t].isPreinstalled = appVerifyBaseInfo[t].isPreinstalled
      /\ status'[t][h] = v.status
      /\ \A g \in Host \ {h} : status'[t][g] = status[t][g] /\ pc'[t][g] = pc[t][g]
      /\ pc'[t][h] = "answered"
      /\ seen'[t] = seen[t] \cup {v.priority}
  <2>1. /\ appVerifyBaseInfo'[t].priority = v.priority
        /\ appVerifyBaseInfo'[t].isPreinstalled = appVerifyBaseInfo[t].isPreinstalled
    BY <1>2, <1>3, <1>6 DEF Types, BaseInfos
  <2>2. status'[t][h] = v.status /\ \A g \in Host \ {h} : status'[t][g] = status[t][g]
    BY <1>2, <1>6 DEF Types
  <2>3. pc'[t][h] = "answered" /\ \A g \in Host \ {h} : pc'[t][g] = pc[t][g]
    BY <1>2, <1>6 DEF Types
  <2>4. seen'[t] = seen[t] \cup {v.priority}
    BY <1>2, <1>6 DEF Types
  <2> QED
    BY <2>1, <2>2, <2>3, <2>4
<1>8. Types'
  <2>1. appVerifyBaseInfo' \in [Task -> BaseInfos]
    <3>1. [appVerifyBaseInfo[t] EXCEPT !.priority = v.priority] \in BaseInfos
      BY <1>3, <1>4 DEF BaseInfos
    <3>2. appVerifyBaseInfo'
            = [appVerifyBaseInfo EXCEPT ![t] = [appVerifyBaseInfo[t] EXCEPT !.priority = v.priority]]
      BY <1>2, <1>6 DEF Types
    <3> QED
      BY <1>2, <3>1, <3>2 DEF Types
  <2>2. pc' \in [Task -> [Host -> PC]] /\ status' \in [Task -> [Host -> InnerVerifyStatus]]
    BY <1>2, <1>4, <1>6 DEF Types, PC
  <2>3. seen' \in [Task -> SUBSET Int]
    BY <1>2, <1>4, <1>6 DEF Types
  <2> QED
    BY <1>2, <1>6, <2>1, <2>2, <2>3 DEF Types
<1>9. \A u \in Task \ {t} : OwnStays(u)
  BY <1>2, <1>6 DEF Types, OwnStays
<1>10. TaskInv(t)'
  <2> USE <1>6, <1>7 DEF TaskInv
  <2>1. Idle(t)' /\ Pending(t)'
    BY <1>2 DEF Idle, Pending, Running, Types
  <2>2. Given(t)' /\ Lone(t)'
    BY <1>2 DEF Given, Lone, Pending
  <2>3. Times(t)'
    BY <1>2 DEF Times, Running
  <2>4. Sourced(t)' /\ Chosen(t)'
    BY <1>2, <1>5 DEF Sourced, Chosen, Running
  <2> QED
    BY <2>1, <2>2, <2>3, <2>4
<1> QED
  BY <1>6, <1>8, <1>9, <1>10, HandlerKeeps

(* The three comparisons, of a status that is a verdict and stays one. *)
LEMMA CheckIInv ==
    ASSUME IInv, NEW t \in Task, NEW h \in Host,
           CheckUnset(t, h) \/ CheckMin(t, h) \/ CheckMax(t, h)
    PROVE  IInv'
<1>1. Types /\ TaskInv(t)
  BY DEF IInv
<1>2. UNCHANGED <<now, task, installed, stored, errors, mixed, appVerifyBaseInfo, result,
                  unVerified, seen, saves>>
  BY DEF CheckUnset, CheckMin, CheckMax, managerVars
<1>3. /\ pc[t][h] \in {"answered", "set", "notLow"}
      /\ pc'[t][h] \in {"set", "notLow", "checked"}
      /\ status'[t][h] \in {status[t][h], "FAILURE_CLIENT_ERROR"}
      /\ \A g \in Host \ {h} : status'[t][g] = status[t][g] /\ pc'[t][g] = pc[t][g]
      /\ \A u \in Task \ {t} : OwnStays(u)
      /\ pc' \in [Task -> [Host -> PC]]
      /\ status' \in [Task -> [Host -> InnerVerifyStatus]]
  <2> USE <1>1 DEF Types, OwnStays, PC
  <2>1. CASE CheckUnset(t, h)
    BY <1>2, <2>1 DEF CheckUnset
  <2>2. CASE CheckMin(t, h)
    <3>1. /\ pc[t][h] = "set"
          /\ \E x \in {"checked", "notLow"} : pc' = [pc EXCEPT ![t][h] = x]
          /\ status' = status \/ status' = [status EXCEPT ![t][h] = "FAILURE_CLIENT_ERROR"]
      BY <2>2 DEF CheckMin
    <3>2. /\ pc'[t][h] \in {"checked", "notLow"}
          /\ \A g \in Host \ {h} : pc'[t][g] = pc[t][g]
          /\ \A u \in Task \ {t} : pc'[u] = pc[u]
          /\ pc' \in [Task -> [Host -> PC]]
      BY <3>1
    <3>3. /\ status'[t][h] \in {status[t][h], "FAILURE_CLIENT_ERROR"}
          /\ \A g \in Host \ {h} : status'[t][g] = status[t][g]
          /\ \A u \in Task \ {t} : status'[u] = status[u]
          /\ status' \in [Task -> [Host -> InnerVerifyStatus]]
      <4>1. "FAILURE_CLIENT_ERROR" \in InnerVerifyStatus
        BY DEF InnerVerifyStatus
      <4>2. CASE status' = status
        BY <4>2
      <4>3. CASE status' = [status EXCEPT ![t][h] = "FAILURE_CLIENT_ERROR"]
        BY <4>1, <4>3
      <4> QED
        BY <3>1, <4>2, <4>3
    <3> QED
      BY <1>2, <3>1, <3>2, <3>3
  <2>3. CASE CheckMax(t, h)
    BY <1>2, <2>3 DEF CheckMax, InnerVerifyStatus
  <2> QED
    BY <2>1, <2>2, <2>3
<1>4. Types'
  BY <1>1, <1>2, <1>3 DEF Types
<1>5. Lone(t)'
  <2>1. SUFFICES ASSUME task[t].hosts = {h} PROVE Lone(t)'
    <3>1. pc[t][h] # "idle"
      BY <1>3
    <3>2. h \in task[t].hosts
      BY <1>1, <3>1 DEF TaskInv, Pending
    <3> QED
      BY <1>2, <3>2 DEF Lone
  <2>. DEFINE p == appVerifyBaseInfo[t].priority
  <2>2. p \in Int /\ p' = p
    BY <1>1, <1>2 DEF Types, BaseInfos
  <2>3. /\ pc'[t][h] = "set" => p # PRIORITY_UNSET
        /\ pc'[t][h] = "notLow" => p >= PRIORITY_MIN
        /\ pc'[t][h] = "checked" /\ status'[t][h] = "STATE_SUCCESS" => InRange(p)
    <3> USE <1>1, <2>1, <2>2 DEF Types, TaskInv, Lone
    <3>1. CASE CheckUnset(t, h)
      BY <3>1 DEF CheckUnset, InRange
    <3>2. CASE CheckMin(t, h)
      BY <3>2 DEF CheckMin, PRIORITY_MIN
    <3>3. CASE CheckMax(t, h)
      BY <3>3 DEF CheckMax, InRange, OutOfRange, PRIORITY_MIN, PRIORITY_MAX
    <3> QED
      BY <3>1, <3>2, <3>3
  <2> HIDE DEF p
  <2>4. \A g \in Host : task'[t].hosts = {g} => g = h
    BY <1>2, <2>1
  <2> QED
    BY <1>2, <1>3, <2>2, <2>3, <2>4 DEF Lone, p
<1>6. TaskInv(t)'
  <2> USE <1>1, <1>2, <1>3 DEF TaskInv
  <2>1. Idle(t)' /\ Pending(t)'
    BY DEF Idle, Pending, Running, Types
  <2>2. Given(t)'
    <3>1. appVerifyBaseInfo[t].priority \in seen[t]
      BY DEF Given
    <3>2. \A g \in task[t].hosts :
            pc'[t][g] \in {"updated", "idle"} => result[t][g].priority \in seen[t]
      BY DEF Given, Types, Tasks
    <3> QED
      BY <3>1, <3>2 DEF Given
  <2>3. Times(t)'
    BY DEF Times, Running
  <2>4. Sourced(t)' /\ Chosen(t)'
    BY DEF Sourced, Chosen, Running
  <2> QED
    BY <1>5, <2>1, <2>2, <2>3, <2>4
<1> QED
  BY <1>2, <1>3, <1>4, <1>6, HandlerKeeps

(* The result of a host: of this time, and with the priority of this time. *)
LEMMA CountedType ==
    ASSUME Types, NEW s \in InnerVerifyStatus, NEW p \in Int
    PROVE  /\ Counted(s, p) \in VerifyStatuses
           /\ Counted(s, p).verifyTime = now
           /\ Counted(s, p).priority = p
           /\ Counted(s, p).status = s
  BY VerifyTaskAssumption
     DEF Types, Counted, VerifyStatus, VerifyStatuses, InnerVerifyStatus, CLIENT_ERR_MAX_RETRY_COUNTS

LEMMA UpdateIInv ==
    ASSUME IInv, NEW t \in Task, NEW h \in Host, UpdateVerifyResultInfo(t, h) PROVE IInv'
<1>. DEFINE p == appVerifyBaseInfo[t].priority
            s == IF status[t][h] = "FAILURE_HTTP_UNKNOWN" /\ appVerifyBaseInfo[t].isPreinstalled
                   THEN "PRE_INSTALLED" ELSE status[t][h]
            c == Counted(s, p)
<1>1. Types /\ TaskInv(t)
  BY DEF IInv
<1>2. /\ result' = [result EXCEPT ![t][h] = c]
      /\ pc' = [pc EXCEPT ![t][h] = "updated"]
      /\ pc[t][h] = "checked"
      /\ UNCHANGED <<now, task, installed, stored, errors, mixed, appVerifyBaseInfo, unVerified,
                     status, seen, saves>>
  BY DEF UpdateVerifyResultInfo, managerVars
<1>3. /\ status[t][h] \in InnerVerifyStatus
      /\ status[t][h] \notin {"UNKNOWN", "PRE_INSTALLED"}
      /\ p \in Int /\ p \in Priorities /\ p \in seen[t]
  BY <1>1, <1>2 DEF Types, BaseInfos, TaskInv, Sourced, Given
<1>4. /\ s \in InnerVerifyStatus \ {"UNKNOWN"}
      /\ s = "PRE_INSTALLED" => appVerifyBaseInfo[t].isPreinstalled
      /\ s = "STATE_SUCCESS" => status[t][h] = "STATE_SUCCESS"
  BY <1>3 DEF InnerVerifyStatus
<1> HIDE DEF s, p
<1>5. c \in VerifyStatuses /\ c.verifyTime = now /\ c.priority = p /\ c.status = s
  BY <1>1, <1>3, <1>4, CountedType
<1> HIDE DEF c
<1>6. /\ result'[t][h] = c
      /\ pc'[t][h] = "updated"
      /\ \A g \in Host \ {h} : result'[t][g] = result[t][g] /\ pc'[t][g] = pc[t][g]
  BY <1>1, <1>2 DEF Types
<1>7. Types'
  BY <1>1, <1>2, <1>5 DEF Types, PC
<1>8. \A u \in Task \ {t} : OwnStays(u)
  BY <1>1, <1>2 DEF Types, OwnStays
<1>9. now # NoTime
  BY <1>1, VerifyTaskAssumption DEF Types, NoTime
<1>10. h \in task[t].hosts
  BY <1>1, <1>2 DEF TaskInv, Pending
<1>11. TaskInv(t)'
  <2> USE <1>1, <1>2, <1>5, <1>6 DEF TaskInv
  <2>1. Idle(t)' /\ Pending(t)'
    BY DEF Idle, Pending, Running, Types
  <2>2. Given(t)'
    BY <1>3 DEF Given
  <2>3. Lone(t)'
    BY <1>4 DEF Lone, p
  <2>4. Timed(task'[t].map) /\ Timed(result'[t])
    BY <1>9 DEF Times, Timed
  <2>5. Times(t)'
    BY <1>10, <2>4 DEF Times, Running
  <2>6. Sourced(t)' /\ Chosen(t)'
    BY <1>3, <1>4 DEF Sourced, Chosen, Running
  <2> QED
    BY <2>1, <2>2, <2>3, <2>5, <2>6
<1> QED
  BY <1>2, <1>7, <1>8, <1>11, HandlerKeeps

(* A task that is gone, its process with it or not, whatever it has saved. *)
LEMMA GoneIInv ==
    ASSUME IInv, NEW t \in Task, Gone(t), t \in Present \/ stored' = stored,
           stored' \in [Host -> VerifyStatuses], Saved',
           saves' \in [Task -> 0 .. 1], \A u \in Task \ {t} : saves'[u] = saves[u],
           UNCHANGED <<now, installed>>,
           errors' \in [Host -> 0 .. MaxErrors],
           mixed' \in BOOLEAN
    PROVE  IInv'
<1>1. Types
  BY DEF IInv
<1>2. /\ task' = [task EXCEPT ![t] = Free]
      /\ unVerified' = [unVerified EXCEPT ![t] = {}]
      /\ pc' = [pc EXCEPT ![t] = [h \in Host |-> "idle"]]
      /\ status' = [status EXCEPT ![t] = [h \in Host |-> "UNKNOWN"]]
      /\ appVerifyBaseInfo' = [appVerifyBaseInfo EXCEPT ![t] = BaseInfo(FALSE)]
      /\ result' = [result EXCEPT ![t] = AllFresh]
      /\ seen' = [seen EXCEPT ![t] = {}]
  BY DEF Gone
<1>3. Types'
  <2>1. task' \in [Task -> Tasks] /\ appVerifyBaseInfo' \in [Task -> BaseInfos]
    BY <1>1, <1>2, FreeType DEF Types
  <2>2. result' \in [Task -> [Host -> VerifyStatuses]]
    BY <1>1, <1>2, FreshType DEF Types
  <2>3. /\ unVerified' \in [Task -> SUBSET Host]
        /\ pc' \in [Task -> [Host -> PC]]
        /\ status' \in [Task -> [Host -> InnerVerifyStatus]]
        /\ seen' \in [Task -> SUBSET Int]
    BY <1>1, <1>2 DEF Types, PC, InnerVerifyStatus
  <2> QED
    BY <1>1, <2>1, <2>2, <2>3 DEF Types
<1>4. /\ task'[t] = Free
      /\ appVerifyBaseInfo'[t] = BaseInfo(FALSE)
      /\ result'[t] = AllFresh
      /\ unVerified'[t] = {}
      /\ pc'[t] = [h \in Host |-> "idle"]
  BY <1>1, <1>2 DEF Types
<1>5. TaskInv(t)'
  <2>1. Idle(t)' /\ Pending(t)' /\ Given(t)' /\ Lone(t)'
    BY <1>4, FreeType DEF Idle, Running, Pending, Given, Lone
  <2>2. Times(t)' /\ Sourced(t)' /\ Chosen(t)'
    BY <1>4, FreeType, FreshType DEF Running, Times, Sourced, Chosen
  <2> QED
    BY <2>1, <2>2 DEF TaskInv
<1>6. ASSUME NEW u \in Task \ {t} PROVE OwnStays(u) /\ task'[u] = task[u]
  BY <1>1, <1>2 DEF Types, OwnStays
<1>7. ASSUME NEW u \in Task \ {t} PROVE TaskInv(u)'
  <2>1. now' >= now
    BY <1>1 DEF Types
  <2>2. OwnStays(u) /\ StartStays(u) /\ task'[u] = task[u] /\ TaskInv(u)
    BY <1>6, <1>7 DEF IInv, StartStays
  <2> QED
    BY <1>1, <1>3, <2>1, <2>2, OwnKeeps
<1>8. Present' = Present \ {t}
  BY <1>4, <1>6, FreeType DEF Present
<1>9. ASSUME NEW u \in Task PROVE Alone(u)'
  <2>1. CASE u = t
    BY <1>8, <2>1 DEF Alone
  <2>2. CASE u # t
    BY <1>6, <1>8, <2>2 DEF IInv, Alone
  <2> QED
    BY <2>1, <2>2
<1> QED
  BY <1>3, <1>5, <1>7, <1>9 DEF IInv

(* What is saved is typed, and has a time for each client error. *)
LEMMA SaveType ==
    ASSUME IInv, NEW t \in Task, OnSaveVerifyResult(t), Running(t)
    PROVE  /\ stored' \in [Host -> VerifyStatuses]
           /\ Saved'
           /\ saves' \in [Task -> 0 .. 1]
           /\ \A u \in Task \ {t} : saves'[u] = saves[u]
           /\ errors' \in [Host -> 0 .. MaxErrors]
           /\ mixed' \in BOOLEAN
<1>1. Types /\ TaskInv(t) /\ Saved
  BY DEF IInv
<1>2. errors' \in [Host -> 0 .. MaxErrors]
  BY <1>1, VerifyTaskAssumption DEF Types, OnSaveVerifyResult
<1>3. stored' = stored \/ stored' = result[t]
  BY DEF OnSaveVerifyResult
<1>4. stored' \in [Host -> VerifyStatuses] /\ Saved'
  BY <1>1, <1>3 DEF Types, TaskInv, Times, Sourced, Saved
<1>5. saves' \in [Task -> 0 .. 1] /\ \A u \in Task \ {t} : saves'[u] = saves[u]
  BY <1>1 DEF Types, TaskInv, Pending, OnSaveVerifyResult
<1>6. mixed' \in BOOLEAN
  BY <1>1 DEF Types, Tasks, OnSaveVerifyResult
<1> QED
  BY <1>2, <1>4, <1>5, <1>6

LEMMA FinishIInv ==
    ASSUME IInv, NEW t \in Task, NEW h \in Host, Finish(t, h) PROVE IInv'
<1>1. Types /\ TaskInv(t)
  BY DEF IInv
<1>2. pc[t][h] = "updated" /\ UNCHANGED <<now, installed>>
  BY DEF Finish
<1>3. h \in unVerified[t] /\ h \in task[t].hosts /\ Running(t) /\ t \in Present
  BY <1>1, <1>2 DEF TaskInv, Idle, Pending, Running, Present
<1>4. unVerified[t] \subseteq {h} <=> LastRunning(t, h)
  BY <1>1, <1>3 DEF TaskInv, Pending, LastRunning
<1>5. CASE LastRunning(t, h)
  <2>1. OnSaveVerifyResult(t) /\ Gone(t)
    BY <1>4, <1>5 DEF Finish
  <2> QED
    BY <1>2, <1>3, <2>1, SaveType, GoneIInv
<1>6. CASE ~LastRunning(t, h)
  <2>1. /\ UNCHANGED <<task, stored, saves, errors, mixed, appVerifyBaseInfo, result, status, seen>>
        /\ unVerified' = [unVerified EXCEPT ![t] = @ \ {h}]
        /\ pc' = [pc EXCEPT ![t][h] = "idle"]
    BY <1>4, <1>6 DEF Finish
  <2>2. Types'
    BY <1>1, <1>2, <2>1 DEF Types, PC
  <2>3. /\ pc'[t][h] = "idle"
        /\ \A g \in Host \ {h} : pc'[t][g] = pc[t][g]
        /\ unVerified'[t] = unVerified[t] \ {h}
        /\ \A u \in Task \ {t} : OwnStays(u)
    BY <1>1, <2>1 DEF Types, OwnStays
  <2>4. TaskInv(t)'
    <3> USE <1>1, <1>2, <2>1, <2>3 DEF TaskInv
    <3>1. Idle(t)' /\ Pending(t)'
      BY <1>4, <1>6 DEF Idle, Pending, Running
    <3>2. Given(t)' /\ Lone(t)'
      BY DEF Given, Lone
    <3>3. Times(t)' /\ Sourced(t)' /\ Chosen(t)'
      BY DEF Times, Sourced, Chosen, Running
    <3> QED
      BY <3>1, <3>2, <3>3
  <2> QED
    BY <1>2, <2>1, <2>2, <2>3, <2>4, HandlerKeeps
<1> QED
  BY <1>5, <1>6

LEMMA OutdatedIs ==
    ASSUME Types
    PROVE  /\ Outdated \in [Task -> Tasks]
           /\ \A u \in Task : /\ Outdated[u].phase = task[u].phase
                              /\ Outdated[u].map = task[u].map
                              /\ Outdated[u].hosts = task[u].hosts
                              /\ Outdated[u].overlap = task[u].overlap
                              /\ Outdated[u] = task[u] \/ u \in Present
<1>1. ASSUME NEW u \in Task
      PROVE  /\ Outdated[u] \in Tasks
             /\ Outdated[u].phase = task[u].phase
             /\ Outdated[u].map = task[u].map
             /\ Outdated[u].hosts = task[u].hosts
             /\ Outdated[u].overlap = task[u].overlap
             /\ Outdated[u] = task[u] \/ u \in Present
  <2>1. Outdated[u] = IF u \in Present THEN [task[u] EXCEPT !.stale = TRUE] ELSE task[u]
    BY DEF Outdated
  <2>2. task[u] \in Tasks
    BY DEF Types
  <2> QED
    BY <2>1, <2>2 DEF Tasks
<1> QED
  BY <1>1 DEF Outdated

LEMMA NewTaskIs ==
    ASSUME NEW tasks \in [Task -> Tasks], NEW t \in Task, NEW phase \in {"copy", "running"},
           NEW map \in [Host -> VerifyStatuses], NEW hosts \in SUBSET Host,
           NEW new, new = NewTask(tasks, t, phase, map, hosts)
    PROVE  /\ new \in [Task -> Tasks]
           /\ new[t].phase = phase /\ new[t].map = map /\ new[t].hosts = hosts
           /\ new[t].overlap <=> Present # {}
           /\ \A u \in Task \ {t} : /\ new[u].phase = tasks[u].phase
                                    /\ new[u].map = tasks[u].map
                                    /\ new[u].hosts = tasks[u].hosts
                                    /\ u \in Present => new[u].overlap
                                    /\ new[u] = tasks[u] \/ u \in Present
<1>1. /\ new[t] \in Tasks
      /\ new[t].phase = phase /\ new[t].map = map /\ new[t].hosts = hosts
      /\ new[t].overlap <=> Present # {}
  <2>1. new[t] = [phase |-> phase, map |-> map, hosts |-> hosts, stale |-> FALSE,
                  overlap |-> Present # {}]
    BY DEF NewTask
  <2>. DEFINE overlap == Present # {}
  <2>2. overlap \in BOOLEAN
    OBVIOUS
  <2>3. new[t] = [phase |-> phase, map |-> map, hosts |-> hosts, stale |-> FALSE,
                  overlap |-> overlap]
    BY <2>1
  <2> HIDE DEF overlap
  <2>4. /\ new[t] \in Tasks
        /\ new[t].phase = phase /\ new[t].map = map /\ new[t].hosts = hosts
        /\ new[t].overlap = overlap
    BY <2>2, <2>3 DEF Tasks
  <2> QED
    BY <2>4 DEF overlap
<1>2. ASSUME NEW u \in Task \ {t}
      PROVE  /\ new[u] \in Tasks
             /\ new[u].phase = tasks[u].phase
             /\ new[u].map = tasks[u].map
             /\ new[u].hosts = tasks[u].hosts
             /\ u \in Present => new[u].overlap
             /\ new[u] = tasks[u] \/ u \in Present
  <2>1. new[u] = IF u \in Present THEN [tasks[u] EXCEPT !.overlap = TRUE] ELSE tasks[u]
    BY DEF NewTask
  <2>2. tasks[u] \in Tasks
    OBVIOUS
  <2> QED
    BY <2>1, <2>2 DEF Tasks
<1>3. new = [u \in Task |-> new[u]]
  BY DEF NewTask
<1>4. \A u \in Task : new[u] \in Tasks
  BY <1>1, <1>2
<1> QED
  BY <1>1, <1>2, <1>3, <1>4

(* A task that starts, from the map its place is given. *)
LEMMA ExecuteKeeps ==
    ASSUME Types, NEW t \in Task, NEW map \in [Host -> VerifyStatuses], Timed(map),
           \A h \in Host : map[h].priority \in Priorities,
           NEW hosts, hosts = NeedRetry(map), hosts # {},
           NEW isPreinstalled \in BOOLEAN, Execute(t, map, hosts, isPreinstalled),
           task'[t].phase = "running", task'[t].map = map, task'[t].hosts = hosts,
           UNCHANGED now
    PROVE  /\ appVerifyBaseInfo' \in [Task -> BaseInfos]
           /\ result' \in [Task -> [Host -> VerifyStatuses]]
           /\ unVerified' \in [Task -> SUBSET Host]
           /\ pc' \in [Task -> [Host -> PC]]
           /\ status' \in [Task -> [Host -> InnerVerifyStatus]]
           /\ seen' \in [Task -> SUBSET Int]
           /\ saves' \in [Task -> 0 .. 1]
           /\ \A u \in Task \ {t} : OwnStays(u)
           /\ TaskInv(t)'
<1>1. hosts \subseteq Host
  BY DEF NeedRetry
<1>2. /\ appVerifyBaseInfo'[t] = BaseInfo(isPreinstalled)
      /\ result'[t] = map
      /\ unVerified'[t] = hosts
      /\ pc'[t] = [h \in Host |-> IF h \in hosts THEN "queued" ELSE "idle"]
      /\ seen'[t] = {}
      /\ saves'[t] = 0
  BY DEF Types, Execute
<1>3. /\ appVerifyBaseInfo' \in [Task -> BaseInfos]
      /\ result' \in [Task -> [Host -> VerifyStatuses]]
      /\ unVerified' \in [Task -> SUBSET Host]
  BY <1>1, FreeType DEF Types, Execute
<1>4. /\ pc' \in [Task -> [Host -> PC]]
      /\ status' \in [Task -> [Host -> InnerVerifyStatus]]
      /\ seen' \in [Task -> SUBSET Int]
      /\ saves' \in [Task -> 0 .. 1]
  BY DEF Types, Execute, PC
<1>5. \A u \in Task \ {t} : OwnStays(u)
  BY DEF Types, Execute, OwnStays
<1>6. Idle(t)' /\ Pending(t)' /\ Given(t)' /\ Lone(t)'
  BY <1>1, <1>2 DEF Idle, Pending, Given, Lone, Running
<1>7. Sourced(t)'
  BY <1>2, FreeType DEF Sourced
<1>8. \A h \in hosts : h \in Host /\ IsNeedRetry(map[h])
  BY DEF NeedRetry
<1>9. \A h \in Host \ hosts : ~IsNeedRetry(map[h])
  BY DEF NeedRetry
<1>10. Times(t)'
  <2>1. \A h \in hosts : Waited(map[h], now)
    BY <1>8 DEF IsNeedRetry, HandleFailureClientError, Waited, Timed
  <2> QED
    BY <1>2, <2>1 DEF Times, Timed
<1>11. Chosen(t)'
  BY <1>2, <1>8, <1>9 DEF Chosen, IsNeedRetry
<1> QED
  BY <1>3, <1>4, <1>5, <1>6, <1>7, <1>10, <1>11 DEF TaskInv

(* The manager starts anew, and the tasks there are go on. *)
LEMMA OutdatedIInv ==
    ASSUME IInv, task' = Outdated, stored' = AllFresh,
           UNCHANGED <<now, handlerVars>>,
           installed' \in BOOLEAN, errors' \in [Host -> 0 .. MaxErrors], mixed' \in BOOLEAN
    PROVE  IInv'
<1>1. Types /\ Types'
  BY OutdatedIs, FreshType DEF IInv, Types, handlerVars
<1>2. ASSUME NEW u \in Task PROVE TaskInv(u)'
  <2>1. now' >= now
    BY <1>1 DEF Types
  <2>2. OwnStays(u)
    BY DEF handlerVars, OwnStays
  <2>3. StartStays(u) /\ (task'[u] = task[u] \/ task[u].phase # "free")
    BY <1>1, OutdatedIs DEF StartStays, Present
  <2> QED
    BY <1>1, <2>1, <2>2, <2>3, OwnKeeps DEF IInv
<1>3. Present' = Present /\ \A u \in Task : task'[u].overlap = task[u].overlap
  BY <1>1, OutdatedIs DEF Present
<1>4. \A u \in Task : Alone(u)'
  BY <1>3, FreshType DEF IInv, Alone
<1> QED
  BY <1>1, <1>2, <1>4, FreshType DEF IInv, Saved

(* A task that takes a place, where what is stored is what it starts from. *)
LEMMA NewTaskIInv ==
    ASSUME IInv, NEW tasks \in [Task -> Tasks],
           \A u \in Task : /\ tasks[u].phase = task[u].phase
                           /\ tasks[u].map = task[u].map
                           /\ tasks[u].hosts = task[u].hosts
                           /\ tasks[u] = task[u] \/ u \in Present,
           NEW t \in Task \ Present, NEW phase \in {"copy", "running"}, NEW hosts \in SUBSET Host,
           stored' \in [Host -> VerifyStatuses], Saved',
           task' = NewTask(tasks, t, phase, stored', hosts),
           Types', TaskInv(t)', \A u \in Task \ {t} : OwnStays(u),
           UNCHANGED now
    PROVE  IInv'
<1>1. Types
  BY DEF IInv
<1>. DEFINE map == stored'
<1>2. /\ task'[t].phase = phase /\ task'[t].map = map
      /\ task'[t].overlap <=> Present # {}
      /\ \A u \in Task \ {t} : /\ task'[u].phase = task[u].phase
                               /\ task'[u].map = task[u].map
                               /\ task'[u].hosts = task[u].hosts
                               /\ u \in Present => task'[u].overlap
                               /\ task'[u] = task[u] \/ u \in Present
  <2> HIDE DEF map
  <2>1. task' = NewTask(tasks, t, phase, map, hosts) /\ map \in [Host -> VerifyStatuses]
    BY DEF map
  <2> QED
    BY <2>1, NewTaskIs
<1>3. ASSUME NEW u \in Task \ {t} PROVE TaskInv(u)'
  <2>1. now' >= now
    BY <1>1 DEF Types
  <2>2. StartStays(u) /\ (task'[u] = task[u] \/ task[u].phase # "free")
    BY <1>2 DEF StartStays, Present
  <2> QED
    BY <1>1, <2>1, <2>2, OwnKeeps DEF IInv
<1>4. Present' = Present \cup {t}
  BY <1>2 DEF Present
<1>5. ASSUME NEW u \in Task PROVE Alone(u)'
  <2>1. CASE u = t
    BY <1>2, <1>4, <2>1 DEF Alone
  <2>2. CASE u # t
    BY <1>2, <1>4, <2>2 DEF Alone
  <2> QED
    BY <2>1, <2>2
<1> QED
  BY <1>3, <1>5 DEF IInv

LEMMA VerifyDomainIInv ==
    ASSUME IInv, NEW isPreinstalled \in BOOLEAN, VerifyDomain(isPreinstalled) PROVE IInv'
<1>1. Types
  BY DEF IInv
<1>2. /\ installed' = TRUE
      /\ stored' = AllFresh
      /\ errors' \in [Host -> 0 .. MaxErrors]
      /\ mixed' = FALSE
      /\ UNCHANGED now
  BY VerifyTaskAssumption DEF VerifyDomain
<1>3. CASE task' = Outdated /\ UNCHANGED handlerVars
  BY <1>2, <1>3, OutdatedIInv
<1>4. ASSUME NEW t \in Task \ Present,
             task' = NewTask(Outdated, t, "running", AllFresh, NeedRetry(AllFresh)),
             Execute(t, AllFresh, NeedRetry(AllFresh), isPreinstalled)
      PROVE  IInv'
  <2>. DEFINE hosts == NeedRetry(AllFresh)
  <2>1. hosts \in SUBSET Host /\ hosts # {}
    BY VerifyTaskAssumption, FreshType DEF NeedRetry, IsNeedRetry
  <2> HIDE DEF hosts
  <2>2. /\ task' = NewTask(Outdated, t, "running", AllFresh, hosts)
        /\ hosts = NeedRetry(AllFresh)
        /\ Execute(t, AllFresh, hosts, isPreinstalled)
    BY <1>4 DEF hosts
  <2>3. Outdated \in [Task -> Tasks]
    BY <1>1, OutdatedIs
  <2>4. /\ task' \in [Task -> Tasks]
        /\ task'[t].phase = "running" /\ task'[t].map = AllFresh /\ task'[t].hosts = hosts
    BY <2>1, <2>2, <2>3, FreshType, NewTaskIs
  <2>5. \A h \in Host : AllFresh[h].priority \in Priorities
    BY FreshType
  <2>6. /\ appVerifyBaseInfo' \in [Task -> BaseInfos]
        /\ result' \in [Task -> [Host -> VerifyStatuses]]
        /\ unVerified' \in [Task -> SUBSET Host]
        /\ pc' \in [Task -> [Host -> PC]]
        /\ status' \in [Task -> [Host -> InnerVerifyStatus]]
        /\ seen' \in [Task -> SUBSET Int]
        /\ saves' \in [Task -> 0 .. 1]
        /\ \A u \in Task \ {t} : OwnStays(u)
        /\ TaskInv(t)'
    BY <1>1, <1>2, <2>1, <2>2, <2>4, <2>5, FreshType, ExecuteKeeps
  <2>7. Types'
    BY <1>1, <1>2, <2>4, <2>6, FreshType DEF Types
  <2>8. Saved' /\ stored' \in [Host -> VerifyStatuses]
    BY <1>2, FreshType DEF Saved
  <2>9. task' = NewTask(Outdated, t, "running", stored', hosts)
    BY <1>2, <2>2
  <2>10. \A u \in Task : /\ Outdated[u].phase = task[u].phase
                         /\ Outdated[u].map = task[u].map
                         /\ Outdated[u].hosts = task[u].hosts
                         /\ Outdated[u] = task[u] \/ u \in Present
    BY <1>1, OutdatedIs
  <2> QED
    BY <1>2, <2>1, <2>3, <2>6, <2>7, <2>8, <2>9, <2>10, NewTaskIInv
<1> QED
  BY <1>3, <1>4 DEF VerifyDomain

LEMMA ClearIInv == ASSUME IInv, ClearDomainVerifyStatus PROVE IInv'
<1>1. /\ errors' \in [Host -> 0 .. MaxErrors]
      /\ installed' = FALSE /\ mixed' = FALSE
      /\ task' = Outdated /\ stored' = AllFresh
      /\ UNCHANGED <<now, handlerVars>>
  BY VerifyTaskAssumption DEF ClearDomainVerifyStatus
<1> QED
  BY <1>1, OutdatedIInv

LEMMA QueryIInv ==
    ASSUME IInv, NEW t \in Task, QueryAllDomainVerifyStatus(t) PROVE IInv'
<1>1. Types /\ TaskInv(t) /\ Saved
  BY DEF IInv
<1>2. /\ t \in Task \ Present
      /\ task' = NewTask(task, t, "copy", stored, {})
      /\ UNCHANGED <<now, installed, stored, errors, mixed, appVerifyBaseInfo, result, unVerified,
                     pc, status, seen, saves>>
  BY DEF QueryAllDomainVerifyStatus, handlerVars, managerVars
<1>3. /\ task' \in [Task -> Tasks]
      /\ task'[t].phase = "copy" /\ task'[t].map = stored /\ task'[t].hosts = {}
  <2>1. /\ task \in [Task -> Tasks] /\ stored \in [Host -> VerifyStatuses]
        /\ "copy" \in {"copy", "running"} /\ {} \in SUBSET Host /\ t \in Task
    BY <1>1, <1>2 DEF Types
  <2> QED
    BY <1>2, <2>1, NewTaskIs
<1>4. Types'
  BY <1>1, <1>2, <1>3 DEF Types
<1>5. task[t].phase = "free" /\ task[t].hosts = {}
  BY <1>1, <1>2 DEF Present, TaskInv, Idle, Running
<1>6. TaskInv(t)'
  <2>1. Idle(t)' /\ Pending(t)' /\ Given(t)' /\ Lone(t)'
    BY <1>1, <1>2, <1>3, <1>5 DEF TaskInv, Idle, Running, Pending, Given, Lone
  <2>2. Times(t)' /\ Sourced(t)' /\ Chosen(t)'
    BY <1>1, <1>2, <1>3 DEF TaskInv, Running, Times, Sourced, Chosen, Saved
  <2> QED
    BY <2>1, <2>2 DEF TaskInv
<1>7. \A u \in Task \ {t} : OwnStays(u)
  BY <1>2 DEF OwnStays
<1>8. Saved' /\ stored' \in [Host -> VerifyStatuses] /\ task \in [Task -> Tasks]
  BY <1>1, <1>2 DEF Saved, Types
<1>9. task' = NewTask(task, t, "copy", stored', {})
  BY <1>2
<1> QED
  BY <1>2, <1>4, <1>6, <1>7, <1>8, <1>9, NewTaskIInv

LEMMA RefreshIInv ==
    ASSUME IInv, NEW t \in Task, CompleteVerifyRefresh(t) PROVE IInv'
<1>. DEFINE map == task[t].map
            hosts == NeedRetry(map)
<1>1. Types /\ TaskInv(t) /\ Saved
  BY DEF IInv
<1>2. /\ task[t].phase = "copy"
      /\ UNCHANGED <<now, installed, stored, errors, mixed>>
  BY DEF CompleteVerifyRefresh, managerVars
<1>3. CASE installed /\ hosts # {}
  <2>1. /\ task' = [task EXCEPT ![t].phase = "running", ![t].hosts = hosts]
        /\ Execute(t, map, hosts, FALSE)
    BY <1>3 DEF CompleteVerifyRefresh
  <2>2. hosts \in SUBSET Host /\ map \in [Host -> VerifyStatuses]
    BY <1>1 DEF NeedRetry, Types, Tasks
  <2>3. hosts = NeedRetry(map) /\ map = task[t].map
    OBVIOUS
  <2>4. Timed(map) /\ \A h \in Host : map[h].priority \in Priorities
    BY <1>1 DEF TaskInv, Times, Sourced
  <2>5. hosts # {}
    BY <1>3
  <2> HIDE DEF hosts, map
  <2>6. /\ task' \in [Task -> Tasks]
        /\ task'[t].phase = "running" /\ task'[t].map = map /\ task'[t].hosts = hosts
        /\ task'[t].overlap = task[t].overlap
        /\ \A u \in Task \ {t} : task'[u] = task[u]
    <3>. DEFINE place == [task[t] EXCEPT !.phase = "running", !.hosts = hosts]
    <3>1. task \in [Task -> Tasks] /\ task[t] \in Tasks
      BY <1>1 DEF Types
    <3>2. /\ place \in Tasks
          /\ place.phase = "running" /\ place.map = map /\ place.hosts = hosts
          /\ place.overlap = task[t].overlap
      BY <2>2, <2>3, <3>1 DEF Tasks
    <3>3. task' = [task EXCEPT ![t] = place]
      BY <2>1, <3>1
    <3> HIDE DEF place
    <3> QED
      BY <3>1, <3>2, <3>3
  <2>7. /\ appVerifyBaseInfo' \in [Task -> BaseInfos]
        /\ result' \in [Task -> [Host -> VerifyStatuses]]
        /\ unVerified' \in [Task -> SUBSET Host]
        /\ pc' \in [Task -> [Host -> PC]]
        /\ status' \in [Task -> [Host -> InnerVerifyStatus]]
        /\ seen' \in [Task -> SUBSET Int]
        /\ saves' \in [Task -> 0 .. 1]
        /\ \A u \in Task \ {t} : OwnStays(u)
        /\ TaskInv(t)'
    BY <1>1, <1>2, <2>1, <2>2, <2>3, <2>4, <2>5, <2>6, ExecuteKeeps
  <2>8. Types'
    BY <1>1, <1>2, <2>6, <2>7 DEF Types
  <2>9. ASSUME NEW u \in Task \ {t} PROVE TaskInv(u)'
    <3>1. now' >= now
      BY <1>1, <1>2 DEF Types
    <3> QED
      BY <1>1, <2>6, <2>7, <2>8, <3>1, OwnKeeps DEF IInv, StartStays
  <2>10. Present' = Present
    BY <1>2, <2>6 DEF Present
  <2>11. \A u \in Task : Alone(u)'
    BY <1>2, <2>3, <2>6, <2>10 DEF IInv, Alone
  <2>12. Saved'
    BY <1>1, <1>2 DEF Saved
  <2> QED
    BY <2>7, <2>8, <2>9, <2>11, <2>12 DEF IInv
<1>4. CASE ~(installed /\ hosts # {})
  <2>1. task' = [task EXCEPT ![t] = Free] /\ UNCHANGED handlerVars
    BY <1>4 DEF CompleteVerifyRefresh
  <2>2. UNCHANGED <<appVerifyBaseInfo, result, unVerified, pc, status, seen, saves>>
    BY <2>1 DEF handlerVars
  <2>3. /\ task' \in [Task -> Tasks]
        /\ task'[t] = Free
        /\ \A u \in Task \ {t} : task'[u] = task[u]
    BY <1>1, <2>1, FreeType DEF Types
  <2>4. Types'
    BY <1>1, <1>2, <2>2, <2>3 DEF Types
  <2>5. task[t].hosts = {} /\ ~appVerifyBaseInfo[t].isPreinstalled
    BY <1>1, <1>2 DEF TaskInv, Idle, Running
  <2>6. TaskInv(t)'
    <3>1. Idle(t)' /\ Pending(t)' /\ Given(t)' /\ Lone(t)'
      BY <1>1, <2>2, <2>3, <2>5, FreeType DEF TaskInv, Idle, Running, Pending, Given, Lone
    <3>2. Times(t)' /\ Sourced(t)' /\ Chosen(t)'
      BY <1>1, <2>2, <2>3, FreeType, FreshType DEF TaskInv, Running, Times, Sourced, Chosen
    <3> QED
      BY <3>1, <3>2 DEF TaskInv
  <2>7. ASSUME NEW u \in Task \ {t} PROVE TaskInv(u)'
    <3>1. now' >= now
      BY <1>1, <1>2 DEF Types
    <3> QED
      BY <1>1, <2>2, <2>3, <2>4, <3>1, OwnKeeps DEF IInv, StartStays, OwnStays
  <2>8. Present' = Present \ {t}
    BY <2>3, FreeType DEF Present
  <2>9. ASSUME NEW u \in Task PROVE Alone(u)'
    <3>1. CASE u = t
      BY <2>8, <3>1 DEF Alone
    <3>2. CASE u # t
      BY <1>2, <2>3, <2>8, <3>2 DEF IInv, Alone
    <3> QED
      BY <3>1, <3>2
  <2>10. Saved'
    BY <1>1, <1>2 DEF Saved
  <2> QED
    BY <2>4, <2>6, <2>7, <2>9, <2>10 DEF IInv
<1> QED
  BY <1>3, <1>4

LEMMA NextIInv == IInv /\ [Next]_vars => IInv'
<1> SUFFICES ASSUME IInv, [Next]_vars PROVE IInv'
  OBVIOUS
<1>1. ASSUME NEW t \in Task, NEW h \in Host, OnPostVerify(t, h) PROVE IInv'
  BY <1>1, AnswerIInv, CheckIInv, UpdateIInv, FinishIInv DEF OnPostVerify
<1>2. ASSUME NEW t \in Task, Lost(t) PROVE IInv'
  <2>1. /\ Gone(t) /\ t \in Present
        /\ UNCHANGED <<now, installed, stored, errors, mixed, saves>>
    BY <1>2 DEF Lost, managerVars
  <2>2. /\ stored' \in [Host -> VerifyStatuses] /\ Saved'
        /\ saves' \in [Task -> 0 .. 1]
        /\ errors' \in [Host -> 0 .. MaxErrors] /\ mixed' \in BOOLEAN
    BY <2>1 DEF IInv, Types, Saved
  <2> QED
    BY <2>1, <2>2, GoneIInv
<1>3. ASSUME Tick \/ UNCHANGED vars PROVE IInv'
  <2>1. /\ UNCHANGED <<task, installed, stored, errors, mixed, appVerifyBaseInfo, result,
                       unVerified, pc, status, seen, saves>>
        /\ now' = now \/ (now < MaxTime /\ now' = now + 1)
    BY <1>3 DEF Tick, vars, handlerVars, managerVars
  <2>2. Types' /\ now' >= now
    BY <2>1, VerifyTaskAssumption DEF IInv, Types
  <2>3. ASSUME NEW u \in Task PROVE TaskInv(u)'
    <3>1. OwnStays(u) /\ StartStays(u) /\ task'[u] = task[u]
      BY <2>1 DEF OwnStays, StartStays
    <3> QED
      BY <2>2, <3>1, OwnKeeps DEF IInv
  <2>4. Saved' /\ \A u \in Task : Alone(u)'
    BY <2>1 DEF IInv, Saved, Alone, Present
  <2> QED
    BY <2>2, <2>3, <2>4 DEF IInv
<1> QED
  BY <1>1, <1>2, <1>3, VerifyDomainIInv, ClearIInv, QueryIInv, RefreshIInv DEF Next
-----------------------------------------------------------------------------
(* The invariant: which hosts of a task are pending, what is known of its  *)
(* shared priority at each step of a handler, how old each client error    *)
(* is, and that a task that meets no other finds stored what it started    *)
(* from.                                                                   *)
THEOREM SpecIInv == Spec => []IInv
  BY InitIInv, NextIInv, PTL DEF Spec

(* Type correctness for any hosts, tasks, answers and bounds: a task       *)
(* counts at most one save, and each saved status is of the enumeration.   *)
THEOREM SpecTypeOK == Spec => []TypeOK
<1>1. IInv => TypeOK
  BY DEF IInv, Types, TypeOK, PC, Tasks, BaseInfos
<1> QED
  BY <1>1, SpecIInv, PTL

(* The steps that save, and those that end a task. *)
LEMMA SaveSteps ==
    ASSUME IInv, Next, NEW t \in Task
    PROVE  /\ saves'[t] > saves[t] => \E h \in Host : Finish(t, h)
           /\ Running(t) /\ ~Running(t)' => Lost(t) \/ \E h \in Host : Finish(t, h)
           /\ stored' \in {stored, AllFresh} \/ \E u \in Task, h \in Host : Finish(u, h)
<1> DEFINE Goal == /\ saves'[t] > saves[t] => \E h \in Host : Finish(t, h)
                   /\ Running(t) /\ ~Running(t)' => Lost(t) \/ \E h \in Host : Finish(t, h)
                   /\ stored' \in {stored, AllFresh} \/ \E u \in Task, h \in Host : Finish(u, h)
<1>1. Types
  BY DEF IInv
<1>2. ~(saves[t] > saves[t]) /\ ~(0 > saves[t])
  BY <1>1 DEF Types
<1>3. ASSUME NEW u \in Task, NEW h \in Host, Finish(u, h) PROVE Goal
  <2>1. CASE u = t
    BY <1>3, <2>1
  <2>2. CASE u # t
    <3>1. saves'[t] = saves[t] /\ task'[t] = task[t]
      BY <1>1, <1>3, <2>2 DEF Types, Finish, OnSaveVerifyResult, Gone
    <3> QED
      BY <1>2, <1>3, <3>1 DEF Running
  <2> QED
    BY <2>1, <2>2
<1>4. ASSUME NEW u \in Task, NEW h \in Host, OnPostVerify(u, h), ~Finish(u, h) PROVE Goal
  <2>1. UNCHANGED <<task, stored, saves>>
    BY <1>4 DEF OnPostVerify, Answer, CheckUnset, CheckMin, CheckMax, UpdateVerifyResultInfo,
       managerVars
  <2> QED
    BY <1>2, <2>1 DEF Running
<1>5. ASSUME NEW u \in Task, Lost(u) PROVE Goal
  <2>1. UNCHANGED <<stored, saves>> /\ (u # t => task'[t] = task[t])
    BY <1>1, <1>5 DEF Lost, Gone, managerVars, Types
  <2> QED
    BY <1>2, <1>5, <2>1 DEF Running
<1>6. ASSUME NEW u \in Task, NEW map, NEW hosts, NEW pre, Execute(u, map, hosts, pre)
      PROVE  saves'[t] \in {0, saves[t]}
  BY <1>1, <1>6 DEF Execute, Types
<1>7. ASSUME NEW pre \in BOOLEAN, VerifyDomain(pre) PROVE Goal
  <2>1. stored' = AllFresh
    BY <1>7 DEF VerifyDomain
  <2>2. saves'[t] \in {0, saves[t]}
    BY <1>6, <1>7 DEF VerifyDomain, handlerVars
  <2>3. task'[t].phase = task[t].phase \/ task'[t].phase = "running"
    <3>1. CASE task' = Outdated
      BY <1>1, <3>1, OutdatedIs
    <3>2. ASSUME NEW u \in Task \ Present,
                 task' = NewTask(Outdated, u, "running", AllFresh, NeedRetry(AllFresh))
          PROVE  task'[t].phase = task[t].phase \/ task'[t].phase = "running"
      <4>. DEFINE hosts == NeedRetry(AllFresh)
      <4>1. hosts \in SUBSET Host
        BY DEF NeedRetry
      <4>2. task' = NewTask(Outdated, u, "running", AllFresh, hosts)
        BY <3>2
      <4> HIDE DEF hosts
      <4>3. /\ task'[u].phase = "running"
            /\ \A w \in Task \ {u} : task'[w].phase = Outdated[w].phase
        BY <1>1, <4>1, <4>2, OutdatedIs, FreshType, NewTaskIs
      <4> QED
        BY <1>1, <4>3, OutdatedIs
    <3> QED
      BY <1>7, <3>1, <3>2 DEF VerifyDomain
  <2> QED
    BY <1>2, <2>1, <2>2, <2>3 DEF Running
<1>8. CASE ClearDomainVerifyStatus
  <2>1. stored' = AllFresh /\ saves' = saves /\ task'[t].phase = task[t].phase
    BY <1>1, <1>8, OutdatedIs DEF ClearDomainVerifyStatus, handlerVars
  <2> QED
    BY <1>2, <2>1 DEF Running
<1>9. ASSUME NEW u \in Task, QueryAllDomainVerifyStatus(u) PROVE Goal
  <2>1. /\ UNCHANGED <<stored, saves>>
        /\ u \in Task \ Present
        /\ task' = NewTask(task, u, "copy", stored, {})
    BY <1>9 DEF QueryAllDomainVerifyStatus, handlerVars, managerVars
  <2>2. \A w \in Task \ {u} : task'[w].phase = task[w].phase
    <3>1. /\ task \in [Task -> Tasks] /\ stored \in [Host -> VerifyStatuses]
          /\ "copy" \in {"copy", "running"} /\ {} \in SUBSET Host
      BY <1>1 DEF Types
    <3> QED
      BY <2>1, <3>1, NewTaskIs
  <2>3. task[u].phase = "free"
    BY <2>1 DEF Present
  <2> QED
    BY <1>2, <2>1, <2>2, <2>3 DEF Running
<1>10. ASSUME NEW u \in Task, CompleteVerifyRefresh(u) PROVE Goal
  <2>1. UNCHANGED stored /\ saves'[t] \in {0, saves[t]}
    BY <1>6, <1>10 DEF CompleteVerifyRefresh, handlerVars, managerVars
  <2>2. task[u].phase = "copy" /\ (u # t => task'[t] = task[t])
    BY <1>1, <1>10 DEF CompleteVerifyRefresh, Types
  <2> QED
    BY <1>2, <2>1, <2>2 DEF Running
<1>11. CASE Tick
  BY <1>2, <1>11 DEF Tick, handlerVars, managerVars, Running
<1> QED
  BY <1>3, <1>4, <1>5, <1>7, <1>8, <1>9, <1>10, <1>11 DEF Next

(* A handler that ends is of a task that is running, and saves only if it  *)
(* is the last of it.                                                      *)
LEMMA FinishIs ==
    ASSUME IInv, NEW t \in Task, NEW h \in Host, Finish(t, h)
    PROVE  /\ Running(t) /\ t \in Present /\ saves[t] = 0
           /\ pc[t][h] = "updated" /\ h \in task[t].hosts
           /\ UNCHANGED <<now, installed>>
           /\ \/ /\ ~LastRunning(t, h)
                 /\ UNCHANGED <<task, stored, saves, errors, mixed, appVerifyBaseInfo>>
              \/ /\ LastRunning(t, h)
                 /\ \A g \in Host : pc[t][g] \in {"updated", "idle"}
                 /\ OnSaveVerifyResult(t)
                 /\ Gone(t)
                 /\ ~Running(t)'
                 /\ saves'[t] = 1
<1>1. Types /\ TaskInv(t)
  BY DEF IInv
<1>2. pc[t][h] = "updated" /\ UNCHANGED <<now, installed>>
  BY DEF Finish
<1>3. h \in unVerified[t] /\ h \in task[t].hosts /\ Running(t) /\ t \in Present /\ saves[t] = 0
  BY <1>1, <1>2 DEF TaskInv, Idle, Pending, Running, Present
<1>4. unVerified[t] \subseteq {h} <=> LastRunning(t, h)
  BY <1>1, <1>3 DEF TaskInv, Pending, LastRunning
<1>5. CASE LastRunning(t, h)
  <2>1. OnSaveVerifyResult(t) /\ Gone(t)
    BY <1>4, <1>5 DEF Finish
  <2>2. saves'[t] = 1
    BY <1>1, <1>3, <2>1 DEF Types, OnSaveVerifyResult
  <2>3. task'[t] = Free
    BY <1>1, <2>1 DEF Types, Gone
  <2>4. ~Running(t)'
    BY <2>3, FreeType DEF Running
  <2>5. \A g \in Host : pc[t][g] \in {"updated", "idle"}
    BY <1>2, <1>5 DEF LastRunning
  <2> QED
    BY <1>2, <1>3, <1>5, <2>1, <2>2, <2>4, <2>5
<1>6. CASE ~LastRunning(t, h)
  BY <1>2, <1>3, <1>4, <1>6 DEF Finish
<1> QED
  BY <1>5, <1>6

(* A save carries the result of every host the task requested, each with a *)
(* priority some answer gave, whatever the order of the handlers' steps.   *)
THEOREM SpecSaveIsWhole == Spec => SaveIsWhole
<1> DEFINE Whole == \A t \in Task : saves'[t] > saves[t] =>
        \A h \in task[t].hosts : /\ pc[t][h] \in {"updated", "idle"}
                                 /\ result[t][h].priority \in seen[t]
<1>1. ASSUME IInv, Next PROVE Whole
  <2>1. SUFFICES ASSUME NEW t \in Task, saves'[t] > saves[t]
                 PROVE  \A g \in task[t].hosts : /\ pc[t][g] \in {"updated", "idle"}
                                                 /\ result[t][g].priority \in seen[t]
    OBVIOUS
  <2>2. PICK h \in Host : Finish(t, h)
    BY <1>1, <2>1, SaveSteps
  <2>3. ~(saves[t] > saves[t])
    <3>1. saves[t] \in 0 .. 1
      BY <1>1 DEF IInv, Types
    <3> QED
      BY <3>1
  <2>4. \A g \in Host : pc[t][g] \in {"updated", "idle"}
    BY <1>1, <2>1, <2>2, <2>3, FinishIs
  <2>5. task[t].hosts \subseteq Host /\ Given(t)
    BY <1>1 DEF IInv, Types, Tasks, TaskInv
  <2> QED
    BY <2>4, <2>5 DEF Given
<1>2. IInv /\ [Next]_vars => [Whole]_vars
  BY <1>1
<1> QED
  BY <1>2, SpecIInv, PTL DEF Spec, SaveIsWhole

(* A task that is running has not saved, and ends by saving unless its     *)
(* process ends first.                                                     *)
THEOREM SpecEndsBySaving == Spec => EndsBySaving
<1> DEFINE Unsaved == \A t \in Task : Running(t) => saves[t] = 0
           Ends == \A t \in Task : Running(t) /\ ~Running(t)' => saves'[t] = 1 \/ Lost(t)
<1>1. IInv => Unsaved
  BY DEF IInv, TaskInv, Pending
<1>2. ASSUME IInv, Next PROVE Ends
  <2>1. SUFFICES ASSUME NEW t \in Task, Running(t), ~Running(t)', ~Lost(t) PROVE saves'[t] = 1
    OBVIOUS
  <2>2. PICK h \in Host : Finish(t, h)
    BY <1>2, <2>1, SaveSteps
  <2>3. UNCHANGED task => (Running(t) <=> Running(t)')
    BY DEF Running
  <2> QED
    BY <1>2, <2>1, <2>2, <2>3, FinishIs
<1>3. IInv /\ [Next]_vars => [Ends]_vars
  BY <1>2
<1> QED
  BY <1>1, <1>3, SpecIInv, PTL DEF Spec, EndsBySaving

(* The only host of a task is saved as verified only with a priority in    *)
(* range or not set: each comparison still sees the value its answer gave. *)
THEOREM SpecLoneHostInRange == Spec => []LoneHostInRange
<1>1. IInv => LoneHostInRange
  BY DEF IInv, TaskInv, Lone, InRange, LoneHostInRange
<1> QED
  BY <1>1, SpecIInv, PTL

(* Two client errors of a host in a row are saved only with more than the  *)
(* retry duration between them, whatever fails, dies or is lost, unless    *)
(* the task that saves has overlapped another.                             *)
THEOREM SpecBackoffHolds == Spec => BackoffHolds
<1> DEFINE Overlapped == \E t \in Task : Running(t) /\ ~Running(t)' /\ task[t].overlap
           Holds == \A h \in Host :
                /\ stored[h].status = "FAILURE_CLIENT_ERROR"
                /\ stored'[h].status = "FAILURE_CLIENT_ERROR"
                /\ stored'[h].verifyTime # stored[h].verifyTime
                => \/ stored'[h].verifyTime - stored[h].verifyTime
                        > CalcRetryDuration(stored[h].retryCnt)
                   \/ Overlapped
<1>1. ASSUME IInv, Next PROVE Holds
  <2>1. CASE stored' \in {stored, AllFresh}
    BY <2>1, FreshType
  <2>2. ASSUME NEW t \in Task, NEW g \in Host, Finish(t, g), stored' # stored PROVE Holds
    <3>1. /\ Running(t) /\ ~Running(t)' /\ t \in Present
          /\ stored' = result[t]
      BY <1>1, <2>2, FinishIs DEF OnSaveVerifyResult
    <3>2. CASE task[t].overlap
      BY <3>1, <3>2
    <3>3. CASE ~task[t].overlap
      <4>1. ASSUME NEW h \in Host,
                   stored[h].status = "FAILURE_CLIENT_ERROR",
                   stored'[h].status = "FAILURE_CLIENT_ERROR",
                   stored'[h].verifyTime # stored[h].verifyTime
            PROVE  stored'[h].verifyTime - stored[h].verifyTime
                        > CalcRetryDuration(stored[h].retryCnt)
        <5>1. stored[h] = task[t].map[h]
          BY <1>1, <3>1, <3>3, <4>1, FreshType DEF IInv, Alone
        <5>2. \/ result[t][h] = task[t].map[h]
              \/ Waited(task[t].map[h], result[t][h].verifyTime)
          BY <1>1, <3>1 DEF IInv, TaskInv, Times
        <5> QED
          BY <3>1, <4>1, <5>1, <5>2 DEF Waited
      <4> QED
        BY <4>1
    <3> QED
      BY <3>2, <3>3
  <2>3. CASE Task = {}
    BY <1>1, <2>1, <2>3 DEF Next, VerifyDomain, ClearDomainVerifyStatus, Tick, managerVars
  <2> QED
    BY <1>1, <2>1, <2>2, <2>3, SaveSteps
<1>2. IInv /\ [Next]_vars => [Holds]_vars
  BY <1>1
<1> QED
  BY <1>2, SpecIInv, PTL DEF Spec, BackoffHolds
-----------------------------------------------------------------------------
(***************************************************************************)
(* What tasks save, as the manager sees it.                                *)
(***************************************************************************)
(* A place of the manager, from a place here and its preinstalled.         *)
Place(tk, pre) ==
    [phase |-> tk.phase,
     bundle |-> IF tk.phase # "free" THEN "bundle" ELSE "none",
     app |-> IF tk.phase = "running" THEN "app" ELSE "none",
     pre |-> pre,
     map |-> IF tk.phase # "free" THEN ToldMap(tk.map) ELSE NoHosts,
     stale |-> tk.stale, overlap |-> tk.overlap]

Places ==
    [phase : {"free", "copy", "running"}, bundle : {"bundle", "none"}, app : {"app", "none"},
     pre : BOOLEAN, map : {ToldMap(map) : map \in [Host -> VerifyStatuses]} \cup {NoHosts},
     stale : BOOLEAN, overlap : BOOLEAN]

LEMMA PlaceType ==
    ASSUME NEW tk \in Tasks, NEW pre \in BOOLEAN
    PROVE  Place(tk, pre) \in Places
<1>1. /\ tk.phase \in {"free", "copy", "running"} /\ tk.map \in [Host -> VerifyStatuses]
      /\ tk.stale \in BOOLEAN /\ tk.overlap \in BOOLEAN
  BY DEF Tasks
<1> QED
  BY <1>1 DEF Place, Places

LEMMA SamePlace ==
    ASSUME NEW x \in Places, NEW y \in Places,
           x.phase = y.phase, x.bundle = y.bundle, x.app = y.app, x.pre = y.pre,
           x.map = y.map, x.stale = y.stale, x.overlap = y.overlap
    PROVE  x = y
  BY DEF Places

(* A place whose task is outdated, or overlapped; and a copy that starts.  *)
LEMMA PlaceStale ==
    ASSUME NEW tk \in Tasks, NEW pre \in BOOLEAN,
           NEW old, old = [tk EXCEPT !.stale = TRUE]
    PROVE  Place(old, pre) = [Place(tk, pre) EXCEPT !.stale = TRUE]
<1>1. /\ old \in Tasks /\ old.stale = TRUE
      /\ old.phase = tk.phase /\ old.map = tk.map /\ old.overlap = tk.overlap
  BY DEF Tasks
<1>. DEFINE p == Place(tk, pre)
            q == Place(old, pre)
            r == [p EXCEPT !.stale = TRUE]
<1>2. p \in Places /\ q \in Places
  BY <1>1, PlaceType
<1>3. /\ q.phase = p.phase /\ q.bundle = p.bundle /\ q.app = p.app /\ q.pre = p.pre
      /\ q.map = p.map /\ q.stale = TRUE /\ q.overlap = p.overlap
  BY <1>1 DEF Place
<1>4. r = [p EXCEPT !.stale = TRUE]
  OBVIOUS
<1> HIDE DEF p, q, r
<1>5. /\ r \in Places
      /\ r.phase = p.phase /\ r.bundle = p.bundle /\ r.app = p.app /\ r.pre = p.pre
      /\ r.map = p.map /\ r.stale = TRUE /\ r.overlap = p.overlap
  BY <1>2, <1>4 DEF Places
<1>6. q = r
  BY <1>2, <1>3, <1>5, SamePlace
<1> QED
  BY <1>6 DEF p, q, r

LEMMA PlaceOverlap ==
    ASSUME NEW tk \in Tasks, NEW pre \in BOOLEAN,
           NEW met, met = [tk EXCEPT !.overlap = TRUE]
    PROVE  Place(met, pre) = [Place(tk, pre) EXCEPT !.overlap = TRUE]
<1>1. /\ met \in Tasks /\ met.overlap = TRUE
      /\ met.phase = tk.phase /\ met.map = tk.map /\ met.stale = tk.stale
  BY DEF Tasks
<1>. DEFINE p == Place(tk, pre)
            q == Place(met, pre)
            r == [p EXCEPT !.overlap = TRUE]
<1>2. p \in Places /\ q \in Places
  BY <1>1, PlaceType
<1>3. /\ q.phase = p.phase /\ q.bundle = p.bundle /\ q.app = p.app /\ q.pre = p.pre
      /\ q.map = p.map /\ q.overlap = TRUE /\ q.stale = p.stale
  BY <1>1 DEF Place
<1>4. r = [p EXCEPT !.overlap = TRUE]
  OBVIOUS
<1> HIDE DEF p, q, r
<1>5. /\ r \in Places
      /\ r.phase = p.phase /\ r.bundle = p.bundle /\ r.app = p.app /\ r.pre = p.pre
      /\ r.map = p.map /\ r.overlap = TRUE /\ r.stale = p.stale
  BY <1>2, <1>4 DEF Places
<1>6. q = r
  BY <1>2, <1>3, <1>5, SamePlace
<1> QED
  BY <1>6 DEF p, q, r

LEMMA PlaceStarts ==
    ASSUME NEW copy \in Tasks, copy.phase = "copy", NEW hosts \in SUBSET Host,
           NEW run, run = [copy EXCEPT !.phase = "running", !.hosts = hosts]
    PROVE  Place(run, FALSE) = [Place(copy, FALSE) EXCEPT !.phase = "running", !.app = "app"]
<1>1. /\ run \in Tasks /\ run.phase = "running"
      /\ run.stale = copy.stale /\ run.map = copy.map /\ run.overlap = copy.overlap
  BY DEF Tasks
<1>. DEFINE p == Place(copy, FALSE)
            q == Place(run, FALSE)
            r == [p EXCEPT !.phase = "running", !.app = "app"]
<1>2. p \in Places /\ q \in Places
  BY <1>1, PlaceType
<1>3. /\ q.phase = "running" /\ q.bundle = p.bundle /\ q.app = "app" /\ q.pre = p.pre
      /\ q.map = p.map /\ q.stale = p.stale /\ q.overlap = p.overlap
  BY <1>1 DEF Place
<1>4. r = [p EXCEPT !.phase = "running", !.app = "app"]
  OBVIOUS
<1> HIDE DEF p, q, r
<1>5. /\ r \in Places
      /\ r.phase = "running" /\ r.bundle = p.bundle /\ r.app = "app" /\ r.pre = p.pre
      /\ r.map = p.map /\ r.stale = p.stale /\ r.overlap = p.overlap
  BY <1>2, <1>4 DEF Places
<1>6. q = r
  BY <1>2, <1>3, <1>5, SamePlace
<1> QED
  BY <1>6 DEF p, q, r

(* The names of the manager, seen from here. *)
LEMMA NamesInManager ==
    /\ Manager!Free = Place(Free, FALSE)
    /\ Manager!NoEntry = [app |-> "none", hosts |-> NoHosts]
    /\ Manager!NoHost.status = "none"
    /\ NoHosts = [h \in Host |-> Manager!NoHost]
  BY DEF Manager!Free, Manager!NoEntry, Manager!NoHost, Manager!Other, Manager!PRIORITY_UNSET,
         PRIORITY_UNSET, Place, Free, NoHosts

LEMMA FreshInManager ==
    /\ Manager!CollectDomains(Skill) = ToldMap(AllFresh)
    /\ Told(Fresh) = Manager!UNKNOWN
<1>1. Told(Fresh) = Manager!UNKNOWN
  BY DEF Told, Fresh, VerifyStatus, Manager!UNKNOWN, Manager!Other, Manager!PRIORITY_UNSET,
         PRIORITY_UNSET
<1>2. ASSUME NEW h \in Host PROVE \E u \in Skill : u.scheme = "https" /\ u.host = h
  <2>. DEFINE u == [scheme |-> "https", host |-> h, fuzzy |-> FALSE]
  <2>1. u \in Skill /\ u.scheme = "https" /\ u.host = h
    BY DEF Skill
  <2> QED
    BY <2>1
<1>3. Manager!CollectDomains(Skill) = [h \in Host |-> Manager!UNKNOWN]
  BY <1>2 DEF Manager!CollectDomains
<1>4. ToldMap(AllFresh) = [h \in Host |-> Told(Fresh)]
  BY DEF ToldMap, AllFresh
<1> QED
  BY <1>1, <1>3, <1>4

(* The places of the manager. *)
LEMMA PlacesInManager ==
    ASSUME IInv
    PROVE  /\ \A t \in Task :
                /\ TaskToManager(t) = Place(task[t], appVerifyBaseInfo[t].isPreinstalled)
                /\ t \notin Present => TaskToManager(t) = Manager!Free
                /\ t \in Present => TaskToManager(t) # Manager!Free
                /\ t \in Present => TaskToManager(t).bundle = "bundle"
           /\ Manager!Of("bundle") = Present
<1>1. ASSUME NEW t \in Task
      PROVE  TaskToManager(t) = Place(task[t], appVerifyBaseInfo[t].isPreinstalled)
  BY DEF TaskToManager, Place, Present, Running
<1>2. ASSUME NEW t \in Task, t \notin Present PROVE TaskToManager(t) = Manager!Free
  <2>1. task[t] = Free /\ task[t].phase = "free" /\ appVerifyBaseInfo[t].isPreinstalled = FALSE
    BY <1>2, FreeType DEF IInv, Types, BaseInfos, TaskInv, Idle, Running, Present
  <2> QED
    BY <1>1, <2>1, NamesInManager
<1>3. ASSUME NEW t \in Task, t \in Present
      PROVE  TaskToManager(t) # Manager!Free /\ TaskToManager(t).bundle = "bundle"
  <2>1. TaskToManager(t).bundle = "bundle"
    BY <1>3 DEF TaskToManager
  <2>2. Manager!Free.bundle = "none"
    BY DEF Manager!Free
  <2> QED
    BY <2>1, <2>2
<1>4. \A t \in Task : TaskToManager(t).bundle = "bundle" <=> t \in Present
  BY DEF TaskToManager
<1>5. Manager!Of("bundle") = Present
  BY <1>4 DEF Manager!Of, Present
<1> QED
  BY <1>1, <1>2, <1>3, <1>5

(* What a handler does for itself the manager does not see. *)
LEMMA HandlerInManager ==
    ASSUME UNCHANGED <<installed, stored, task, mixed>>,
           \A t \in Task : appVerifyBaseInfo'[t].isPreinstalled = appVerifyBaseInfo[t].isPreinstalled
    PROVE  UNCHANGED Manager!vars
<1>1. EntryInManager' = EntryInManager
  BY DEF EntryInManager, ToldMap
<1>2. \A t \in Task : TaskToManager(t)' = TaskToManager(t)
  BY DEF TaskToManager, Present, Running, ToldMap
<1> QED
  BY <1>1, <1>2 DEF Manager!vars

LEMMA InitManager == Init => Manager!Init
<1> SUFFICES ASSUME Init PROVE Manager!Init
  OBVIOUS
<1>1. EntryInManager = Manager!NoEntry
  BY NamesInManager DEF Init, EntryInManager
<1>2. \A t \in Task : TaskToManager(t) = Manager!Free
  BY InitIInv, PlacesInManager, FreeType DEF Init, Present
<1> QED
  BY <1>1, <1>2 DEF Init, Manager!Init

(* A place that is left. *)
LEMMA LeftInManager ==
    ASSUME IInv, NEW t \in Task, task' = [task EXCEPT ![t] = Free],
           appVerifyBaseInfo'[t].isPreinstalled = FALSE,
           \A u \in Task \ {t} : appVerifyBaseInfo'[u] = appVerifyBaseInfo[u]
    PROVE  [u \in Task |-> TaskToManager(u)]'
                = [[u \in Task |-> TaskToManager(u)] EXCEPT ![t] = Manager!Free]
<1>. DEFINE places == [u \in Task |-> TaskToManager(u)]
<1>1. task'[t] = Free /\ \A u \in Task \ {t} : task'[u] = task[u]
  BY DEF IInv, Types
<1>2. ASSUME NEW u \in Task
      PROVE  TaskToManager(u)' = IF u = t THEN Manager!Free ELSE TaskToManager(u)
  <2>1. /\ TaskToManager(u)' = Place(task'[u], appVerifyBaseInfo'[u].isPreinstalled)
        /\ TaskToManager(u) = Place(task[u], appVerifyBaseInfo[u].isPreinstalled)
    BY DEF TaskToManager, Place, Present, Running, ToldMap
  <2> QED
    BY <1>1, <2>1, NamesInManager
<1>3. places' = [u \in Task |-> IF u = t THEN Manager!Free ELSE TaskToManager(u)]
  <2>1. places' = [u \in Task |-> TaskToManager(u)']
    OBVIOUS
  <2> QED
    BY <1>2, <2>1
<1>4. [places EXCEPT ![t] = Manager!Free]
        = [u \in Task |-> IF u = t THEN Manager!Free ELSE TaskToManager(u)]
  OBVIOUS
<1> QED
  BY <1>3, <1>4

LEMMA LostInManager ==
    ASSUME IInv, NEW t \in Present, task' = [task EXCEPT ![t] = Free],
           appVerifyBaseInfo'[t].isPreinstalled = FALSE,
           \A u \in Task \ {t} : appVerifyBaseInfo'[u] = appVerifyBaseInfo[u],
           UNCHANGED <<installed, stored, mixed>>
    PROVE  Manager!Next
<1>. DEFINE places == [u \in Task |-> TaskToManager(u)]
<1>1. t \in Task
  BY DEF Present
<1>2. places' = [places EXCEPT ![t] = Manager!Free] /\ places[t] # Manager!Free
  BY <1>1, LeftInManager, PlacesInManager
<1>3. EntryInManager' = EntryInManager
  BY DEF EntryInManager, ToldMap
<1>4. Manager!Lost(t)
  BY <1>1, <1>2, <1>3 DEF Manager!Lost
<1> QED
  BY <1>1, <1>4 DEF Manager!Next

(* The tasks of an older version, there and here. *)
LEMMA OutdatedInManager ==
    ASSUME IInv, NEW u \in Task, NEW tk, tk = Outdated[u],
           NEW pre, pre = appVerifyBaseInfo[u].isPreinstalled
    PROVE  Place(tk, pre) = Manager!Outdated("bundle")[u]
<1>1. task[u] \in Tasks /\ pre \in BOOLEAN
  BY DEF IInv, Types, BaseInfos
<1>2. Manager!Outdated("bundle")[u]
        = IF u \in Present THEN [TaskToManager(u) EXCEPT !.stale = TRUE] ELSE TaskToManager(u)
  BY PlacesInManager DEF Manager!Outdated
<1>3. TaskToManager(u) = Place(task[u], pre)
  BY PlacesInManager
<1>4. CASE u \in Present
  <2>1. tk = [task[u] EXCEPT !.stale = TRUE]
    BY <1>4 DEF Outdated
  <2>2. Place(tk, pre) = [Place(task[u], pre) EXCEPT !.stale = TRUE]
    BY <1>1, <2>1, PlaceStale
  <2> QED
    BY <1>2, <1>3, <1>4, <2>2
<1>5. CASE u \notin Present
  <2>1. tk = task[u]
    BY <1>5 DEF Outdated
  <2> QED
    BY <1>2, <1>3, <1>5, <2>1
<1> QED
  BY <1>4, <1>5

LEMMA PrimedPlace ==
    ASSUME NEW u \in Task
    PROVE  TaskToManager(u)' = Place(task'[u], appVerifyBaseInfo'[u].isPreinstalled)
  BY DEF TaskToManager, Place, Present, Running, ToldMap

(* A task that takes a place, there and here. *)
LEMMA NewTaskInManager ==
    ASSUME IInv, NEW t \in Task \ Present,
           NEW tasks \in [Task -> Tasks], NEW there,
           \A u \in Task : there[u] = Place(tasks[u], appVerifyBaseInfo[u].isPreinstalled),
           NEW phase \in {"copy", "running"}, NEW map, NEW hosts,
           NEW app, app = (IF phase = "running" THEN "app" ELSE "none"), NEW pre \in BOOLEAN,
           task' = NewTask(tasks, t, phase, map, hosts),
           appVerifyBaseInfo'[t].isPreinstalled = pre,
           \A u \in Task \ {t} : appVerifyBaseInfo'[u] = appVerifyBaseInfo[u],
           NEW told, told = ToldMap(map)
    PROVE  [u \in Task |-> TaskToManager(u)]'
                = Manager!NewTask(there, t, phase, "bundle", app, pre, told)
<1>. DEFINE new == Manager!NewTask(there, t, phase, "bundle", app, pre, told)
<1>1. Manager!Of("bundle") = Present
  BY PlacesInManager
<1>2. TaskToManager(t)' = new[t]
  <2>1. new[t] = [phase |-> phase, bundle |-> "bundle", app |-> app, pre |-> pre, map |-> told,
                  stale |-> FALSE, overlap |-> Present # {}]
    BY <1>1 DEF Manager!NewTask
  <2>2. task'[t] = [phase |-> phase, map |-> map, hosts |-> hosts, stale |-> FALSE,
                    overlap |-> Present # {}]
    BY DEF NewTask
  <2>. DEFINE overlap == Present # {}
  <2>3. /\ new[t] = [phase |-> phase, bundle |-> "bundle", app |-> app, pre |-> pre,
                     map |-> told, stale |-> FALSE, overlap |-> overlap]
        /\ task'[t] = [phase |-> phase, map |-> map, hosts |-> hosts, stale |-> FALSE,
                       overlap |-> overlap]
    BY <2>1, <2>2
  <2>4. TaskToManager(t)' = Place(task'[t], pre)
    BY PrimedPlace
  <2> HIDE DEF overlap, new
  <2>5. /\ task'[t].phase = phase /\ task'[t].map = map
        /\ task'[t].stale = FALSE /\ task'[t].overlap = overlap
    BY <2>3
  <2>6. phase # "free"
    OBVIOUS
  <2> QED
    BY <2>3, <2>4, <2>5, <2>6 DEF Place
<1>3. ASSUME NEW u \in Task \ {t} PROVE TaskToManager(u)' = new[u]
  <2>. DEFINE here == appVerifyBaseInfo[u].isPreinstalled
  <2>1. new[u] = IF u \in Present THEN [there[u] EXCEPT !.overlap = TRUE] ELSE there[u]
    BY <1>1 DEF Manager!NewTask
  <2>2. task'[u] = IF u \in Present THEN [tasks[u] EXCEPT !.overlap = TRUE] ELSE tasks[u]
    BY DEF NewTask
  <2>3. TaskToManager(u)' = Place(task'[u], here)
    BY PrimedPlace
  <2>4. tasks[u] \in Tasks /\ here \in BOOLEAN
    BY DEF IInv, Types, BaseInfos
  <2>5. there[u] = Place(tasks[u], here)
    OBVIOUS
  <2> HIDE DEF here, new
  <2>6. CASE u \in Present
    <3>1. Place([tasks[u] EXCEPT !.overlap = TRUE], here)
            = [Place(tasks[u], here) EXCEPT !.overlap = TRUE]
      BY <2>4, PlaceOverlap
    <3> QED
      BY <2>1, <2>2, <2>3, <2>5, <2>6, <3>1
  <2>7. CASE u \notin Present
    BY <2>1, <2>2, <2>3, <2>5, <2>7
  <2> QED
    BY <2>6, <2>7
<1>4. new = [u \in Task |-> new[u]]
  BY DEF Manager!NewTask
<1> HIDE DEF new
<1>5. new = [u \in Task |-> TaskToManager(u)']
  BY <1>2, <1>3, <1>4
<1> QED
  BY <1>5 DEF new

LEMMA VerifyDomainInManager ==
    ASSUME IInv, NEW isPreinstalled \in BOOLEAN, VerifyDomain(isPreinstalled)
    PROVE  Manager!Next
<1>. DEFINE places == [u \in Task |-> TaskToManager(u)]
            outdated == Manager!Outdated("bundle")
            fresh == Manager!CollectDomains(Skill)
<1>1. /\ installed' = TRUE
      /\ stored' = AllFresh
      /\ mixed' = FALSE
  BY DEF VerifyDomain
<1>2. EntryInManager' = [app |-> "app", hosts |-> fresh]
  BY <1>1, FreshInManager DEF EntryInManager, ToldMap
<1>3. Types
  BY DEF IInv
<1>4. outdated = [u \in Task |-> outdated[u]]
  BY DEF Manager!Outdated
<1>5. \/ places' = outdated
      \/ \E t \in Task, pre \in BOOLEAN :
            /\ places[t] = Manager!Free
            /\ places' = Manager!NewTask(outdated, t, "running", "bundle", "app", pre, fresh)
  <2>1. CASE task' = Outdated /\ UNCHANGED handlerVars
    <3>1. ASSUME NEW u \in Task PROVE TaskToManager(u)' = outdated[u]
      <4>1. TaskToManager(u)' = Place(Outdated[u], appVerifyBaseInfo[u].isPreinstalled)
        BY <2>1, PrimedPlace DEF handlerVars
      <4> QED
        BY <4>1, OutdatedInManager
    <3>2. places' = [u \in Task |-> TaskToManager(u)']
      OBVIOUS
    <3> HIDE DEF outdated
    <3> QED
      BY <1>4, <3>1, <3>2
  <2>2. ASSUME NEW t \in Task \ Present,
               task' = NewTask(Outdated, t, "running", AllFresh, NeedRetry(AllFresh)),
               Execute(t, AllFresh, NeedRetry(AllFresh), isPreinstalled)
        PROVE  /\ places[t] = Manager!Free
               /\ places' = Manager!NewTask(outdated, t, "running", "bundle", "app",
                                            isPreinstalled, fresh)
    <3>1. /\ appVerifyBaseInfo'[t].isPreinstalled = isPreinstalled
          /\ \A u \in Task \ {t} : appVerifyBaseInfo'[u] = appVerifyBaseInfo[u]
      BY <1>3, <2>2, FreeType DEF Types, Execute
    <3>2. Outdated \in [Task -> Tasks]
      BY <1>3, OutdatedIs
    <3>3. \A u \in Task : outdated[u] = Place(Outdated[u], appVerifyBaseInfo[u].isPreinstalled)
      BY OutdatedInManager
    <3>4. fresh = ToldMap(AllFresh)
      BY FreshInManager
    <3>5. places' = [u \in Task |-> TaskToManager(u)]'
      OBVIOUS
    <3> HIDE DEF outdated, fresh, places
    <3>6. places' = Manager!NewTask(outdated, t, "running", "bundle", "app", isPreinstalled,
                                    fresh)
      BY <2>2, <3>1, <3>2, <3>3, <3>4, <3>5, NewTaskInManager
    <3>7. places[t] = Manager!Free
      BY PlacesInManager DEF places
    <3> QED
      BY <3>6, <3>7
  <2> HIDE DEF outdated, fresh, places
  <2> QED
    BY <2>1, <2>2 DEF VerifyDomain
<1> HIDE DEF outdated, fresh
<1>6. Manager!VerifyDomain("bundle", "app", Skill)
  <2>1. (IF mixed' THEN {"bundle"} ELSE {}) = (IF mixed THEN {"bundle"} ELSE {}) \ {"bundle"}
    BY <1>1
  <2>2. [b \in {"bundle"} |-> IF installed' THEN "app" ELSE "none"]
            = [[b \in {"bundle"} |-> IF installed THEN "app" ELSE "none"] EXCEPT !["bundle"] = "app"]
    BY <1>1
  <2>3. [b \in {"bundle"} |-> EntryInManager']
            = [[b \in {"bundle"} |-> EntryInManager] EXCEPT
                    !["bundle"] = [app |-> "app", hosts |-> fresh]]
    BY <1>2
  <2> QED
    BY <1>5, <2>1, <2>2, <2>3 DEF Manager!VerifyDomain, outdated, fresh
<1> QED
  BY <1>6 DEF Manager!Next

LEMMA ClearInManager == ASSUME IInv, ClearDomainVerifyStatus PROVE Manager!Next
<1>. DEFINE places == [u \in Task |-> TaskToManager(u)]
            outdated == Manager!Outdated("bundle")
<1>1. /\ installed /\ installed' = FALSE
      /\ mixed' = FALSE
      /\ task' = Outdated
      /\ UNCHANGED appVerifyBaseInfo
  BY DEF ClearDomainVerifyStatus, handlerVars
<1>2. EntryInManager' = Manager!NoEntry
  BY <1>1, NamesInManager DEF EntryInManager
<1>3. places' = outdated
  <2>1. ASSUME NEW u \in Task PROVE TaskToManager(u)' = outdated[u]
    <3>1. TaskToManager(u)' = Place(Outdated[u], appVerifyBaseInfo[u].isPreinstalled)
      BY <1>1, PrimedPlace
    <3> QED
      BY <3>1, OutdatedInManager
  <2>2. places' = [u \in Task |-> TaskToManager(u)'] /\ outdated = [u \in Task |-> outdated[u]]
    BY DEF Manager!Outdated
  <2> HIDE DEF outdated
  <2> QED
    BY <2>1, <2>2
<1> HIDE DEF outdated
<1>4. Manager!ClearDomainVerifyStatus("bundle")
  <2>1. (IF mixed' THEN {"bundle"} ELSE {}) = (IF mixed THEN {"bundle"} ELSE {}) \ {"bundle"}
    BY <1>1
  <2> QED
    BY <1>1, <1>2, <1>3, <2>1 DEF Manager!ClearDomainVerifyStatus, outdated
<1> QED
  BY <1>4 DEF Manager!Next

LEMMA QueryInManager ==
    ASSUME IInv, NEW t \in Task, QueryAllDomainVerifyStatus(t) PROVE Manager!Next
<1>. DEFINE places == [u \in Task |-> TaskToManager(u)]
            told == ToldMap(stored)
<1>1. /\ t \in Task \ Present
      /\ installed
      /\ task' = NewTask(task, t, "copy", stored, {})
      /\ UNCHANGED <<installed, stored, mixed, appVerifyBaseInfo>>
  BY DEF QueryAllDomainVerifyStatus, handlerVars, managerVars
<1>2. EntryInManager = [app |-> "app", hosts |-> told] /\ EntryInManager' = EntryInManager
  BY <1>1 DEF EntryInManager, ToldMap
<1>3. places[t] = Manager!Free
  BY <1>1, PlacesInManager
<1>4. places' = Manager!NewTask(places, t, "copy", "bundle", "none", FALSE, told)
  <2>. DEFINE phase == "copy"
              app == "none"
              hosts == {}
  <2>1. PICK pre \in BOOLEAN : pre = FALSE
    OBVIOUS
  <2>2. appVerifyBaseInfo'[t].isPreinstalled = pre
    BY <1>1, <2>1 DEF IInv, Types, BaseInfos, TaskInv, Idle, Running, Present
  <2>3. /\ task \in [Task -> Tasks]
        /\ \A u \in Task : places[u] = Place(task[u], appVerifyBaseInfo[u].isPreinstalled)
    BY PlacesInManager DEF IInv, Types
  <2>4. \A u \in Task \ {t} : appVerifyBaseInfo'[u] = appVerifyBaseInfo[u]
    BY <1>1
  <2>5. places' = [u \in Task |-> TaskToManager(u)]' /\ told = ToldMap(stored)
    OBVIOUS
  <2>6. phase \in {"copy", "running"} /\ app = (IF phase = "running" THEN "app" ELSE "none")
    OBVIOUS
  <2>7. t \in Task \ Present /\ task' = NewTask(task, t, phase, stored, hosts)
    BY <1>1
  <2> HIDE DEF places, told, phase, app, hosts
  <2>8. places' = Manager!NewTask(places, t, phase, "bundle", app, pre, told)
    BY <2>2, <2>3, <2>4, <2>5, <2>6, <2>7, NewTaskInManager
  <2> QED
    BY <2>1, <2>8 DEF phase, app
<1> HIDE DEF told
<1>5. Manager!QueryAllDomainVerifyStatus(t, "bundle")
  BY <1>1, <1>2, <1>3, <1>4 DEF Manager!QueryAllDomainVerifyStatus, Manager!HasEntry
<1> QED
  BY <1>5 DEF Manager!Next

LEMMA RefreshInManager ==
    ASSUME IInv, NEW t \in Task, CompleteVerifyRefresh(t) PROVE Manager!Next
<1>. DEFINE places == [u \in Task |-> TaskToManager(u)]
            hosts == NeedRetry(task[t].map)
<1>1. /\ task[t].phase = "copy" /\ t \in Present
      /\ UNCHANGED <<installed, stored, mixed>>
  BY DEF CompleteVerifyRefresh, managerVars, Present
<1>2. Types /\ appVerifyBaseInfo[t].isPreinstalled = FALSE
  BY <1>1 DEF IInv, Types, BaseInfos, TaskInv, Idle, Running
<1>3. CASE installed /\ hosts # {}
  <2>1. /\ task' = [task EXCEPT ![t].phase = "running", ![t].hosts = hosts]
        /\ appVerifyBaseInfo' = [appVerifyBaseInfo EXCEPT ![t] = BaseInfo(FALSE)]
    BY <1>3 DEF CompleteVerifyRefresh, Execute
  <2>2. hosts \in SUBSET Host
    BY DEF NeedRetry
  <2> HIDE DEF hosts
  <2>. DEFINE run == [task[t] EXCEPT !.phase = "running", !.hosts = hosts]
              started == [places[t] EXCEPT !.phase = "running", !.app = "app"]
  <2>3. /\ task'[t] = run
        /\ appVerifyBaseInfo'[t].isPreinstalled = FALSE
        /\ \A u \in Task \ {t} : task'[u] = task[u] /\ appVerifyBaseInfo'[u] = appVerifyBaseInfo[u]
    BY <1>2, <2>1, FreeType DEF Types
  <2>4. places[t] = Place(task[t], FALSE) /\ TaskToManager(t)' = Place(run, FALSE)
    BY <1>2, <2>3, PlacesInManager, PrimedPlace
  <2>5. task[t] \in Tasks
    BY <1>2 DEF Types
  <2>6. Place(run, FALSE) = [Place(task[t], FALSE) EXCEPT !.phase = "running", !.app = "app"]
    BY <1>1, <2>2, <2>5, PlaceStarts
  <2>7. TaskToManager(t)' = started
    BY <2>4, <2>6
  <2>8. \A u \in Task \ {t} : TaskToManager(u)' = TaskToManager(u)
    BY <2>3, PrimedPlace, PlacesInManager
  <2> HIDE DEF run, started
  <2>9. places' = [places EXCEPT ![t] = started]
    <3>1. places' = [u \in Task |-> TaskToManager(u)']
      OBVIOUS
    <3>2. \A u \in Task : TaskToManager(u)' = IF u = t THEN started ELSE TaskToManager(u)
      BY <2>7, <2>8
    <3>3. places' = [u \in Task |-> IF u = t THEN started ELSE TaskToManager(u)]
      BY <3>1, <3>2
    <3>4. [places EXCEPT ![t] = started]
            = [u \in Task |-> IF u = t THEN started ELSE TaskToManager(u)]
      OBVIOUS
    <3> QED
      BY <3>3, <3>4
  <2>10. EntryInManager' = EntryInManager
    BY <1>1 DEF EntryInManager, ToldMap
  <2>11. places[t].phase = "copy" /\ places[t].bundle = "bundle"
    BY <1>1, <2>4 DEF Place
  <2>12. Manager!CompleteVerifyRefresh(t)
    BY <1>1, <1>3, <2>9, <2>10, <2>11 DEF Manager!CompleteVerifyRefresh, started
  <2> QED
    BY <2>12 DEF Manager!Next
<1>4. CASE ~(installed /\ hosts # {})
  <2>1. task' = [task EXCEPT ![t] = Free] /\ UNCHANGED appVerifyBaseInfo
    BY <1>4 DEF CompleteVerifyRefresh, handlerVars
  <2> QED
    BY <1>1, <1>2, <2>1, LostInManager
<1> QED
  BY <1>3, <1>4

(* A status as the manager names it. *)
LEMMA ToldIs ==
    ASSUME NEW s
    PROVE  /\ Told(s) # Manager!NoHost
           /\ s.status = "STATE_SUCCESS" => Told(s) = Manager!Success("app", s.priority)
           /\ s.status = "PRE_INSTALLED" => Told(s) = Manager!PRE_INSTALLED(s.priority)
           /\ s.status \notin {"STATE_SUCCESS", "PRE_INSTALLED", "UNKNOWN"}
                => Told(s) = Manager!FAILURE
           /\ s.status \in {"STATE_SUCCESS", "PRE_INSTALLED", "UNKNOWN"}
                => Told(s) # Manager!FAILURE /\ Told(s).status = s.status
  BY DEF Told, Manager!NoHost, Manager!Success, Manager!PRE_INSTALLED, Manager!FAILURE,
         Manager!Other, Manager!PRIORITY_UNSET, PRIORITY_UNSET

(* The hosts of a task are those the manager says must be verified, and of *)
(* those it says may be.                                                   *)
LEMMA HostsInManager ==
    ASSUME IInv, NEW t \in Task, Running(t), NEW map, map = ToldMap(task[t].map)
    PROVE  /\ Manager!MustRetry(map) \subseteq task[t].hosts
           /\ task[t].hosts \ Manager!MustRetry(map) \subseteq Manager!MayRetry(map)
<1>. DEFINE hosts == task[t].hosts
<1>1. hosts \subseteq Host
  BY DEF IInv, Types, Tasks
<1>2. \A h \in Host : map[h] = Told(task[t].map[h])
  BY DEF ToldMap
<1>3. Manager!Hosts(map) = Host
  BY <1>2, ToldIs DEF Manager!Hosts
<1>4. Chosen(t)
  BY DEF IInv, TaskInv
<1>5. ASSUME NEW h \in Manager!MustRetry(map) PROVE h \in hosts
  <2>1. h \in Host /\ map[h] # Manager!FAILURE /\ map[h].status # "STATE_SUCCESS"
    BY <1>3 DEF Manager!MustRetry
  <2>2. task[t].map[h].status \in {"PRE_INSTALLED", "UNKNOWN"}
    BY <1>2, <2>1, ToldIs
  <2> QED
    BY <1>4, <2>1, <2>2 DEF Chosen
<1>6. ASSUME NEW h \in hosts, h \notin Manager!MayRetry(map) PROVE h \in Manager!MustRetry(map)
  <2>1. h \in Host /\ map[h] # Manager!FAILURE
    BY <1>1, <1>3, <1>6 DEF Manager!MayRetry
  <2>2. task[t].map[h].status \in {"PRE_INSTALLED", "UNKNOWN"}
    BY <1>2, <1>4, <2>1, ToldIs DEF Chosen
  <2>3. map[h].status = task[t].map[h].status
    BY <1>2, <2>1, <2>2, ToldIs
  <2> QED
    BY <1>3, <2>1, <2>2, <2>3 DEF Manager!MustRetry
<1> QED
  BY <1>5, <1>6

(* When the last handler ends the result is one the manager expects.       *)
LEMMA ResultInManager ==
    ASSUME IInv, NEW t \in Task, Running(t),
           \A h \in Host : pc[t][h] \in {"updated", "idle"}
    PROVE  ToldMap(result[t]) \in Manager!Results(t)
<1>. DEFINE hosts == task[t].hosts
            map == ToldMap(task[t].map)
            pre == appVerifyBaseInfo[t].isPreinstalled
            v == [h \in hosts |-> Told(result[t][h])]
            verdicts == Manager!Verdicts(t)
            more == hosts \ Manager!MustRetry(map)
<1>1. hosts \subseteq Host /\ hosts # {}
  BY DEF IInv, Types, Tasks, TaskInv, Pending
<1>2. /\ TaskToManager(t).app = "app" /\ TaskToManager(t).pre = pre
      /\ TaskToManager(t).map = map
  BY DEF TaskToManager, Running, Present
<1>3. verdicts = {Manager!Success("app", p) : p \in Priorities}
        \cup {Manager!FAILURE}
        \cup (IF pre THEN {Manager!PRE_INSTALLED(p) : p \in Priorities} ELSE {})
  BY <1>2 DEF Manager!Verdicts
<1>4. ASSUME NEW h \in hosts PROVE Told(result[t][h]) \in verdicts
  <2>1. /\ result[t][h].status # "UNKNOWN"
        /\ result[t][h].status = "PRE_INSTALLED" => pre
        /\ result[t][h].priority \in Priorities
    BY <1>1 DEF IInv, TaskInv, Chosen, Sourced
  <2>2. CASE result[t][h].status = "STATE_SUCCESS"
    BY <1>3, <2>1, <2>2, ToldIs
  <2>3. CASE result[t][h].status = "PRE_INSTALLED"
    BY <1>3, <2>1, <2>3, ToldIs
  <2>4. CASE result[t][h].status \notin {"STATE_SUCCESS", "PRE_INSTALLED"}
    BY <1>3, <2>1, <2>4, ToldIs
  <2> QED
    BY <2>2, <2>3, <2>4
<1>5. v \in [hosts -> verdicts]
  BY <1>4
<1>6. \A h \in Host : ~(h \in hosts) => result[t][h] = task[t].map[h]
  BY DEF IInv, TaskInv, Times
<1>7. ToldMap(result[t]) = [h \in Host |-> IF h \in hosts THEN v[h] ELSE map[h]]
  BY <1>6 DEF ToldMap
<1>8. hosts = Manager!MustRetry(map) \cup more /\ more \in SUBSET Manager!MayRetry(map)
  BY <1>1, HostsInManager
<1>9. [u \in Task |-> TaskToManager(u)][t].map = map
  BY <1>2
<1>10. hosts \in {Manager!MustRetry(map) \cup m : m \in SUBSET Manager!MayRetry(map)} \ {{}}
  BY <1>1, <1>8
<1> HIDE DEF map, v, verdicts, more, hosts
<1> QED
  BY <1>5, <1>7, <1>9, <1>10 DEF Manager!Results, verdicts

LEMMA SaveInManager ==
    ASSUME IInv, NEW t \in Task, Running(t),
           \A h \in Host : pc[t][h] \in {"updated", "idle"},
           stored' = (IF installed THEN result[t] ELSE stored),
           mixed' = (mixed \/ task[t].stale),
           task' = [task EXCEPT ![t] = Free],
           appVerifyBaseInfo'[t].isPreinstalled = FALSE,
           \A u \in Task \ {t} : appVerifyBaseInfo'[u] = appVerifyBaseInfo[u],
           UNCHANGED installed
    PROVE  Manager!Next
<1>. DEFINE places == [u \in Task |-> TaskToManager(u)]
            map == ToldMap(stored)
            told == ToldMap(result[t])
            entry == [app |-> "app", hosts |-> map]
<1>1. places' = [places EXCEPT ![t] = Manager!Free]
  BY LeftInManager
<1>2. /\ places[t].phase = "running" /\ places[t].bundle = "bundle"
      /\ places[t].stale = task[t].stale
  BY DEF TaskToManager, Running, Present
<1>3. \A h \in Host : map[h] # Manager!NoHost /\ told[h] # Manager!NoHost
  BY ToldIs DEF ToldMap
<1>4. told = [h \in Host |-> told[h]]
  BY DEF ToldMap
<1>5. told \in Manager!Results(t)
  BY ResultInManager
<1>6. /\ installed => EntryInManager = entry /\ EntryInManager' = [app |-> "app", hosts |-> told]
      /\ ~installed => EntryInManager.app = "none" /\ EntryInManager' = EntryInManager
  BY DEF EntryInManager, ToldMap
<1> HIDE DEF map, told
<1>7. Manager!UpdateVerifyMap(entry, told) = [app |-> "app", hosts |-> told]
  <2>1. [h \in Host |-> IF map[h] # Manager!NoHost /\ told[h] # Manager!NoHost
                          THEN told[h] ELSE map[h]] = told
    BY <1>3, <1>4
  <2>2. entry.hosts = map
    OBVIOUS
  <2>3. [entry EXCEPT !.hosts = told] = [app |-> "app", hosts |-> told]
    OBVIOUS
  <2> HIDE DEF entry
  <2> QED
    BY <2>1, <2>2, <2>3 DEF Manager!UpdateVerifyMap
<1>8. Manager!UpdateVerifyStatus("bundle", told)
  <2>1. Manager!HasEntry("bundle") <=> installed
    BY <1>6 DEF Manager!HasEntry
  <2> QED
    BY <1>6, <1>7, <2>1 DEF Manager!UpdateVerifyStatus
<1>9. (IF mixed' THEN {"bundle"} ELSE {})
        = IF places[t].stale THEN (IF mixed THEN {"bundle"} ELSE {}) \cup {"bundle"}
          ELSE IF mixed THEN {"bundle"} ELSE {}
  <2>1. mixed \in BOOLEAN /\ task[t].stale \in BOOLEAN
    BY DEF IInv, Types, Tasks
  <2> HIDE DEF places
  <2> QED
    BY <1>2, <2>1
<1>10. Manager!SendVerifiedEvent("bundle", told)
  BY DEF Manager!SendVerifiedEvent
<1>11. Manager!SaveDomainVerifyStatus(t, told)
  BY <1>1, <1>2, <1>5, <1>8, <1>9, <1>10 DEF Manager!SaveDomainVerifyStatus
<1> QED
  BY <1>5, <1>11 DEF Manager!Next

LEMMA FinishInManager ==
    ASSUME IInv, NEW t \in Task, NEW h \in Host, Finish(t, h)
    PROVE  Manager!Next \/ UNCHANGED Manager!vars
<1>1. CASE ~LastRunning(t, h)
  <2>1. UNCHANGED <<installed, task, stored, mixed, appVerifyBaseInfo>>
    BY <1>1, FinishIs
  <2> QED
    BY <2>1, HandlerInManager
<1>2. CASE LastRunning(t, h)
  <2>1. /\ OnSaveVerifyResult(t) /\ Gone(t) /\ Running(t) /\ t \in Present
        /\ \A g \in Host : pc[t][g] \in {"updated", "idle"}
        /\ UNCHANGED installed
    BY <1>2, FinishIs
  <2>2. /\ task' = [task EXCEPT ![t] = Free]
        /\ appVerifyBaseInfo'[t].isPreinstalled = FALSE
        /\ \A u \in Task \ {t} : appVerifyBaseInfo'[u] = appVerifyBaseInfo[u]
    BY <2>1, FreeType DEF IInv, Types, Gone
  <2>3. CASE UNCHANGED <<stored, mixed>>
    BY <2>1, <2>2, <2>3, LostInManager
  <2>4. CASE /\ stored' = IF installed THEN result[t] ELSE stored
             /\ mixed' = (mixed \/ task[t].stale)
    BY <2>1, <2>2, <2>4, SaveInManager
  <2> QED
    BY <2>1, <2>3, <2>4 DEF OnSaveVerifyResult
<1> QED
  BY <1>1, <1>2

(* Every step of a task is one of the manager's, or none. *)
LEMMA NextInManager == IInv /\ [Next]_vars => [Manager!Next]_(Manager!vars)
<1> SUFFICES ASSUME IInv, [Next]_vars
             PROVE  Manager!Next \/ UNCHANGED Manager!vars
  OBVIOUS
<1>1. Types
  BY DEF IInv
<1>2. ASSUME NEW t \in Task, NEW h \in Host, OnPostVerify(t, h), ~Finish(t, h)
      PROVE  UNCHANGED Manager!vars
  <2>1. CASE Answer(t, h)
    <3>1. \E p : appVerifyBaseInfo' = [appVerifyBaseInfo EXCEPT ![t].priority = p]
      BY <2>1 DEF Answer
    <3>2. \A u \in Task :
            appVerifyBaseInfo'[u].isPreinstalled = appVerifyBaseInfo[u].isPreinstalled
      BY <1>1, <3>1 DEF Types, BaseInfos
    <3>3. UNCHANGED <<installed, stored, task, mixed>>
      BY <2>1 DEF Answer, managerVars
    <3> QED
      BY <3>2, <3>3, HandlerInManager
  <2>2. CASE ~Answer(t, h)
    <3>1. UNCHANGED <<installed, stored, task, mixed, appVerifyBaseInfo>>
      BY <1>2, <2>2 DEF OnPostVerify, CheckUnset, CheckMin, CheckMax, UpdateVerifyResultInfo,
         managerVars
    <3> QED
      BY <3>1, HandlerInManager
  <2> QED
    BY <2>1, <2>2
<1>3. ASSUME NEW t \in Task, Lost(t) PROVE Manager!Next
  <2>1. /\ t \in Present
        /\ task' = [task EXCEPT ![t] = Free]
        /\ appVerifyBaseInfo' = [appVerifyBaseInfo EXCEPT ![t] = BaseInfo(FALSE)]
        /\ UNCHANGED <<installed, stored, mixed>>
    BY <1>3 DEF Lost, Gone, managerVars
  <2>2. /\ appVerifyBaseInfo'[t].isPreinstalled = FALSE
        /\ \A u \in Task \ {t} : appVerifyBaseInfo'[u] = appVerifyBaseInfo[u]
    BY <1>1, <2>1, FreeType DEF Types
  <2> QED
    BY <2>1, <2>2, LostInManager
<1>4. ASSUME Tick \/ UNCHANGED vars PROVE UNCHANGED Manager!vars
  <2>1. UNCHANGED <<installed, stored, task, mixed, appVerifyBaseInfo>>
    BY <1>4 DEF Tick, vars, handlerVars, managerVars
  <2> QED
    BY <2>1, HandlerInManager
<1> QED
  BY <1>2, <1>3, <1>4, VerifyDomainInManager, ClearInManager, QueryInManager, RefreshInManager,
     FinishInManager DEF Next

(* Tasks that share their state between the handlers of their hosts, and   *)
(* overlap, are to the manager steps that are not divided: DomainVerify is *)
(* implemented, for any hosts, tasks, answers and bounds.                  *)
THEOREM SpecTaskIsOneStep == Spec => TaskIsOneStep
  BY InitManager, NextInManager, SpecIInv, PTL DEF Spec, TaskIsOneStep, Manager!Spec
-----------------------------------------------------------------------------
(***************************************************************************)
(* The verdict itself: the two loops over the entries of an asset file, in *)
(* AssetFile, against the closed form VerifyTask judges its answers by.    *)
(***************************************************************************)
(* An index behind all the others is not the first, if there are others. *)
LEMMA FirstStays ==
    ASSUME NEW S \in SUBSET Nat, NEW n \in Nat, \A i \in S : i < n
    PROVE  /\ S # {} => Min(S \cup {n}) = Min(S)
           /\ Min({n}) = n
<1>1. Min({n}) = n
  BY LeastNat
<1>2. ASSUME S # {} PROVE Min(S \cup {n}) = Min(S)
  <2>. DEFINE T == S \cup {n}
              first == Min(S)
              least == Min(T)
  <2>1. T \in SUBSET Nat /\ T # {}
    OBVIOUS
  <2>2. least \in T /\ \A i \in T : least <= i
    BY <2>1, LeastNat
  <2>3. first \in S /\ \A i \in S : first <= i
    BY <1>2, LeastNat
  <2> HIDE DEF first, least
  <2>4. first = least
    BY <2>2, <2>3
  <2>. QED
    BY <2>4 DEF first, least
<1>. QED
  BY <1>1, <1>2

(* One more entry: what the closed form says of the file and one entry     *)
(* more is what the body of the loop makes of what it says of the file.    *)
LEMMA ByIdStep ==
    ASSUME apps \in Seq(Entry), NEW e \in Entry
    PROVE  VerifyHostWithAppIdentifier(Append(apps, e), base)
             = StepById(VerifyHostWithAppIdentifier(apps, base), e)
<1>. DEFINE n == Len(apps) + 1
            longer == Append(apps, e)
            deciding == {i \in DOMAIN apps : Decides(apps[i], base)}
            decidingNow == {i \in DOMAIN longer : Decides(longer[i], base)}
            before == VerifyHostWithAppIdentifier(apps, base)
            after == VerifyHostWithAppIdentifier(longer, base)
<1>1. /\ DOMAIN longer = DOMAIN apps \cup {n}
      /\ longer[n] = e
      /\ \A i \in DOMAIN apps : longer[i] = apps[i]
      /\ n \in Nat
      /\ DOMAIN apps \subseteq Nat
      /\ \A i \in DOMAIN apps : i < n /\ i # n
  OBVIOUS
<1>2. decidingNow = IF Decides(e, base) THEN deciding \cup {n} ELSE deciding
  BY <1>1
<1>3. before = IF base.appIdentifier = "" \/ deciding = {}
                 THEN Verdict("UNKNOWN", base.priority)
               ELSE IF Names(apps[Min(deciding)], base)
                 THEN Verdict("STATE_SUCCESS", apps[Min(deciding)].priority)
               ELSE Verdict("STATE_FAIL", base.priority)
  BY DEF VerifyHostWithAppIdentifier
<1>4. after = IF base.appIdentifier = "" \/ decidingNow = {}
                THEN Verdict("UNKNOWN", base.priority)
              ELSE IF Names(longer[Min(decidingNow)], base)
                THEN Verdict("STATE_SUCCESS", longer[Min(decidingNow)].priority)
              ELSE Verdict("STATE_FAIL", base.priority)
  BY DEF VerifyHostWithAppIdentifier
<1>5. deciding # {} => Min(deciding) \in deciding
  BY <1>1, LeastNat
<1>6. /\ deciding # {} => Min(deciding \cup {n}) = Min(deciding)
      /\ Min({n}) = n
  BY <1>1, FirstStays
<1> HIDE DEF n, longer, deciding, decidingNow, before, after
<1>7. CASE base.appIdentifier = ""
  BY <1>3, <1>4, <1>7 DEF StepById, before, after, longer
<1>8. CASE base.appIdentifier # "" /\ deciding # {}
  <2>1. decidingNow # {} /\ Min(decidingNow) = Min(deciding)
    BY <1>2, <1>6, <1>8
  <2>2. longer[Min(decidingNow)] = apps[Min(deciding)]
    BY <1>1, <1>5, <1>8, <2>1 DEF deciding
  <2>3. after = before /\ before.status # "UNKNOWN"
    BY <1>3, <1>4, <1>8, <2>1, <2>2 DEF Verdict
  <2>. QED
    BY <2>3 DEF StepById, before, after, longer
<1>9. CASE base.appIdentifier # "" /\ deciding = {} /\ ~Decides(e, base)
  <2>1. decidingNow = {} /\ after = before
    BY <1>2, <1>3, <1>4, <1>9
  <2>. QED
    BY <1>9, <2>1 DEF StepById, Decides, before, after, longer
<1>10. CASE base.appIdentifier # "" /\ deciding = {} /\ Decides(e, base)
  <2>1. decidingNow = {n} /\ Min(decidingNow) = n
    BY <1>2, <1>6, <1>10
  <2>2. after = IF Names(e, base) THEN Verdict("STATE_SUCCESS", e.priority)
                ELSE Verdict("STATE_FAIL", base.priority)
    BY <1>1, <1>4, <1>10, <2>1
  <2>3. before = Verdict("UNKNOWN", base.priority)
    BY <1>3, <1>10
  <2>4. StepById(before, e) = IF Names(e, base) THEN Verdict("STATE_SUCCESS", e.priority)
                                    ELSE Verdict("STATE_FAIL", base.priority)
    <3>1. before.status = "UNKNOWN"
      BY <2>3 DEF Verdict
    <3>2. CASE e.appIdentifier = base.appIdentifier
      BY <1>10, <3>1, <3>2 DEF StepById, Names, Verdict, Differs
    <3>3. CASE e.appIdentifier # base.appIdentifier
      BY <1>10, <3>1, <3>3 DEF StepById, Decides, Names, Verdict
    <3>. QED
      BY <3>2, <3>3
  <2>. QED
    BY <2>2, <2>4 DEF before, after, longer
<1>. QED
  BY <1>7, <1>8, <1>9, <1>10

LEMMA ByNameStep ==
    ASSUME apps \in Seq(Entry), NEW e \in Entry
    PROVE  VerifyHostWithBundleName(Append(apps, e), base)
             = StepByName(VerifyHostWithBundleName(apps, base), e)
<1>. DEFINE n == Len(apps) + 1
            longer == Append(apps, e)
            Match(x) == x.bundleName = base.bundleName /\ x.fingerprint = base.fingerprint
            naming == {i \in DOMAIN apps : Match(apps[i])}
            namingNow == {i \in DOMAIN longer : Match(longer[i])}
            unset == base.bundleName = "" \/ base.fingerprint = ""
            before == VerifyHostWithBundleName(apps, base)
            after == VerifyHostWithBundleName(longer, base)
<1>1. /\ DOMAIN longer = DOMAIN apps \cup {n}
      /\ longer[n] = e
      /\ \A i \in DOMAIN apps : longer[i] = apps[i]
      /\ n \in Nat
      /\ DOMAIN apps \subseteq Nat
      /\ \A i \in DOMAIN apps : i < n /\ i # n
  OBVIOUS
<1>2. namingNow = IF Match(e) THEN naming \cup {n} ELSE naming
  BY <1>1
<1>3. before = IF unset \/ naming = {} THEN Verdict("STATE_FAIL", base.priority)
               ELSE Verdict("STATE_SUCCESS", apps[Min(naming)].priority)
  BY DEF VerifyHostWithBundleName
<1>4. after = IF unset \/ namingNow = {} THEN Verdict("STATE_FAIL", base.priority)
              ELSE Verdict("STATE_SUCCESS", longer[Min(namingNow)].priority)
  BY DEF VerifyHostWithBundleName
<1>5. naming # {} => Min(naming) \in naming
  BY <1>1, LeastNat
<1>6. /\ naming # {} => Min(naming \cup {n}) = Min(naming)
      /\ Min({n}) = n
  BY <1>1, FirstStays
<1> HIDE DEF n, longer, naming, namingNow, before, after
<1>7. CASE unset
  BY <1>3, <1>4, <1>7 DEF StepByName, before, after, longer
<1>8. CASE ~unset /\ naming # {}
  <2>1. namingNow # {} /\ Min(namingNow) = Min(naming)
    BY <1>2, <1>6, <1>8
  <2>2. longer[Min(namingNow)] = apps[Min(naming)]
    BY <1>1, <1>5, <1>8, <2>1 DEF naming
  <2>3. after = before /\ before.status = "STATE_SUCCESS"
    BY <1>3, <1>4, <1>8, <2>1, <2>2 DEF Verdict
  <2>. QED
    BY <2>3 DEF StepByName, before, after, longer
<1>9. CASE ~unset /\ naming = {} /\ ~Match(e)
  <2>1. namingNow = {} /\ after = before
    BY <1>2, <1>3, <1>4, <1>9
  <2>. QED
    BY <1>9, <2>1 DEF StepByName, before, after, longer
<1>10. CASE ~unset /\ naming = {} /\ Match(e)
  <2>1. namingNow = {n} /\ Min(namingNow) = n
    BY <1>2, <1>6, <1>10
  <2>2. after = Verdict("STATE_SUCCESS", e.priority)
    BY <1>1, <1>4, <1>10, <2>1
  <2>3. before.status # "STATE_SUCCESS"
    BY <1>3, <1>10 DEF Verdict
  <2>. QED
    BY <1>10, <2>2, <2>3 DEF StepByName, Verdict, before, after, longer
<1>. QED
  BY <1>7, <1>8, <1>9, <1>10

(* The invariant of the loops: at every entry they have what the closed    *)
(* form says of the entries so far.                                        *)
LoopsInv ==
    /\ apps \in Seq(Entry)
    /\ byId = VerifyHostWithAppIdentifier(apps, base)
    /\ byName = VerifyHostWithBundleName(apps, base)

THEOREM LoopsSpecInv == SpecLoops => []LoopsInv
<1>1. InitLoops => LoopsInv
  BY DEF InitLoops, LoopsInv, VerifyHostWithAppIdentifier, VerifyHostWithBundleName,
         Verdict
<1>2. ASSUME LoopsInv, NEW e \in Entry, Read(e) PROVE LoopsInv'
  <2>1. apps' \in Seq(Entry)
    BY <1>2 DEF LoopsInv, Read
  <2>2. byId' = VerifyHostWithAppIdentifier(Append(apps, e), base)
    BY <1>2, ByIdStep DEF LoopsInv, Read
  <2>3. byName' = VerifyHostWithBundleName(Append(apps, e), base)
    BY <1>2, ByNameStep DEF LoopsInv, Read
  <2>4. apps' = Append(apps, e) /\ base' = base
    BY <1>2 DEF Read
  <2>. QED
    BY <2>1, <2>2, <2>3, <2>4 DEF LoopsInv
<1>3. ASSUME LoopsInv, UNCHANGED loopVars PROVE LoopsInv'
  BY <1>3 DEF LoopsInv, loopVars
<1>4. LoopsInv /\ [NextLoops]_loopVars => LoopsInv'
  BY <1>2, <1>3 DEF NextLoops
<1>. QED
  BY <1>1, <1>4, PTL DEF SpecLoops

(* The loops return what the closed form says, for a file of any length.   *)
THEOREM LoopsMatch == SpecLoops => []LoopsMatchClosedForm
<1>1. LoopsInv => LoopsMatchClosedForm
  BY DEF LoopsInv, LoopsMatchClosedForm, verdict, VerifyHost, OK,
         Parsed
<1>. QED
  BY <1>1, LoopsSpecInv, PTL

(* A host is verified only by an entry about this app that no entry before *)
(* it contradicts, with that entry's priority.                             *)
THEOREM LoopsSuccessIsEarned == SpecLoops => []SuccessIsEarned
<1>. DEFINE deciding == {i \in DOMAIN apps : Decides(apps[i], base)}
            naming == {i \in DOMAIN apps : /\ apps[i].bundleName = base.bundleName
                                           /\ apps[i].fingerprint = base.fingerprint}
            Claims(x) == /\ Differs(base.appIdentifier, x.appIdentifier)
                         /\ base.bundleName # ""
                         /\ x.bundleName = base.bundleName
            Earned(i) ==
                /\ apps[i].priority = verdict.priority
                /\ \/ base.appIdentifier # "" /\ apps[i].appIdentifier = base.appIdentifier
                   \/ base.bundleName # "" /\ apps[i].bundleName = base.bundleName
                /\ ~Differs(base.bundleName, apps[i].bundleName)
                /\ base.appIdentifier # "" => \A j \in 1 .. i : ~Claims(apps[j])
<1>1. ASSUME LoopsInv, verdict.status = "STATE_SUCCESS"
      PROVE  \E i \in DOMAIN apps : Earned(i)
  <2>1. /\ deciding \in SUBSET Nat /\ naming \in SUBSET Nat
        /\ \A i \in DOMAIN apps : i \in Nat /\ 1 .. i \subseteq DOMAIN apps
    BY <1>1 DEF LoopsInv
  <2>2. \A x : base.appIdentifier # "" /\ Claims(x)
                    => Decides(x, base) /\ x.appIdentifier # base.appIdentifier
    BY DEF Decides, Differs
  <2>3. CASE byId.status # "UNKNOWN"
    <3>1. byId.status = "STATE_SUCCESS" /\ verdict = byId
      BY <1>1, <2>3 DEF verdict
    <3>2. /\ base.appIdentifier # "" /\ deciding # {}
          /\ Names(apps[Min(deciding)], base)
          /\ byId.priority = apps[Min(deciding)].priority
      BY <1>1, <3>1 DEF LoopsInv, VerifyHostWithAppIdentifier, Verdict
    <3>3. PICK k \in deciding : /\ k = Min(deciding) /\ k \in Nat
                               /\ \A x \in deciding : k <= x
      BY <2>1, <3>2, LeastNat
    <3>4. \A j \in 1 .. k : ~Claims(apps[j])
      <4> SUFFICES ASSUME NEW j \in 1 .. k, Claims(apps[j]) PROVE FALSE
        OBVIOUS
      <4> HIDE DEF Claims, Earned, deciding, naming
      <4>1. Decides(apps[j], base) /\ apps[j].appIdentifier # base.appIdentifier
        BY <2>2, <3>2
      <4>2. j \in deciding
        BY <2>1, <3>3, <4>1 DEF deciding
      <4>3. j = k
        BY <3>3, <4>2
      <4>. QED
        BY <3>2, <3>3, <4>1, <4>3 DEF Names
    <3>5. Earned(k)
      BY <3>1, <3>2, <3>3, <3>4 DEF Names
    <3>. QED
      BY <3>5
  <2>4. CASE byId.status = "UNKNOWN"
    <3>1. byName.status = "STATE_SUCCESS" /\ verdict = byName
      BY <1>1, <2>4 DEF verdict
    <3>2. /\ base.bundleName # "" /\ naming # {}
          /\ byName.priority = apps[Min(naming)].priority
      BY <1>1, <3>1 DEF LoopsInv, VerifyHostWithBundleName, Verdict
    <3>3. PICK k \in naming : k = Min(naming)
      BY <2>1, <3>2, LeastNat
    <3>4. base.appIdentifier = "" \/ deciding = {}
      BY <1>1, <2>4 DEF LoopsInv, VerifyHostWithAppIdentifier, Verdict
    <3>5. base.appIdentifier # "" => \A j \in 1 .. k : ~Claims(apps[j])
      BY <2>1, <2>2, <3>3, <3>4
    <3>6. Earned(k)
      BY <3>1, <3>2, <3>3, <3>5 DEF Differs
    <3>. QED
      BY <3>6
  <2>. QED
    BY <2>3, <2>4
<1>2. LoopsInv => SuccessIsEarned
  BY <1>1 DEF SuccessIsEarned, Differs
<1>. QED
  BY <1>2, LoopsSpecInv, PTL

(* More entries never turn a success into a failure, but the two ways the  *)
(* property names.                                                         *)
THEOREM LoopsVerdictIsStable == SpecLoops => VerdictIsStable
<1>. DEFINE Stable ==
        \/ verdict.status # "STATE_SUCCESS"
        \/ verdict' = verdict
        \/ byId.status = "UNKNOWN" /\ Decides(apps'[Len(apps')], base)
<1>1. ASSUME LoopsInv, NEW e \in Entry, Read(e) PROVE Stable
  <2>1. /\ byId' = StepById(byId, e)
        /\ byName' = StepByName(byName, e)
        /\ apps'[Len(apps')] = e
    BY <1>1 DEF LoopsInv, Read
  <2>2. CASE byId.status # "UNKNOWN"
    BY <2>1, <2>2 DEF StepById, verdict
  <2>3. CASE byId.status = "UNKNOWN" /\ byName.status = "STATE_SUCCESS"
    <3>1. byName' = byName
      BY <2>1, <2>3 DEF StepByName
    <3>2. byId' = byId \/ Decides(e, base)
      BY <2>1 DEF StepById, Decides
    <3>. QED
      BY <2>1, <2>3, <3>1, <3>2 DEF verdict
  <2>. QED
    BY <2>2, <2>3 DEF verdict
<1>2. LoopsInv /\ [NextLoops]_loopVars => [Stable]_loopVars
  BY <1>1 DEF NextLoops
<1>. QED
  BY <1>2, LoopsSpecInv, PTL DEF SpecLoops, VerdictIsStable
===============================================================================
