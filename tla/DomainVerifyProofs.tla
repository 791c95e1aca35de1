-------------------------- MODULE DomainVerifyProofs --------------------------
(***************************************************************************)
(* Proofs about DomainVerify, for any bundles, hosts, apps, skills,        *)
(* priorities and number of tasks.                                         *)
(*                                                                         *)
(* A task is why SuccessIsOfApp is not inductive: what it will save is in  *)
(* its copy of the results.  TasksAreOfApp says of a task that no newer    *)
(* version has outdated that its app, and the successes it has copied, are *)
(* those of the app its bundle is of.                                      *)
(***************************************************************************)
EXTENDS DomainVerify, TLAPS

(* A success in map is one of app a. *)
SuccessesOf(map, a) ==
    \A h \in Host : map[h].status = "STATE_SUCCESS" => map[h].by = a

EntriesAreInstalled == \A b \in Bundle : HasEntry(b) <=> installed[b] # None

RunningHasApp ==
    \A t \in Task :
        /\ task[t].phase # "free" => task[t].bundle \in Bundle
        /\ task[t].phase = "running" => task[t].app \in App

TasksAreOfApp ==
    \A t \in Task : \A b \in Bundle \ mixed :
        task[t].bundle = b /\ task[t].phase # "free" /\ ~task[t].stale =>
            /\ SuccessesOf(task[t].map, installed[b])
            /\ task[t].phase = "running" => task[t].app = installed[b]

(* The inductive invariant. *)
IInv ==
    /\ TypeOK
    /\ EntriesAreInstalled
    /\ RunningHasApp
    /\ TasksAreOfApp
    /\ SuccessIsOfApp
    /\ LinkIsAnnounced
-----------------------------------------------------------------------------
TaskType ==
    [phase : {"free", "copy", "running"}, bundle : Bundle \cup {None},
     app : App \cup {None}, pre : BOOLEAN, map : HostMap,
     stale : BOOLEAN, overlap : BOOLEAN]

EntryType == [app : App \cup {None}, hosts : HostMap]

(* Only Success makes a success, and it is one of its app. *)
LEMMA Statuses ==
    /\ \A a \in App, p \in Priority :
        Success(a, p) \in VerifyStatus /\ Success(a, p).by = a
    /\ \A p \in Priority : /\ PRE_INSTALLED(p) \in VerifyStatus
                          /\ PRE_INSTALLED(p).status = "PRE_INSTALLED"
    /\ {UNKNOWN, FAILURE} \subseteq VerifyStatus
    /\ \A s \in {UNKNOWN, FAILURE, NoHost} : s.status \in {"UNKNOWN", "FAILURE", "none"}
BY DEF Success, VerifyStatus, UNKNOWN, FAILURE, PRE_INSTALLED, NoHost, Other

(* New results have no success yet. *)
LEMMA Collected ==
    ASSUME NEW s
    PROVE  /\ CollectDomains(s) \in HostMap
           /\ \A h \in Host : CollectDomains(s)[h].status # "STATE_SUCCESS"
BY Statuses DEF CollectDomains, HostMap

LEMMA NothingEntered ==
    /\ NoEntry \in EntryType
    /\ NoEntry.app = None
    /\ \A h \in Host : NoEntry.hosts[h].status # "STATE_SUCCESS"
BY Statuses DEF NoEntry, EntryType, HostMap

(* What a task saves for a host is what it has copied or found. *)
LEMMA ResultIsFound ==
    ASSUME TypeOK, NEW t \in Task, task[t].app \in App, NEW result \in Results(t)
    PROVE  /\ result \in HostMap
           /\ \A h \in Host : result[h].status = "STATE_SUCCESS" =>
                result[h] = task[t].map[h] \/ result[h].by = task[t].app
<1>1. Verdicts(t) \subseteq VerifyStatus
  BY Statuses DEF Verdicts
<1>2. \A r \in Verdicts(t) : r.status = "STATE_SUCCESS" => r.by = task[t].app
  BY Statuses DEF Verdicts
<1>3. PICK todo : \E v \in [todo -> Verdicts(t)] :
          result = [h \in Host |-> IF h \in todo THEN v[h] ELSE task[t].map[h]]
  BY DEF Results
<1>4. task[t].map \in HostMap
  BY DEF TypeOK
<1>5. \A h \in Host : result[h] \in Verdicts(t) \/ result[h] = task[t].map[h]
  BY <1>3
<1>6. \A h \in Host : result[h] \in VerifyStatus \cup {NoHost}
  BY <1>1, <1>4, <1>5 DEF HostMap
<1>7. result \in HostMap
  BY <1>3, <1>6 DEF HostMap
<1> QED
  BY <1>2, <1>5, <1>7

(* A merge takes the hosts of the result or keeps those of the entry. *)
LEMMA Merged ==
    ASSUME NEW entry \in EntryType, NEW result \in HostMap
    PROVE  /\ UpdateVerifyMap(entry, result) \in EntryType
           /\ UpdateVerifyMap(entry, result).app = entry.app
           /\ \A h \in Host :
                UpdateVerifyMap(entry, result).hosts[h] \in {entry.hosts[h], result[h]}
BY DEF UpdateVerifyMap, EntryType, HostMap

(* What a step does to the task in place u. *)
Keeps(u) ==
    /\ task'[u].phase = task[u].phase
    /\ task'[u].bundle = task[u].bundle
    /\ task'[u].app = task[u].app
    /\ task'[u].map = task[u].map

Starts(u, phase, b, a, map) ==
    /\ task'[u].phase = phase
    /\ task'[u].bundle = b
    /\ task'[u].app = a
    /\ task'[u].map = map

(* A new task; the others of its bundle differ in the overlap only. *)
LEMMA Placed ==
    ASSUME NEW tasks \in [Task -> TaskType], NEW t \in Task, NEW phase \in {"copy", "running"},
           NEW b \in Bundle, NEW a \in App \cup {None}, NEW pre \in BOOLEAN,
           NEW map \in HostMap
    PROVE  LET new == NewTask(tasks, t, phase, b, a, pre, map) IN
           /\ new \in [Task -> TaskType]
           /\ /\ new[t].phase = phase /\ new[t].bundle = b /\ new[t].app = a
              /\ new[t].map = map
           /\ \A u \in Task \ {t} :
                /\ new[u].phase = tasks[u].phase /\ new[u].bundle = tasks[u].bundle
                /\ new[u].app = tasks[u].app /\ new[u].map = tasks[u].map
                /\ new[u].stale = tasks[u].stale
<1>. DEFINE new == NewTask(tasks, t, phase, b, a, pre, map)
            first == [phase |-> phase, bundle |-> b, app |-> a, pre |-> pre,
                      map |-> map, stale |-> FALSE, overlap |-> Of(b) # {}]
<1>1. first \in TaskType
  BY DEF TaskType
<1>2. /\ DOMAIN new = Task
      /\ new = [u \in Task |-> IF u = t THEN first
                               ELSE IF u \in Of(b) THEN [tasks[u] EXCEPT !.overlap = TRUE]
                               ELSE tasks[u]]
  BY DEF NewTask
<1>3. new[t] = first
  BY <1>2
<1>4. ASSUME NEW u \in Task \ {t}
      PROVE  /\ new[u] \in TaskType
             /\ new[u].phase = tasks[u].phase /\ new[u].bundle = tasks[u].bundle
             /\ new[u].app = tasks[u].app /\ new[u].map = tasks[u].map
             /\ new[u].stale = tasks[u].stale
  <2>1. new[u] = [tasks[u] EXCEPT !.overlap = TRUE] \/ new[u] = tasks[u]
    BY <1>2
  <2>2. tasks[u] \in TaskType
    OBVIOUS
  <2>. HIDE DEF new
  <2>. QED
    BY <2>1, <2>2 DEF TaskType
<1>5. new \in [Task -> TaskType]
  <2>1. \A u \in Task : new[u] \in TaskType
    BY <1>1, <1>3, <1>4
  <2>. QED
    BY <1>2, <2>1
<1>. QED
  BY <1>3, <1>4, <1>5

(* The tasks of b are outdated, those of other bundles are as before. *)
LEMMA OutdatedTasks ==
    ASSUME task \in [Task -> TaskType], NEW b \in Bundle
    PROVE  /\ Outdated(b) \in [Task -> TaskType]
           /\ \A u \in Task :
                /\ Outdated(b)[u].phase = task[u].phase
                /\ Outdated(b)[u].bundle = task[u].bundle
                /\ Outdated(b)[u].app = task[u].app
                /\ Outdated(b)[u].map = task[u].map
                /\ Outdated(b)[u].stale = (task[u].stale \/ task[u].bundle = b)
BY DEF Outdated, TaskType, Of

LEMMA InitIInv == Init => IInv
<1> SUFFICES ASSUME Init PROVE IInv
  OBVIOUS
<1>1. Free \in TaskType /\ Free.phase = "free"
  BY NothingEntered DEF Free, TaskType, EntryType
<1>2. TypeOK
  BY <1>1, NothingEntered DEF Init, TypeOK, TaskType, EntryType, HasEntry
<1>3. EntriesAreInstalled
  BY NothingEntered DEF Init, EntriesAreInstalled, HasEntry
<1>4. RunningHasApp /\ TasksAreOfApp
  BY <1>1 DEF Init, RunningHasApp, TasksAreOfApp
<1>5. SuccessIsOfApp
  BY NothingEntered DEF Init, SuccessIsOfApp
<1>6. LinkIsAnnounced
  BY DEF Init, LinkIsAnnounced
<1> QED
  BY <1>2, <1>3, <1>4, <1>5, <1>6 DEF IInv

(* VerifyDomain: the new entry has no success, the old tasks are outdated. *)
LEMMA VerifyDomainIInv ==
    ASSUME IInv, NEW b \in Bundle, NEW a \in App, NEW s \in Skills, VerifyDomain(b, a, s)
    PROVE  IInv'
<1> DEFINE entry == [app |-> a, hosts |-> CollectDomains(s)]
<1>0. task \in [Task -> TaskType]
  BY DEF IInv, TypeOK, TaskType
<1>1. /\ installed' = [installed EXCEPT ![b] = a]
      /\ verifyMap' = [verifyMap EXCEPT ![b] = entry]
      /\ mixed' = mixed \ {b}
      /\ missed' = [missed EXCEPT ![b] = {}]
      /\ UNCHANGED <<links, filter, announced, late>>
  BY DEF VerifyDomain
<1>2. /\ installed'[b] = a /\ verifyMap'[b] = entry
      /\ \A c \in Bundle \ {b} : installed'[c] = installed[c] /\ verifyMap'[c] = verifyMap[c]
      /\ \A c \in Bundle \ {b} : missed'[c] = missed[c]
  BY <1>1 DEF IInv, TypeOK
<1>3. entry.app = a /\ entry.hosts = CollectDomains(s) /\ entry \in EntryType
  BY Collected DEF EntryType
<1>3a. \/ task' = Outdated(b)
      \/ \E t \in Task, pre \in BOOLEAN :
            task' = NewTask(Outdated(b), t, "running", b, a, pre, CollectDomains(s))
  BY DEF VerifyDomain
<1>4. task' \in [Task -> TaskType]
  <2>1. CASE task' = Outdated(b)
    BY <1>0, <2>1, OutdatedTasks
  <2>2. ASSUME NEW t \in Task, NEW pre \in BOOLEAN,
               task' = NewTask(Outdated(b), t, "running", b, a, pre, CollectDomains(s))
        PROVE  task' \in [Task -> TaskType]
    <3>1. Outdated(b) \in [Task -> TaskType]
      BY <1>0, OutdatedTasks
    <3> QED
      BY <2>2, <3>1, Placed, Collected
  <2> QED
    BY <1>3a, <2>1, <2>2
<1>5. \A u \in Task :
        \/ Starts(u, "running", b, a, CollectDomains(s))
        \/ Keeps(u) /\ task'[u].stale = (task[u].stale \/ task[u].bundle = b)
  <2>1. CASE task' = Outdated(b)
    BY <1>0, <2>1, OutdatedTasks DEF Keeps
  <2>2. ASSUME NEW t \in Task, NEW pre \in BOOLEAN,
               task' = NewTask(Outdated(b), t, "running", b, a, pre, CollectDomains(s))
        PROVE  \A u \in Task :
                \/ Starts(u, "running", b, a, CollectDomains(s))
                \/ Keeps(u) /\ task'[u].stale = (task[u].stale \/ task[u].bundle = b)
    <3>1. Outdated(b) \in [Task -> TaskType]
      BY <1>0, OutdatedTasks
    <3>2. Starts(t, "running", b, a, CollectDomains(s))
      BY <2>2, <3>1, Placed, Collected DEF Starts
    <3>3. \A u \in Task \ {t} :
            Keeps(u) /\ task'[u].stale = (task[u].stale \/ task[u].bundle = b)
      BY <1>0, <2>2, <3>1, Placed, OutdatedTasks, Collected DEF Keeps
    <3> QED
      BY <3>2, <3>3
  <2> QED
    BY <1>3a, <2>1, <2>2
<1> HIDE DEF entry
<1>6. TypeOK'
  BY <1>0, <1>1, <1>2, <1>3, <1>4, DomainVerifyAssumption
     DEF IInv, TypeOK, HasEntry, TaskType, EntryType
<1>7. EntriesAreInstalled'
  BY <1>2, <1>3, DomainVerifyAssumption DEF IInv, EntriesAreInstalled, HasEntry
<1>8. RunningHasApp'
  BY <1>5 DEF IInv, RunningHasApp, Keeps, Starts
<1>9. TasksAreOfApp'
  <2> SUFFICES ASSUME NEW u \in Task, NEW c \in Bundle \ mixed', task'[u].bundle = c,
                      task'[u].phase # "free", ~task'[u].stale
               PROVE  /\ SuccessesOf(task'[u].map, installed'[c])
                      /\ task'[u].phase = "running" => task'[u].app = installed'[c]
    BY DEF TasksAreOfApp, SuccessesOf
  <2>1. CASE Starts(u, "running", b, a, CollectDomains(s))
    BY <1>2, <2>1, Collected DEF Starts, SuccessesOf
  <2>2. CASE Keeps(u) /\ task'[u].stale = (task[u].stale \/ task[u].bundle = b)
    <3>1. c \in Bundle \ mixed /\ c # b /\ ~task[u].stale
      BY <1>1, <2>2 DEF Keeps
    <3> QED
      BY <1>2, <2>2, <3>1 DEF IInv, TasksAreOfApp, Keeps
  <2> QED
    BY <1>5, <2>1, <2>2
<1>10. SuccessIsOfApp'
  BY <1>1, <1>2, <1>3, Collected DEF IInv, SuccessIsOfApp
<1>11. LinkIsAnnounced'
  BY <1>1, <1>2, <1>3, Collected DEF IInv, LinkIsAnnounced, Verified
<1> QED
  BY <1>6, <1>7, <1>8, <1>9, <1>10, <1>11 DEF IInv

(* ClearDomainVerifyStatus: no entry, no success. *)
LEMMA ClearIInv ==
    ASSUME IInv, NEW b \in Bundle, ClearDomainVerifyStatus(b)
    PROVE  IInv'
<1>0. task \in [Task -> TaskType]
  BY DEF IInv, TypeOK, TaskType
<1>1. /\ installed' = [installed EXCEPT ![b] = None]
      /\ verifyMap' = [verifyMap EXCEPT ![b] = NoEntry]
      /\ mixed' = mixed \ {b}
      /\ missed' = [missed EXCEPT ![b] = {}]
      /\ UNCHANGED <<links, filter, announced, late>>
  BY DEF ClearDomainVerifyStatus
<1>2. /\ installed'[b] = None /\ verifyMap'[b] = NoEntry
      /\ \A c \in Bundle \ {b} : installed'[c] = installed[c] /\ verifyMap'[c] = verifyMap[c]
      /\ \A c \in Bundle \ {b} : missed'[c] = missed[c]
  BY <1>1 DEF IInv, TypeOK
<1>3. task' = Outdated(b)
  BY DEF ClearDomainVerifyStatus
<1>4. task' \in [Task -> TaskType]
  BY <1>0, <1>3, OutdatedTasks
<1>5. \A u \in Task :
        Keeps(u) /\ task'[u].stale = (task[u].stale \/ task[u].bundle = b)
  BY <1>0, <1>3, OutdatedTasks DEF Keeps
<1>6. TypeOK'
  BY <1>1, <1>2, <1>4, NothingEntered
     DEF IInv, TypeOK, HasEntry, TaskType, EntryType
<1>7. EntriesAreInstalled'
  BY <1>2, NothingEntered DEF IInv, EntriesAreInstalled, HasEntry
<1>8. RunningHasApp'
  BY <1>5 DEF IInv, RunningHasApp, Keeps
<1>9. TasksAreOfApp'
  <2> SUFFICES ASSUME NEW u \in Task, NEW c \in Bundle \ mixed', task'[u].bundle = c,
                      task'[u].phase # "free", ~task'[u].stale
               PROVE  /\ SuccessesOf(task'[u].map, installed'[c])
                      /\ task'[u].phase = "running" => task'[u].app = installed'[c]
    BY DEF TasksAreOfApp, SuccessesOf
  <2>1. c \in Bundle \ mixed /\ c # b /\ ~task[u].stale
    BY <1>1, <1>5 DEF Keeps
  <2> QED
    BY <1>2, <1>5, <2>1 DEF IInv, TasksAreOfApp, Keeps
<1>10. SuccessIsOfApp'
  BY <1>1, <1>2, NothingEntered DEF IInv, SuccessIsOfApp
<1>11. LinkIsAnnounced'
  BY <1>1, <1>2, NothingEntered DEF IInv, LinkIsAnnounced, Verified
<1> QED
  BY <1>6, <1>7, <1>8, <1>9, <1>10, <1>11 DEF IInv

(* A step that leaves results and bundles alone. *)
LEMMA ElsewhereIInv ==
    ASSUME IInv, UNCHANGED <<installed, verifyMap, mixed, links, announced, late, missed>>,
           filter' \in [host : LinkHost, found : BOOLEAN] \cup {None},
           task' \in [Task -> TaskType], RunningHasApp', TasksAreOfApp'
    PROVE  IInv'
<1>1. TypeOK'
  BY DEF IInv, TypeOK, TaskType, HasEntry
<1>2. EntriesAreInstalled'
  BY DEF IInv, EntriesAreInstalled, HasEntry
<1>3. SuccessIsOfApp'
  BY DEF IInv, SuccessIsOfApp
<1>4. LinkIsAnnounced'
  BY DEF IInv, LinkIsAnnounced, Verified
<1> QED
  BY <1>1, <1>2, <1>3, <1>4 DEF IInv

(* The refresh copies what is there. *)
LEMMA QueryAllIInv ==
    ASSUME IInv, NEW t \in Task, NEW b \in Bundle, QueryAllDomainVerifyStatus(t, b)
    PROVE  IInv'
<1>0. task \in [Task -> TaskType]
  BY DEF IInv, TypeOK, TaskType
<1>1. verifyMap[b].hosts \in HostMap
  BY DEF IInv, TypeOK
<1>2. task' = NewTask(task, t, "copy", b, None, FALSE, verifyMap[b].hosts)
  BY DEF QueryAllDomainVerifyStatus
<1>2a. PICK a \in App \cup {None}, pre \in BOOLEAN, map \in HostMap :
          /\ task' = NewTask(task, t, "copy", b, a, pre, map)
          /\ a = None /\ map = verifyMap[b].hosts
  BY Zenon, <1>1, <1>2
<1>3. task' \in [Task -> TaskType] /\ Starts(t, "copy", b, None, verifyMap[b].hosts)
  <2>1. task' \in [Task -> TaskType]
    BY <1>0, <1>2a, Placed
  <2>2. Starts(t, "copy", b, a, map)
    <3> DEFINE new == NewTask(task, t, "copy", b, a, pre, map)
    <3>1. new[t].phase = "copy" /\ new[t].bundle = b /\ new[t].app = a /\ new[t].map = map
      BY <1>0, Placed
    <3> QED
      BY <1>2a, <3>1 DEF Starts
  <2> QED
    BY <1>2a, <2>1, <2>2
<1>4. \A u \in Task \ {t} : Keeps(u) /\ task'[u].stale = task[u].stale
  BY <1>0, <1>1, <1>2a, Placed DEF Keeps
<1>5. UNCHANGED <<installed, verifyMap, mixed, links, announced, late, missed, filter>>
  BY DEF QueryAllDomainVerifyStatus
<1>6. RunningHasApp'
  BY <1>3, <1>4 DEF IInv, RunningHasApp, Keeps, Starts
<1>7. TasksAreOfApp'
  <2>1. \A c \in Bundle \ mixed : SuccessesOf(verifyMap[c].hosts, installed[c])
    BY DEF IInv, SuccessIsOfApp, SuccessesOf
  <2> QED
    BY <1>3, <1>4, <1>5, <2>1 DEF IInv, TasksAreOfApp, SuccessesOf, Keeps, Starts
<1> QED
  BY <1>3, <1>5, <1>6, <1>7, ElsewhereIInv DEF IInv, TypeOK

(* A task gets the app of the day, or its place is free again. *)
LEMMA CompleteIInv ==
    ASSUME IInv, NEW t \in Task, CompleteVerifyRefresh(t)
    PROVE  IInv'
<1>0. task \in [Task -> TaskType] /\ Free \in TaskType /\ Free.phase = "free"
  BY NothingEntered DEF IInv, TypeOK, TaskType, Free, EntryType
<1>1. UNCHANGED <<installed, verifyMap, mixed, links, announced, late, missed, filter>>
  BY DEF CompleteVerifyRefresh
<1>2. \A u \in Task \ {t} : task'[u] = task[u]
  BY <1>0 DEF CompleteVerifyRefresh
<1>3. CASE task' = [task EXCEPT ![t] = Free]
  <2>1. task' \in [Task -> TaskType] /\ task'[t] = Free
    BY <1>0, <1>3
  <2>2. RunningHasApp' /\ TasksAreOfApp'
    BY <1>0, <1>1, <1>2, <2>1 DEF IInv, RunningHasApp, TasksAreOfApp, SuccessesOf
  <2> QED
    BY <1>1, <2>1, <2>2, ElsewhereIInv DEF IInv, TypeOK
<1>4. CASE installed[task[t].bundle] # None
  <2> DEFINE a == installed[task[t].bundle]
  <2>1. task[t].phase = "copy" /\ task[t].bundle \in Bundle
    BY DEF CompleteVerifyRefresh, IInv, RunningHasApp
  <2>2. a \in App
    BY <1>4, <2>1 DEF IInv, TypeOK
  <2>3. task' = [task EXCEPT ![t] = [@ EXCEPT !.phase = "running", !.app = a]]
    BY <1>4 DEF CompleteVerifyRefresh
  <2>4. task' \in [Task -> TaskType]
    BY <1>0, <2>2, <2>3 DEF TaskType
  <2>5. /\ task'[t].phase = "running" /\ task'[t].app = a
        /\ task'[t].bundle = task[t].bundle /\ task'[t].map = task[t].map
        /\ task'[t].stale = task[t].stale
    BY <1>0, <2>3 DEF TaskType
  <2>6. RunningHasApp'
    BY <1>2, <2>1, <2>2, <2>5 DEF IInv, RunningHasApp
  <2>7. TasksAreOfApp'
    BY <1>1, <1>2, <2>1, <2>5 DEF IInv, TasksAreOfApp, SuccessesOf
  <2> QED
    BY <1>1, <2>4, <2>6, <2>7, ElsewhereIInv DEF IInv, TypeOK
<1> QED
  BY <1>3, <1>4 DEF CompleteVerifyRefresh

(* A task that is lost frees its place. *)
LEMMA LostIInv ==
    ASSUME IInv, NEW t \in Task, Lost(t)
    PROVE  IInv'
<1>0. task \in [Task -> TaskType] /\ Free \in TaskType /\ Free.phase = "free"
  BY NothingEntered DEF IInv, TypeOK, TaskType, Free, EntryType
<1>1. UNCHANGED <<installed, verifyMap, mixed, links, announced, late, missed, filter>>
  BY DEF Lost
<1>2. task' = [task EXCEPT ![t] = Free]
  BY DEF Lost
<1>3. task' \in [Task -> TaskType] /\ task'[t] = Free /\ \A u \in Task \ {t} : task'[u] = task[u]
  BY <1>0, <1>2
<1>4. RunningHasApp' /\ TasksAreOfApp'
  BY <1>0, <1>1, <1>3 DEF IInv, RunningHasApp, TasksAreOfApp, SuccessesOf
<1> QED
  BY <1>1, <1>3, <1>4, ElsewhereIInv DEF IInv, TypeOK

(* The save of a task: what it merges is of the app, or the bundle is      *)
(* mixed; what it verifies is announced.                                   *)
LEMMA SaveIInv ==
    ASSUME IInv, NEW t \in Task, NEW result \in Results(t), SaveDomainVerifyStatus(t, result)
    PROVE  IInv'
<1> DEFINE b == task[t].bundle
<1>0. task \in [Task -> TaskType] /\ Free \in TaskType /\ Free.phase = "free"
  BY NothingEntered DEF IInv, TypeOK, TaskType, Free, EntryType
<1>1. /\ task[t].phase = "running"
      /\ verifyMap' = [verifyMap EXCEPT ![b] =
            IF HasEntry(b) THEN UpdateVerifyMap(@, result) ELSE @]
      /\ mixed' = IF task[t].stale THEN mixed \cup {b} ELSE mixed
      /\ task' = [task EXCEPT ![t] = Free]
      /\ UNCHANGED <<installed, links, filter, late>>
      /\ SendVerifiedEvent(b, result)
  BY DEF SaveDomainVerifyStatus, UpdateVerifyStatus
<1>1a. /\ announced \subseteq announced' /\ announced' \subseteq announced \cup links
       /\ missed' = [missed EXCEPT ![b] = @ \cup ((links \cap Verified(result)) \ announced')]
  BY <1>1 DEF SendVerifiedEvent
<1>2. b \in Bundle /\ task[t].app \in App
  BY <1>1 DEF IInv, RunningHasApp
<1>3. /\ result \in HostMap
      /\ \A h \in Host : result[h].status = "STATE_SUCCESS" =>
            result[h] = task[t].map[h] \/ result[h].by = task[t].app
  BY <1>2, ResultIsFound DEF IInv
<1>4. task' \in [Task -> TaskType] /\ task'[t] = Free /\ \A u \in Task \ {t} : task'[u] = task[u]
  BY <1>0, <1>1
<1>5. /\ verifyMap' \in [Bundle -> EntryType]
      /\ verifyMap'[b].app = verifyMap[b].app
      /\ ~HasEntry(b) => verifyMap'[b] = verifyMap[b]
      /\ \A h \in Host : verifyMap'[b].hosts[h] \in {verifyMap[b].hosts[h], result[h]}
      /\ \A c \in Bundle \ {b} : verifyMap'[c] = verifyMap[c]
  <2>1. verifyMap \in [Bundle -> EntryType]
    BY DEF IInv, TypeOK, EntryType
  <2>2. CASE HasEntry(b)
    <3>1. verifyMap' = [verifyMap EXCEPT ![b] = UpdateVerifyMap(verifyMap[b], result)]
      BY <1>1, <2>2
    <3> QED
      BY <1>2, <1>3, <2>1, <2>2, <3>1, Merged
  <2>3. CASE ~HasEntry(b)
    <3>1. verifyMap' = verifyMap
      BY <1>1, <2>1, <2>3
    <3> QED
      BY <2>1, <3>1
  <2> QED
    BY <2>2, <2>3
<1> HIDE DEF b
<1>6. TypeOK'
  <2>1. \A c \in Bundle : ~HasEntry(c)' => verifyMap'[c] = NoEntry
    BY <1>5 DEF IInv, TypeOK, HasEntry
  <2>2. mixed' \subseteq Bundle /\ announced' \subseteq links'
    BY <1>1, <1>1a, <1>2 DEF IInv, TypeOK
  <2>3. missed' \in [Bundle -> SUBSET links']
    BY <1>1, <1>1a DEF IInv, TypeOK
  <2> QED
    BY <1>1, <1>4, <1>5, <2>1, <2>2, <2>3 DEF IInv, TypeOK, TaskType, EntryType
<1>7. EntriesAreInstalled'
  BY <1>1, <1>5 DEF IInv, EntriesAreInstalled, HasEntry
<1>8. RunningHasApp' /\ TasksAreOfApp'
  BY <1>0, <1>1, <1>4 DEF IInv, RunningHasApp, TasksAreOfApp, SuccessesOf
<1>9. SuccessIsOfApp'
  <2>1. ASSUME b \notin mixed', NEW h \in Host, verifyMap'[b].hosts[h].status = "STATE_SUCCESS"
        PROVE  verifyMap'[b].hosts[h].by = installed[b]
    <3>1. ~task[t].stale /\ b \notin mixed
      BY <1>1, <2>1
    <3>2. task[t].app = installed[b] /\ SuccessesOf(task[t].map, installed[b])
      BY <1>1, <1>2, <3>1 DEF IInv, TasksAreOfApp, b
    <3>3. verifyMap[b].hosts[h].status = "STATE_SUCCESS" =>
            verifyMap[b].hosts[h].by = installed[b]
      BY <1>2, <3>1 DEF IInv, SuccessIsOfApp
    <3> QED
      BY <1>3, <1>5, <2>1, <3>2, <3>3 DEF SuccessesOf
  <2>2. \A c \in Bundle \ {b} : c \notin mixed' => c \notin mixed
    BY <1>1
  <2> QED
    BY <1>1, <1>5, <2>1, <2>2 DEF IInv, SuccessIsOfApp
<1>10. LinkIsAnnounced'
  <2>1. Verified(verifyMap'[b].hosts) \subseteq Verified(verifyMap[b].hosts) \cup Verified(result)
    BY <1>5 DEF Verified
  <2>2. /\ missed'[b] = missed[b] \cup ((links \cap Verified(result)) \ announced')
        /\ \A c \in Bundle \ {b} : missed'[c] = missed[c]
    BY <1>1a, <1>2 DEF IInv, TypeOK
  <2>3. ASSUME NEW c \in Bundle
        PROVE  links' \cap Verified(verifyMap'[c].hosts) \subseteq announced' \cup late' \cup missed'[c]
    <3>1. links \cap Verified(verifyMap[c].hosts) \subseteq announced \cup late \cup missed[c]
      BY DEF IInv, LinkIsAnnounced
    <3>2. CASE c = b
      BY <1>1, <1>1a, <2>1, <2>2, <3>1, <3>2
    <3>3. CASE c # b
      BY <1>1, <1>1a, <1>5, <2>2, <3>1, <3>3
    <3> QED
      BY <3>2, <3>3
  <2> QED
    BY <2>3 DEF LinkIsAnnounced
<1> QED
  BY <1>6, <1>7, <1>8, <1>9, <1>10 DEF IInv

(* The links: a step that leaves all else alone. *)
LEMMA LinksIInv ==
    ASSUME IInv, UNCHANGED <<installed, verifyMap, task, mixed>>,
           filter' \in [host : LinkHost, found : BOOLEAN] \cup {None},
           links' \subseteq LinkHost, announced' \subseteq links', late' \subseteq links',
           missed' \in [Bundle -> SUBSET links'],
           LinkIsAnnounced'
    PROVE  IInv'
<1>1. TypeOK'
  BY DEF IInv, TypeOK, HasEntry
<1>2. EntriesAreInstalled' /\ RunningHasApp'
  BY DEF IInv, EntriesAreInstalled, RunningHasApp, HasEntry
<1>3. TasksAreOfApp' /\ SuccessIsOfApp'
  BY DEF IInv, TasksAreOfApp, SuccessIsOfApp, SuccessesOf
<1> QED
  BY <1>1, <1>2, <1>3 DEF IInv

(* FilterAbilities only looks. *)
LEMMA FilterIInv ==
    ASSUME IInv, NEW h \in LinkHost, NEW origin \in SUBSET Bundle, FilterAbilities(h, origin)
    PROVE  IInv'
<1>1. filter' \in [host : LinkHost, found : BOOLEAN] \cup {None}
  BY DEF FilterAbilities
<1>2. UNCHANGED <<installed, verifyMap, task, mixed, links, announced, late, missed>>
  BY DEF FilterAbilities
<1>3. LinkIsAnnounced'
  BY <1>2 DEF IInv, LinkIsAnnounced, Verified
<1> QED
  BY <1>1, <1>2, <1>3, LinksIInv DEF IInv, TypeOK

(* A link that a bundle could open when it was put is late. *)
LEMMA PutIInv ==
    ASSUME IInv, NEW inBlackList \in BOOLEAN, PutOrRemoveLink(inBlackList)
    PROVE  IInv'
<1> DEFINE h == filter.host
<1>1. h \in LinkHost /\ filter' = None /\ UNCHANGED <<installed, verifyMap, task, mixed>>
  BY DEF PutOrRemoveLink, IInv, TypeOK
<1>2. CASE UNCHANGED <<links, announced, late, missed>>
  <2>1. LinkIsAnnounced'
    BY <1>1, <1>2 DEF IInv, LinkIsAnnounced, Verified
  <2> QED
    BY <1>1, <1>2, <2>1, LinksIInv DEF IInv, TypeOK
<1>3. CASE /\ links' = IF filter.found THEN links \ {h} ELSE links \cup {h}
           /\ announced' = announced \ {h}
           /\ late' = IF ~filter.found /\ \E b \in Bundle : Opens(b, h)
                        THEN late \cup {h} ELSE late \ {h}
           /\ missed' = [b \in Bundle |-> missed[b] \ {h}]
  <2>1. /\ links' \subseteq LinkHost /\ announced' \subseteq links' /\ late' \subseteq links'
        /\ missed' \in [Bundle -> SUBSET links']
    BY <1>1, <1>3 DEF IInv, TypeOK
  <2>2. ASSUME NEW b \in Bundle, NEW g \in links' \cap Verified(verifyMap[b].hosts)
        PROVE  g \in announced' \cup late' \cup missed'[b]
    <3>1. CASE g = h
      <4>1. ~filter.found /\ g \in Host
        BY <1>3, <2>2, <3>1 DEF Verified
      <4>2. Opens(b, h)
        BY <2>2, <3>1 DEF Verified, Opens
      <4> QED
        BY <1>3, <3>1, <4>1, <4>2
    <3>2. CASE g # h
      BY <1>3, <2>2, <3>2 DEF IInv, LinkIsAnnounced
    <3> QED
      BY <3>1, <3>2
  <2>3. LinkIsAnnounced'
    BY <1>1, <2>2 DEF LinkIsAnnounced
  <2> QED
    BY <1>1, <2>1, <2>3, LinksIInv
<1> QED
  BY <1>2, <1>3 DEF PutOrRemoveLink

(* Links that are taken are gone from the history as well. *)
LEMMA PopIInv ==
    ASSUME IInv, NEW b \in Bundle, NEW matched \in SUBSET links, PopDeferredLink(b, matched)
    PROVE  IInv'
<1>1. /\ UNCHANGED <<installed, verifyMap, task, mixed, filter>>
      /\ links' = links \ matched
      /\ announced' = announced \ matched
      /\ late' = late \ matched
      /\ missed' = [c \in Bundle |-> missed[c] \ matched]
  BY DEF PopDeferredLink
<1>2. LinkIsAnnounced'
  BY <1>1 DEF IInv, LinkIsAnnounced, Verified
<1>3. /\ links' \subseteq LinkHost /\ announced' \subseteq links' /\ late' \subseteq links'
      /\ missed' \in [Bundle -> SUBSET links']
  BY <1>1 DEF IInv, TypeOK
<1> QED
  BY <1>1, <1>2, <1>3, LinksIInv DEF IInv, TypeOK

(* Every step keeps the invariant. *)
LEMMA NextIInv == IInv /\ [Next]_vars => IInv'
<1> SUFFICES ASSUME IInv, [Next]_vars PROVE IInv'
  OBVIOUS
<1>1. CASE UNCHANGED vars
  <2>1. LinkIsAnnounced'
    BY <1>1 DEF vars, IInv, LinkIsAnnounced, Verified
  <2> QED
    BY <1>1, <2>1, LinksIInv DEF vars, IInv, TypeOK
<1>2. CASE Next
  BY <1>2, VerifyDomainIInv, ClearIInv, QueryAllIInv, CompleteIInv, LostIInv, SaveIInv,
     FilterIInv, PutIInv, PopIInv DEF Next
<1> QED
  BY <1>1, <1>2
-----------------------------------------------------------------------------
(* The inductive invariant is one. *)
THEOREM SpecIInv == Spec => []IInv
<1>1. IInv /\ UNCHANGED vars => IInv'
  BY NextIInv
<1> QED
  BY InitIInv, NextIInv, <1>1, PTL DEF Spec

(* The results, the tasks and the links have their types: what a late task *)
(* saves never makes an entry of its own.                                  *)
THEOREM SpecTypeOK == Spec => []TypeOK
<1>1. IInv => TypeOK
  BY DEF IInv
<1> QED
  BY <1>1, SpecIInv, PTL

(* FilterAbilities gives a link to a verified bundle only for the app the  *)
(* asset file named, unless a task of an older version has saved since.    *)
THEOREM SpecSuccessIsOfApp == Spec => []SuccessIsOfApp
<1>1. IInv => SuccessIsOfApp
  BY DEF IInv
<1> QED
  BY <1>1, SpecIInv, PTL

(* SaveDomainVerifyStatus announces every kept link that it makes openable *)
(* and the abilities match, if the event can be published.                 *)
THEOREM SpecLinkIsAnnounced == Spec => []LinkIsAnnounced
<1>1. IInv => LinkIsAnnounced
  BY DEF IInv
<1> QED
  BY <1>1, SpecIInv, PTL
-----------------------------------------------------------------------------
(***************************************************************************)
(* OpenIsKept.  A task that shares its bundle with no other since it was   *)
(* started has in its copy every result that opens a host, as it is in the *)
(* entry now: it does not verify those, and saves them as they are.        *)
(***************************************************************************)
Alone ==
    \A t, u \in Task :
        /\ t # u
        /\ task[t].phase # "free"
        /\ task[u].phase # "free"
        /\ task[t].bundle = task[u].bundle
        => task[t].overlap

CopyHolds(t) ==
    \A h \in Host : Opens(task[t].bundle, h) =>
        task[t].map[h] = verifyMap[task[t].bundle].hosts[h]

CopiesHold == \A t \in Task : task[t].phase # "free" /\ ~task[t].overlap => CopyHolds(t)

(* The task in place u goes on, or its place is free. *)
Remains(u) ==
    task'[u].phase # "free" =>
        /\ task[u].phase # "free"
        /\ task'[u].bundle = task[u].bundle
        /\ task'[u].map = task[u].map
        /\ task[u].overlap => task'[u].overlap

LEMMA RemainsAlone == ASSUME Alone, \A u \in Task : Remains(u) PROVE Alone'
BY DEF Alone, Remains

(* A task that starts, in place t. *)
LEMMA StartsAlone ==
    ASSUME Alone, NEW t \in Task, NEW b \in Bundle, task'[t].bundle = b,
           Of(b) # {} => task'[t].overlap,
           \A u \in Task \ {t} : Remains(u) /\ (u \in Of(b) => task'[u].overlap)
    PROVE  Alone'
<1>1. ASSUME NEW v \in Task, NEW u \in Task, v # u, task'[v].phase # "free",
             task'[u].phase # "free", task'[v].bundle = task'[u].bundle
      PROVE  task'[v].overlap
  <2>1. CASE v = t
    <3>1. u \in Of(b)
      BY <1>1, <2>1 DEF Remains, Of
    <3> QED
      BY <2>1, <3>1
  <2>2. CASE u = t
    <3>1. v \in Of(b)
      BY <1>1, <2>2 DEF Remains, Of
    <3> QED
      BY <1>1, <2>2, <3>1
  <2>3. CASE v # t /\ u # t
    <3>1. Remains(v) /\ Remains(u)
      BY <2>3
    <3> QED
      BY <1>1, <3>1 DEF Alone, Remains
  <2> QED
    BY <2>1, <2>2, <2>3
<1> QED
  BY <1>1 DEF Alone

(* The overlap of a new task, of those it starts beside, and of those that *)
(* are outdated.                                                           *)
LEMMA PlacedOverlap ==
    ASSUME NEW tasks \in [Task -> TaskType], NEW t \in Task, NEW phase, NEW b \in Bundle,
           NEW a, NEW pre, NEW map
    PROVE  LET new == NewTask(tasks, t, phase, b, a, pre, map) IN
           /\ new[t].bundle = b /\ new[t].map = map /\ new[t].overlap = (Of(b) # {})
           /\ \A u \in Task \ {t} :
                /\ new[u].phase = tasks[u].phase /\ new[u].bundle = tasks[u].bundle
                /\ new[u].map = tasks[u].map
                /\ u \in Of(b) => new[u].overlap
                /\ tasks[u].overlap => new[u].overlap
BY DEF NewTask, TaskType

LEMMA OutdatedOverlap ==
    ASSUME task \in [Task -> TaskType], NEW b \in Bundle
    PROVE  /\ Outdated(b) \in [Task -> TaskType]
           /\ \A u \in Task :
                /\ Outdated(b)[u].phase = task[u].phase
                /\ Outdated(b)[u].bundle = task[u].bundle
                /\ Outdated(b)[u].map = task[u].map
                /\ task[u].overlap => Outdated(b)[u].overlap
BY DEF Outdated, TaskType

LEMMA OpenStatuses ==
    ASSUME NEW s
    PROVE  /\ \A h \in Host : CollectDomains(s)[h].status \notin {"STATE_SUCCESS", "PRE_INSTALLED"}
           /\ \A h \in Host : NoEntry.hosts[h].status \notin {"STATE_SUCCESS", "PRE_INSTALLED"}
<1>1. UNKNOWN.status = "UNKNOWN" /\ NoHost.status = "none"
  BY DEF UNKNOWN, NoHost, Other
<1> QED
  BY <1>1 DEF CollectDomains, NoEntry

OpenInv == Alone /\ CopiesHold

LEMMA InitOpenInv == Init => OpenInv
<1>1. Free.phase = "free"
  BY DEF Free
<1> QED
  BY <1>1 DEF Init, OpenInv, Alone, CopiesHold

(* No result changes, and no task starts. *)
LEMMA RemainsOpenInv ==
    ASSUME OpenInv, verifyMap' = verifyMap, \A u \in Task : Remains(u)
    PROVE  OpenInv'
<1>1. Alone'
  BY RemainsAlone DEF OpenInv
<1>2. ASSUME NEW u \in Task, task'[u].phase # "free", ~task'[u].overlap
      PROVE  CopyHolds(u)'
  <2>1. /\ task[u].phase # "free" /\ ~task[u].overlap
        /\ task'[u].bundle = task[u].bundle /\ task'[u].map = task[u].map
    BY <1>2 DEF Remains
  <2>2. CopyHolds(u)
    BY <2>1 DEF OpenInv, CopiesHold
  <2> QED
    BY <2>1, <2>2 DEF CopyHolds, Opens
<1> QED
  BY <1>1, <1>2 DEF OpenInv, CopiesHold

(* New results of b open nothing. *)
LEMMA ClosedOpenInv ==
    ASSUME OpenInv, Alone', NEW b \in Bundle,
           \A h \in Host : ~Opens(b, h)',
           \A u \in Task : task'[u].phase # "free" /\ task'[u].bundle # b => Remains(u),
           \A c \in Bundle : c # b => verifyMap'[c] = verifyMap[c],
           RunningHasApp'
    PROVE  OpenInv'
<1>1. ASSUME NEW u \in Task, task'[u].phase # "free", ~task'[u].overlap
      PROVE  CopyHolds(u)'
  <2>1. CASE task'[u].bundle = b
    BY <2>1 DEF CopyHolds
  <2>2. CASE task'[u].bundle # b
    <3>1. /\ task[u].phase # "free" /\ ~task[u].overlap
          /\ task'[u].bundle = task[u].bundle /\ task'[u].map = task[u].map
      BY <1>1, <2>2 DEF Remains
    <3>2. CopyHolds(u)
      BY <3>1 DEF OpenInv, CopiesHold
    <3>3. verifyMap'[task[u].bundle] = verifyMap[task[u].bundle]
      BY <1>1, <2>2, <3>1 DEF RunningHasApp
    <3> QED
      BY <3>1, <3>2, <3>3 DEF CopyHolds, Opens
  <2> QED
    BY <2>1, <2>2
<1> QED
  BY <1>1 DEF OpenInv, CopiesHold

LEMMA VerifyDomainOpenInv ==
    ASSUME IInv, OpenInv, NEW b \in Bundle, NEW a \in App, NEW s \in Skills, VerifyDomain(b, a, s)
    PROVE  OpenInv' /\ verifyMap'[b].hosts = CollectDomains(s)
                    /\ \A c \in Bundle : c # b => verifyMap'[c] = verifyMap[c]
<1>1. task \in [Task -> TaskType]
  BY DEF IInv, TypeOK, TaskType
<1>2. /\ verifyMap'[b].hosts = CollectDomains(s)
      /\ \A c \in Bundle : c # b => verifyMap'[c] = verifyMap[c]
  BY DEF VerifyDomain, IInv, TypeOK
<1>3. \A h \in Host : ~Opens(b, h)'
  BY <1>2, OpenStatuses DEF Opens
<1>4. \/ task' = Outdated(b)
      \/ \E t \in Task, pre \in BOOLEAN :
            task' = NewTask(Outdated(b), t, "running", b, a, pre, CollectDomains(s))
  BY DEF VerifyDomain
<1>5. CASE task' = Outdated(b)
  <2>1. \A u \in Task : Remains(u)
    BY <1>1, <1>5, OutdatedOverlap DEF Remains
  <2>2. Alone'
    BY <2>1, RemainsAlone DEF OpenInv
  <2> QED
    BY <1>2, <1>3, <2>1, <2>2, ClosedOpenInv, VerifyDomainIInv DEF IInv
<1>6. ASSUME NEW t \in Task, NEW pre \in BOOLEAN,
             task' = NewTask(Outdated(b), t, "running", b, a, pre, CollectDomains(s))
      PROVE  OpenInv'
  <2>1. Outdated(b) \in [Task -> TaskType]
    BY <1>1, OutdatedOverlap
  <2>2. task'[t].bundle = b /\ task'[t].overlap = (Of(b) # {})
    BY <1>6, <2>1, PlacedOverlap
  <2>3. \A u \in Task \ {t} : Remains(u) /\ (u \in Of(b) => task'[u].overlap)
    BY <1>1, <1>6, <2>1, PlacedOverlap, OutdatedOverlap DEF Remains
  <2>4. Alone'
    BY <2>2, <2>3, StartsAlone DEF OpenInv
  <2>5. \A u \in Task : task'[u].phase # "free" /\ task'[u].bundle # b => Remains(u)
    BY <2>2, <2>3
  <2> QED
    BY <1>2, <1>3, <2>4, <2>5, ClosedOpenInv, VerifyDomainIInv DEF IInv
<1> QED
  BY <1>2, <1>4, <1>5, <1>6

LEMMA ClearOpenInv ==
    ASSUME IInv, OpenInv, NEW b \in Bundle, ClearDomainVerifyStatus(b)
    PROVE  OpenInv' /\ verifyMap'[b] = NoEntry
                    /\ \A c \in Bundle : c # b => verifyMap'[c] = verifyMap[c]
<1>1. task \in [Task -> TaskType]
  BY DEF IInv, TypeOK, TaskType
<1>2. /\ verifyMap'[b] = NoEntry
      /\ \A c \in Bundle : c # b => verifyMap'[c] = verifyMap[c]
  BY DEF ClearDomainVerifyStatus, IInv, TypeOK
<1>3. \A h \in Host : ~Opens(b, h)'
  BY <1>2, OpenStatuses DEF Opens
<1>4. \A u \in Task : Remains(u)
  BY <1>1, OutdatedOverlap DEF Remains, ClearDomainVerifyStatus
<1>5. Alone'
  BY <1>4, RemainsAlone DEF OpenInv
<1> QED
  BY <1>2, <1>3, <1>4, <1>5, ClosedOpenInv, ClearIInv DEF IInv

(* The copy that a refresh takes is what is there. *)
LEMMA QueryAllOpenInv ==
    ASSUME IInv, OpenInv, NEW t \in Task, NEW b \in Bundle, QueryAllDomainVerifyStatus(t, b)
    PROVE  OpenInv' /\ verifyMap' = verifyMap
<1>1. task \in [Task -> TaskType]
  BY DEF IInv, TypeOK, TaskType
<1>2. /\ task' = NewTask(task, t, "copy", b, None, FALSE, verifyMap[b].hosts)
      /\ verifyMap' = verifyMap
  BY DEF QueryAllDomainVerifyStatus
<1>3. PICK a, pre, map :
        task' = NewTask(task, t, "copy", b, a, pre, map) /\ map = verifyMap[b].hosts
  BY Zenon, <1>2
<1>4. task'[t].bundle = b /\ task'[t].map = verifyMap[b].hosts /\ task'[t].overlap = (Of(b) # {})
  BY <1>1, <1>3, PlacedOverlap
<1>5. \A u \in Task \ {t} : Remains(u) /\ (u \in Of(b) => task'[u].overlap)
  BY <1>1, <1>3, PlacedOverlap DEF Remains
<1>6. Alone'
  BY <1>4, <1>5, StartsAlone DEF OpenInv
<1>7. ASSUME NEW u \in Task, task'[u].phase # "free", ~task'[u].overlap
      PROVE  CopyHolds(u)'
  <2>1. CASE u = t
    BY <1>2, <1>4, <2>1 DEF CopyHolds, Opens
  <2>2. CASE u # t
    <3>1. /\ task[u].phase # "free" /\ ~task[u].overlap
          /\ task'[u].bundle = task[u].bundle /\ task'[u].map = task[u].map
      BY <1>5, <1>7, <2>2 DEF Remains
    <3>2. CopyHolds(u)
      BY <3>1 DEF OpenInv, CopiesHold
    <3> QED
      BY <1>2, <3>1, <3>2 DEF CopyHolds, Opens
  <2> QED
    BY <2>1, <2>2
<1> QED
  BY <1>2, <1>6, <1>7 DEF OpenInv, CopiesHold

LEMMA CompleteOpenInv ==
    ASSUME IInv, OpenInv, NEW t \in Task, CompleteVerifyRefresh(t)
    PROVE  OpenInv' /\ verifyMap' = verifyMap
<1>1. task \in [Task -> TaskType] /\ Free.phase = "free"
  BY DEF IInv, TypeOK, TaskType, Free
<1>2. verifyMap' = verifyMap /\ task[t].phase = "copy"
  BY DEF CompleteVerifyRefresh
<1>3. \/ task' = [task EXCEPT ![t] = Free]
      \/ \E a : task' = [task EXCEPT ![t] = [@ EXCEPT !.phase = "running", !.app = a]]
  BY DEF CompleteVerifyRefresh
<1>4. \A u \in Task : Remains(u)
  <2>1. CASE task' = [task EXCEPT ![t] = Free]
    BY <1>1, <2>1 DEF Remains
  <2>2. ASSUME NEW a, task' = [task EXCEPT ![t] = [@ EXCEPT !.phase = "running", !.app = a]]
        PROVE  \A u \in Task : Remains(u)
    BY <1>1, <1>2, <2>2 DEF Remains, TaskType
  <2> QED
    BY <1>3, <2>1, <2>2
<1> QED
  BY <1>2, <1>4, RemainsOpenInv

LEMMA LostOpenInv ==
    ASSUME IInv, OpenInv, NEW t \in Task, Lost(t)
    PROVE  OpenInv' /\ verifyMap' = verifyMap
<1>1. task \in [Task -> TaskType] /\ Free.phase = "free"
  BY DEF IInv, TypeOK, TaskType, Free
<1>2. \A u \in Task : Remains(u)
  BY <1>1 DEF Lost, Remains
<1> QED
  BY <1>2, RemainsOpenInv DEF Lost

(* A task saves what it copied of a success as it is. *)
LEMMA ResultKeepsSuccess ==
    ASSUME NEW t \in Task, NEW result \in Results(t), NEW h \in Host,
           task[t].map[h].status = "STATE_SUCCESS"
    PROVE  result[h] = task[t].map[h]
<1>1. PICK todo \in {MustRetry(task[t].map) \cup more : more \in SUBSET MayRetry(task[t].map)} :
          \E v \in [todo -> Verdicts(t)] :
              result = [g \in Host |-> IF g \in todo THEN v[g] ELSE task[t].map[g]]
  BY DEF Results
<1>2. h \notin MustRetry(task[t].map) /\ h \notin MayRetry(task[t].map)
  BY Statuses DEF MustRetry, MayRetry
<1>3. h \notin todo
  BY <1>1, <1>2
<1> QED
  BY <1>1, <1>3

LEMMA SaveOpenInv ==
    ASSUME IInv, OpenInv, NEW t \in Task, NEW result \in Results(t), SaveDomainVerifyStatus(t, result)
    PROVE  /\ OpenInv'
           /\ task'[t] = Free /\ task[t].bundle \in Bundle
           /\ \A c \in Bundle : c # task[t].bundle => verifyMap'[c] = verifyMap[c]
           /\ ~task[t].overlap =>
                \A h \in Host :
                    verifyMap[task[t].bundle].hosts[h].status = "STATE_SUCCESS" =>
                        verifyMap'[task[t].bundle].hosts[h].status = "STATE_SUCCESS"
<1> DEFINE b == task[t].bundle
<1>1. /\ task[t].phase = "running"
      /\ verifyMap' = [verifyMap EXCEPT ![b] =
            IF HasEntry(b) THEN UpdateVerifyMap(@, result) ELSE @]
      /\ task' = [task EXCEPT ![t] = Free]
  BY DEF SaveDomainVerifyStatus, UpdateVerifyStatus
<1>2. b \in Bundle /\ task[t].app \in App
  BY <1>1 DEF IInv, RunningHasApp
<1>3. /\ task \in [Task -> TaskType] /\ Free.phase = "free" /\ verifyMap \in [Bundle -> EntryType]
  BY DEF IInv, TypeOK, TaskType, Free, EntryType
<1>4. task'[t] = Free /\ \A u \in Task \ {t} : task'[u] = task[u]
  BY <1>1, <1>3
<1>5. result \in HostMap
  BY <1>2, ResultIsFound DEF IInv
<1>6. /\ \A c \in Bundle : c # b => verifyMap'[c] = verifyMap[c]
      /\ \A h \in Host : verifyMap'[b].hosts[h] \in {verifyMap[b].hosts[h], result[h]}
  <2>1. CASE HasEntry(b)
    <3>1. verifyMap' = [verifyMap EXCEPT ![b] = UpdateVerifyMap(verifyMap[b], result)]
      BY <1>1, <2>1
    <3> QED
      BY <1>2, <1>3, <1>5, <3>1, Merged
  <2>2. CASE ~HasEntry(b)
    <3>1. verifyMap' = verifyMap
      BY <1>1, <1>3, <2>2
    <3> QED
      BY <3>1
  <2> QED
    BY <2>1, <2>2
<1>7. \A u \in Task : Remains(u)
  BY <1>3, <1>4 DEF Remains
<1>8. Alone'
  BY <1>7, RemainsAlone DEF OpenInv
<1>9. ASSUME NEW u \in Task, task'[u].phase # "free", ~task'[u].overlap
      PROVE  CopyHolds(u)'
  <2>1. u # t /\ task'[u] = task[u]
    BY <1>3, <1>4, <1>9
  <2>2. CopyHolds(u) /\ task[u].bundle \in Bundle
    BY <1>9, <2>1 DEF OpenInv, CopiesHold, IInv, RunningHasApp
  <2>3. task[u].bundle # b
    BY <1>1, <1>9, <2>1 DEF OpenInv, Alone
  <2>4. verifyMap'[task[u].bundle] = verifyMap[task[u].bundle]
    <3> HIDE DEF b
    <3> QED
      BY <1>6, <2>2, <2>3
  <2> QED
    BY <2>1, <2>2, <2>4 DEF CopyHolds, Opens
<1>10. ASSUME ~task[t].overlap, NEW h \in Host, verifyMap[b].hosts[h].status = "STATE_SUCCESS"
       PROVE  verifyMap'[b].hosts[h].status = "STATE_SUCCESS"
  <2>1. task[t].map[h] = verifyMap[b].hosts[h]
    BY <1>1, <1>10 DEF OpenInv, CopiesHold, CopyHolds, Opens
  <2>2. result[h] = task[t].map[h]
    BY <1>10, <2>1, ResultKeepsSuccess
  <2> QED
    BY <1>6, <1>10, <2>1, <2>2
<1> QED
  BY <1>2, <1>4, <1>6, <1>8, <1>9, <1>10 DEF OpenInv, CopiesHold

(* What a step may do to a host that opens. *)
MayClose(b, h) ==
    \/ verifyMap'[b] = NoEntry
    \/ \E s \in Skills : verifyMap'[b].hosts = CollectDomains(s)
    \/ \E t \in Of(b) : /\ task'[t] = Free
                        /\ \/ task[t].overlap
                           \/ verifyMap[b].hosts[h].status = "PRE_INSTALLED"

OpensStay == \A b \in Bundle, h \in Host : Opens(b, h) /\ ~Opens(b, h)' => MayClose(b, h)

LEMMA SaveOpensStay ==
    ASSUME IInv, OpenInv, NEW t \in Task, NEW result \in Results(t), SaveDomainVerifyStatus(t, result)
    PROVE  OpensStay
<1>1. SUFFICES ASSUME NEW b \in Bundle, NEW h \in Host, Opens(b, h), ~Opens(b, h)'
               PROVE  \E u \in Of(b) : /\ task'[u] = Free
                                       /\ \/ task[u].overlap
                                          \/ verifyMap[b].hosts[h].status = "PRE_INSTALLED"
  BY DEF OpensStay, MayClose
<1>2. verifyMap[b].hosts[h].status = "STATE_SUCCESS" \/ verifyMap[b].hosts[h].status = "PRE_INSTALLED"
  BY <1>1 DEF Opens
<1>3. task[t].bundle = b
  BY <1>1, SaveOpenInv DEF Opens
<1>4. t \in Of(b) /\ task'[t] = Free
  BY <1>3, SaveOpenInv DEF Of
<1>5. task[t].overlap \/ verifyMap[b].hosts[h].status = "PRE_INSTALLED"
  BY <1>1, <1>2, <1>3, SaveOpenInv DEF Opens
<1> QED
  BY <1>4, <1>5

LEMMA NextOpenInv == ASSUME IInv, OpenInv, [Next]_vars PROVE OpenInv' /\ OpensStay
<1>1. ASSUME NEW b \in Bundle, NEW a \in App, NEW s \in Skills, VerifyDomain(b, a, s)
      PROVE  OpenInv' /\ OpensStay
  BY <1>1, VerifyDomainOpenInv DEF OpensStay, MayClose, Opens
<1>2. ASSUME NEW b \in Bundle, ClearDomainVerifyStatus(b)
      PROVE  OpenInv' /\ OpensStay
  BY <1>2, ClearOpenInv DEF OpensStay, MayClose, Opens
<1>3. ASSUME NEW t \in Task, \/ \E b \in Bundle : QueryAllDomainVerifyStatus(t, b)
                             \/ CompleteVerifyRefresh(t)
                             \/ Lost(t)
      PROVE  OpenInv' /\ OpensStay
  BY <1>3, QueryAllOpenInv, CompleteOpenInv, LostOpenInv DEF OpensStay, Opens
<1>4. ASSUME NEW t \in Task, NEW result \in Results(t), SaveDomainVerifyStatus(t, result)
      PROVE  OpenInv' /\ OpensStay
  BY <1>4, SaveOpenInv, SaveOpensStay
<1>5. CASE UNCHANGED <<verifyMap, task>>
  <2>1. \A u \in Task : Remains(u)
    BY <1>5 DEF Remains
  <2> QED
    BY <1>5, <2>1, RemainsOpenInv DEF OpensStay, Opens
<1> QED
  BY <1>1, <1>2, <1>3, <1>4, <1>5
     DEF Next, FilterAbilities, PutOrRemoveLink, PopDeferredLink, vars

(* FilterAbilities goes on finding a host's bundle while its version is    *)
(* installed: SaveDomainVerifyStatus of a task that overlapped no other    *)
(* merges what leaves every success as it is.                              *)
THEOREM SpecOpenIsKept == Spec => OpenIsKept
<1>1. Init => IInv /\ OpenInv
  BY InitIInv, InitOpenInv
<1>2. IInv /\ OpenInv /\ [Next]_vars => (IInv /\ OpenInv)'
  BY NextIInv, NextOpenInv
<1>3. IInv /\ OpenInv /\ [Next]_vars => [OpensStay]_vars
  BY NextOpenInv
<1>4. OpensStay <=>
        \A b \in Bundle, h \in Host :
            /\ Opens(b, h)
            /\ ~Opens(b, h)'
            => \/ verifyMap'[b] = NoEntry
               \/ \E s \in Skills : verifyMap'[b].hosts = CollectDomains(s)
               \/ \E t \in Of(b) : /\ task'[t] = Free
                                   /\ \/ task[t].overlap
                                      \/ verifyMap[b].hosts[h].status = "PRE_INSTALLED"
  BY DEF OpensStay, MayClose
<1> QED
  BY <1>1, <1>2, <1>3, <1>4, PTL DEF Spec, OpenIsKept
==============================================================================
