----------------------------- MODULE DomainVerify -----------------------------
(***************************************************************************)
(* DomainVerify: the handlers of AppDomainVerifyMgrService, composed with  *)
(* the agent's tasks, the verify results and the deferred links.  The      *)
(* bundle manager installs, updates and removes bundles; a boot refresh    *)
(* starts tasks from a copy of the results; a task saves its whole result  *)
(* when it is done, however late.  Several tasks of one bundle may be      *)
(* under way.  What one task does inside is VerifyTask, what a save does   *)
(* to the store VerifyDataMgr, the cache of links DeferredLinkMgr.         *)
(***************************************************************************)
EXTENDS Integers

CONSTANTS
    Bundle, Host, App,
    PreInstalled,   \* bundles of the system image
    SkillUri,       \* skills: scheme and host, the host maybe behind "*."
    Skills,         \* the sets of skills a version of a bundle may declare
    Priority,       \* the priorities of results: unset, or as a file gives it
    LinkHost,       \* bound: hosts of the links that are opened
    Task,           \* bound: places for tasks under way
    None

PRIORITY_UNSET == -1000

ASSUME DomainVerifyAssumption ==
    /\ PreInstalled \subseteq Bundle
    /\ SkillUri \subseteq [scheme : {"https", "http"}, host : Host, fuzzy : BOOLEAN]
    /\ Skills \subseteq SUBSET SkillUri
    /\ Priority \subseteq Int
    /\ LinkHost \subseteq Host
    /\ None \notin App

VARIABLES
    installed,  \* the bundle manager: the app a bundle is of
    verifyMap,  \* the results in the data manager
    task,       \* tasks of the agent, and copies a refresh has yet to start
    links,      \* hosts of the deferred links
    filter,     \* FilterAbilities between its look at the results and the links
    announced,  \* history: links an event was sent for
    late,       \* history: links put when a bundle could already open them
    missed,     \* history: of each bundle links that a save could not announce
    mixed       \* history: bundles a task of an older version has saved to

vars == <<installed, verifyMap, task, links, filter, announced, late, missed, mixed>>
-----------------------------------------------------------------------------
(* VerifyStatus; by is history, the app a success was found for. *)
Success(a, p) == [status |-> "STATE_SUCCESS", priority |-> p, by |-> a]
Other(s) == [status |-> s, priority |-> PRIORITY_UNSET, by |-> None]

UNKNOWN == Other("UNKNOWN")
FAILURE == Other("FAILURE")  \* any of the failures
(* Its priority is what the task's last file gave, of whichever host. *)
PRE_INSTALLED(p) == [status |-> "PRE_INSTALLED", priority |-> p, by |-> None]

VerifyStatus ==
    {Success(a, p) : a \in App, p \in Priority}
        \cup {PRE_INSTALLED(p) : p \in Priority} \cup {UNKNOWN, FAILURE}

NoHost == Other("none")  \* the host is not a key of the map

HostMap == [Host -> VerifyStatus \cup {NoHost}]

Hosts(map) == {h \in Host : map[h] # NoHost}

HasEntry(b) == verifyMap[b].app # None

NoEntry == [app |-> None, hosts |-> [h \in Host |-> NoHost]]

(* https only; "*." is cut off, and a host appears once. *)
CollectDomains(skillUris) ==
    [h \in Host |-> IF \E u \in skillUris : u.scheme = "https" /\ u.host = h
                      THEN UNKNOWN ELSE NoHost]

Free == [phase |-> "free", bundle |-> None, app |-> None, pre |-> FALSE,
         map |-> NoEntry.hosts, stale |-> FALSE, overlap |-> FALSE]

Of(b) == {t \in Task : task[t].bundle = b}

(* A task in place t, if there is one; history: it overlaps those of b.    *)
NewTask(tasks, t, phase, b, app, pre, map) ==
    [u \in Task |->
        IF u = t THEN [phase |-> phase, bundle |-> b, app |-> app, pre |-> pre,
                       map |-> map, stale |-> FALSE, overlap |-> Of(b) # {}]
        ELSE IF u \in Of(b) THEN [tasks[u] EXCEPT !.overlap = TRUE]
        ELSE tasks[u]]

(* History: the tasks of b are of an older version. *)
Outdated(b) ==
    [u \in Task |-> IF u \in Of(b) THEN [task[u] EXCEPT !.stale = TRUE] ELSE task[u]]

Init ==
    /\ installed = [b \in Bundle |-> None]
    /\ verifyMap = [b \in Bundle |-> NoEntry]
    /\ task = [t \in Task |-> Free]
    /\ links = {}
    /\ filter = None
    /\ announced = {}
    /\ late = {}
    /\ missed = [b \in Bundle |-> {}]
    /\ mixed = {}
-----------------------------------------------------------------------------
(* A new bundle, or a new version of an installed one.  IsPreInstalledApp  *)
(* says no when it cannot ask; the call to the agent may be lost.          *)
VerifyDomain(b, a, skillUris) ==
    /\ installed[b] \in {a, None}
    /\ installed' = [installed EXCEPT ![b] = a]
    /\ verifyMap' = [verifyMap EXCEPT ![b] = [app |-> a, hosts |-> CollectDomains(skillUris)]]
    /\ mixed' = mixed \ {b}
    /\ missed' = [missed EXCEPT ![b] = {}]
    /\ \/ task' = Outdated(b)
       \/ \E t \in Task, pre \in BOOLEAN :
            /\ pre => b \in PreInstalled
            /\ task[t] = Free
            /\ task' = NewTask(Outdated(b), t, "running", b, a, pre, CollectDomains(skillUris))
    /\ UNCHANGED <<links, filter, announced, late>>

\* mutant: the results stay
ClearDomainVerifyStatusKeeps(b) ==
    /\ installed[b] # None
    /\ installed' = [installed EXCEPT ![b] = None]
    /\ task' = Outdated(b)
    /\ mixed' = mixed \ {b}
    /\ missed' = [missed EXCEPT ![b] = {}]
    /\ UNCHANGED <<verifyMap, links, filter, announced, late>>

(* appIdentifier is not looked at. *)
ClearDomainVerifyStatus(b) ==
    /\ installed[b] # None
    /\ installed' = [installed EXCEPT ![b] = None]
    /\ verifyMap' = [verifyMap EXCEPT ![b] = NoEntry]
    /\ task' = Outdated(b)
    /\ mixed' = mixed \ {b}
    /\ missed' = [missed EXCEPT ![b] = {}]
    /\ UNCHANGED <<links, filter, announced, late>>

(* The agent's refresh: first the copy ... *)
QueryAllDomainVerifyStatus(t, b) ==
    /\ task[t] = Free
    /\ HasEntry(b)
    /\ task' = NewTask(task, t, "copy", b, None, FALSE, verifyMap[b].hosts)
    /\ UNCHANGED <<installed, verifyMap, links, filter, announced, late, missed, mixed>>

(* ... then, bundle by bundle, the app of the day; isPreinstalled is not   *)
(* set.  A bundle that GetBundleInfo does not know is passed over.         *)
CompleteVerifyRefresh(t) ==
    /\ task[t].phase = "copy"
    /\ task' = [task EXCEPT ![t] =
        IF installed[task[t].bundle] = None THEN Free
        ELSE [@ EXCEPT !.phase = "running", !.app = installed[task[t].bundle]]]
    /\ UNCHANGED <<installed, verifyMap, links, filter, announced, late, missed, mixed>>

(* The task dies with its process, or cannot reach the manager. *)
Lost(t) ==
    /\ task[t] # Free
    /\ task' = [task EXCEPT ![t] = Free]
    /\ UNCHANGED <<installed, verifyMap, links, filter, announced, late, missed, mixed>>

\* mutant: verified hosts too
MustRetryAll(map) == {h \in Hosts(map) : map[h] # FAILURE}

(* The hosts a task verifies; of the failures some have to wait. *)
MustRetry(map) == {h \in Hosts(map) : map[h] # FAILURE /\ map[h].status # "STATE_SUCCESS"}
MayRetry(map) == {h \in Hosts(map) : map[h] = FAILURE}

Verdicts(t) ==
    {Success(task[t].app, p) : p \in Priority}
        \cup {FAILURE} \cup (IF task[t].pre THEN {PRE_INSTALLED(p) : p \in Priority} ELSE {})

Results(t) ==
    UNION {{[h \in Host |-> IF h \in todo THEN v[h] ELSE task[t].map[h]] :
                v \in [todo -> Verdicts(t)]} :
           todo \in {MustRetry(task[t].map) \cup more : more \in SUBSET MayRetry(task[t].map)} \ {{}}}

(* Only hosts the entry has; the app of the result is not compared. *)
UpdateVerifyMap(entry, result) ==
    [entry EXCEPT !.hosts = [h \in Host |->
        IF entry.hosts[h] # NoHost /\ result[h] # NoHost
          THEN result[h] ELSE entry.hosts[h]]]

UpdateVerifyStatus(b, result) ==
    verifyMap' = [verifyMap EXCEPT ![b] =
        IF HasEntry(b) THEN UpdateVerifyMap(@, result) ELSE @]

Verified(map) == {h \in Host : map[h].status = "STATE_SUCCESS"}

(* An event is sent if of the links kept for the hosts the result verifies *)
(* one is matched by an ability of the bundle, which may have none, or     *)
(* none that can be asked for.  That it could not be published is logged.  *)
SendVerifiedEvent(b, result) ==
    LET kept == links \cap Verified(result) IN
    \E matched \in SUBSET kept, published \in BOOLEAN :
        /\ announced' = IF published THEN announced \cup matched ELSE announced
        /\ missed' = [missed EXCEPT ![b] = @ \cup (kept \ announced')]

\* mutant: the event is sent for the hosts the entry already had verified
SaveDomainVerifyStatusSendsFirst(t, result) ==
    LET b == task[t].bundle IN
    /\ task[t].phase = "running"
    /\ result \in Results(t)
    /\ UpdateVerifyStatus(b, result)
    /\ mixed' = IF task[t].stale THEN mixed \cup {b} ELSE mixed
    /\ SendVerifiedEvent(b, verifyMap[b].hosts)
    /\ task' = [task EXCEPT ![t] = Free]
    /\ UNCHANGED <<installed, links, filter, late>>

SaveDomainVerifyStatus(t, result) ==
    LET b == task[t].bundle IN
    /\ task[t].phase = "running"
    /\ result \in Results(t)
    /\ UpdateVerifyStatus(b, result)
    /\ mixed' = IF task[t].stale THEN mixed \cup {b} ELSE mixed
    /\ SendVerifiedEvent(b, result)
    /\ task' = [task EXCEPT ![t] = Free]
    /\ UNCHANGED <<installed, links, filter, late>>
-----------------------------------------------------------------------------
Opens(b, h) == verifyMap[b].hosts[h].status \in {"STATE_SUCCESS", "PRE_INSTALLED"}

(* Of the bundles that may open the host those of the highest priority;    *)
(* the search starts from PRIORITY_UNSET.                                  *)
FilterAbilitiesInner(h, origin) ==
    {b \in origin :
        /\ Opens(b, h)
        /\ verifyMap[b].hosts[h].priority >= PRIORITY_UNSET
        /\ \A c \in origin : Opens(c, h) =>
            verifyMap[c].hosts[h].priority <= verifyMap[b].hosts[h].priority}

FilterAbilities(h, origin) ==
    /\ filter = None
    /\ filter' = [host |-> h, found |-> FilterAbilitiesInner(h, origin) # {}]
    /\ UNCHANGED <<installed, verifyMap, task, links, announced, late, missed, mixed>>

(* A link nobody opens is kept, unless its host is in the black list; one  *)
(* that a bundle opens is removed.                                         *)
PutOrRemoveLink(inBlackList) ==
    LET h == filter.host IN
    /\ filter # None
    /\ IF ~filter.found /\ inBlackList THEN UNCHANGED <<links, announced, late, missed>>
       ELSE /\ links' = IF filter.found THEN links \ {h} ELSE links \cup {h}
            /\ announced' = announced \ {h}
            /\ late' = IF ~filter.found /\ \E b \in Bundle : Opens(b, h)
                         THEN late \cup {h} ELSE late \ {h}
            /\ missed' = [b \in Bundle |-> missed[b] \ {h}]
    /\ filter' = None
    /\ UNCHANGED <<installed, verifyMap, task, mixed>>

(* QueryVerifiedBundleWithDomains: nothing for a bundle whose entry is of  *)
(* another app.                                                            *)
VerifiedDomains(b) ==
    IF HasEntry(b) /\ verifyMap[b].app = installed[b]
      THEN Verified(verifyMap[b].hosts) ELSE {}

(* Of the links of these hosts, those an ability of the bundle matches.    *)
PopDeferredLink(b, matched) ==
    /\ matched \subseteq links \cap VerifiedDomains(b)
    /\ links' = links \ matched
    /\ announced' = announced \ matched
    /\ late' = late \ matched
    /\ missed' = [c \in Bundle |-> missed[c] \ matched]
    /\ UNCHANGED <<installed, verifyMap, task, filter, mixed>>

Next ==
    \/ \E b \in Bundle, a \in App, s \in Skills : VerifyDomain(b, a, s)
    \/ \E b \in Bundle :
        \/ ClearDomainVerifyStatus(b)
        \/ \E matched \in SUBSET links : PopDeferredLink(b, matched)
    \/ \E t \in Task :
        \/ \E b \in Bundle : QueryAllDomainVerifyStatus(t, b)
        \/ CompleteVerifyRefresh(t)
        \/ Lost(t)
        \/ \E result \in Results(t) : SaveDomainVerifyStatus(t, result)
    \/ \E h \in LinkHost, origin \in SUBSET Bundle : FilterAbilities(h, origin)
    \/ \E inBlackList \in BOOLEAN : PutOrRemoveLink(inBlackList)

Spec == Init /\ [][Next]_vars
-----------------------------------------------------------------------------
TypeOK ==
    /\ installed \in [Bundle -> App \cup {None}]
    /\ verifyMap \in [Bundle -> [app : App \cup {None}, hosts : HostMap]]
    /\ task \in [Task -> [phase : {"free", "copy", "running"}, bundle : Bundle \cup {None},
                          app : App \cup {None}, pre : BOOLEAN, map : HostMap,
                          stale : BOOLEAN, overlap : BOOLEAN]]
    /\ \A b \in Bundle : ~HasEntry(b) => verifyMap[b] = NoEntry
    /\ links \subseteq LinkHost
    /\ filter \in [host : LinkHost, found : BOOLEAN] \cup {None}
    /\ announced \subseteq links
    /\ late \subseteq links
    /\ missed \in [Bundle -> SUBSET links]
    /\ mixed \subseteq Bundle

(***************************************************************************)
(* A verified host of a bundle was verified for the app the bundle is of,  *)
(* through any reinstallations by other apps and refreshes, unless a task  *)
(* that an older version left behind has saved since: UpdateVerifyStatus   *)
(* merges whatever comes under the bundle's name.                          *)
(***************************************************************************)
SuccessIsOfApp ==
    \A b \in Bundle \ mixed : \A h \in Host :
        verifyMap[b].hosts[h].status = "STATE_SUCCESS" =>
            verifyMap[b].hosts[h].by = installed[b]

(***************************************************************************)
(* While a version is installed, a host that opens its links stops doing   *)
(* so only when a task saves that overlapped another task of the bundle,   *)
(* with an older copy of the results, or when a refresh verifies again a   *)
(* host that was merely preinstalled.                                      *)
(***************************************************************************)
OpenIsKept ==
    [][ \A b \in Bundle, h \in Host :
        /\ Opens(b, h)
        /\ ~Opens(b, h)'
        => \/ verifyMap'[b] = NoEntry
           \/ \E s \in Skills : verifyMap'[b].hosts = CollectDomains(s)
           \/ \E t \in Of(b) : /\ task'[t] = Free
                               /\ \/ task[t].overlap
                                  \/ verifyMap[b].hosts[h].status = "PRE_INSTALLED" ]_vars

(***************************************************************************)
(* A link kept for a host that a version of a bundle has verified was      *)
(* announced by an event when it was, unless the link was put later, by a  *)
(* FilterAbilities that had looked before or had not been offered the      *)
(* bundle, or a save of this version came upon it in vain: no ability of   *)
(* the bundle matched it, or the event could not be published.             *)
(***************************************************************************)
LinkIsAnnounced ==
    \A b \in Bundle :
        links \cap Verified(verifyMap[b].hosts) \subseteq announced \cup late \cup missed[b]
===============================================================================
