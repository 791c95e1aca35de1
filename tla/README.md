# Verification of the OpenHarmony app domain verification component

App Linking lets an application claim a web domain. The domain proves the claim
with an asset file (`.well-known/applinking.json`); this component fetches the
files, judges them, stores the results, and answers the system when a link is to
be opened. This directory holds TLA+ models of its logic, TLC configurations that
check them on small instances, and TLAPS proofs.

Paths below are relative to the repository's `src/`.

## 1. The system

Two system abilities live in two processes. The **manager** (foundation process)
keeps the results and answers queries; the **agent** (a process loaded on demand,
unloaded when idle) fetches and judges. Callers of the manager use its client.

```
 callers --client, proxy--> stub --+
                                   v
 bundle manager --VerifyDomain--> Manager --client, proxy--> Agent (loaded, unloads itself)
                                   |  ^                        | one VerifyTask per bundle
                 VerifyDataMgr <---+  |                        v one http task per host
                 memory + table       |                      TaskMgr (queue, workers) --> http client
                                      +--SaveDomainVerifyStatus-- VerifyTask <-- answers, on several threads
 ability manager --FilterAbilities--> Manager --> DeferredLinkMgr (links without an app)
                                              --> AppDetails (url to bundle, cached), white list (atomic services)
```

### Inventory

| Component (source) | State | Operations | What is hard | What makes it correct |
|---|---|---|---|---|
| Verify data manager and store (`services/src/manager/core/app_domain_verify_data_mgr.cpp`, `manager/rdb/app_domain_verify_rdb_data_manager.cpp`) | `verifyMap_` under `verifyMapMutex_`; a table of rows | insert, update, delete a result; load at start; query associations | several store calls per write and no transaction; each can fail; the process can die; queries bypass the mutex | table, memory, queries and what callers were told agree |
| Store migration (`manager/rdb/rdb_migrate_mgr.cpp`, the open callback) | version and columns of the store | open, upgrade, stamp the version, delayed close | statements before transactions; version written last; death between any two | a store handed out is whole |
| Manager service (`services/src/manager/core/app_domain_verify_mgr_service.cpp`) | none beyond its parts | verify, clear, filter, query, save | late results, overlapping tasks, look and put under two locks | a bundle never shows another app's result; what opened still opens; links are announced, or it is known why not |
| Agent service and its client (`services/src/agent/core/app_domain_verify_agent_service.cpp`, `interfaces/inner_api/client/src/app_domain_verify_agent_client.cpp`) | unload timer, retry count, "sync done" flag; the manager's proxy | single verify, boot refresh, unload; connect, forward, forget | unload against a new request; refused unload; a proxy whose process is gone | what is lost is tried again, only a dead proxy is dropped, the agent does leave |
| Verify task (`frameworks/verifier/src/verify_task.cpp`, `verify_http_task.cpp`) | base info, results, `unVerifiedSet_` | choose hosts, handle answers, save | handlers run concurrently and share all three, only the set is locked | one save with everything in it; back-off observed where tasks do not overlap |
| Domain verifier (`frameworks/verifier/src/domain_verifier.cpp`, `domain_json_util.cpp`) | none | verdict on a response | order of the entries; which fields are set | success only for an entry about this app, no earlier claim by another |
| Http task pool (`frameworks/common/src/httpsession/app_domain_verify_task_mgr.cpp`) | queue, `taskMap_`, `stop_`, workers | add, run, call back, destroy | lost notifications; callback against worker against destructor | each handler once; idle means handled; no worker waits for ever |
| Deferred links (`services/src/manager/deferred_link/deferred_link_mgr.cpp`) | list of links, age task | put, remove, take, age | look and take are two critical sections; timer against callers | bounded, ordered, ages, taken once |
| App details and LRU cache (`services/src/manager/core/app_details_data_mgr.cpp`, `frameworks/app_details_rdb`, `frameworks/common/include/utils/lru_cache_util.h`) | cache over a table another process writes | query, put, expire | a query that stalls between its clock and the mutex, or between its look and its put | the cache is the last used; an answer is recent |
| White list (`frameworks/common/src/config/white_list_config_mgr.cpp`) | dynamic and default list, preferences | load, update, query | empty update, put that fails, restart, patterns with commas | the list in use is the last one given |
| Manager client, IPC proxy and stub (`interfaces/inner_api/client/src/app_domain_verify_mgr_client.cpp`, `services/src/manager/zidl/*.cpp`) | proxy, calling identity | 17 methods | requests dropped without an error, replies lost or too long, a dead manager | success is told only if it happened; the identity is put back |
| Extension manager, permission checks, bundle queries | none | forward | several meanings of "not there" | see section 7 |
| Agent IPC, URL helpers, memory manager notification, JavaScript kits | none | forward | — | not modelled, see section 7 |

The hazards of this code, each with its line and the properties that look after
it, are the list `hazards` of `PROJECT.json`.

## 2. Modules

| Module | What it is |
|---|---|
| `VerifyDataMgr` | The data manager and its table; every store call is a step |
| `RdbMigrate` | Opening a store of any version |
| `DomainVerify` | The manager's handlers over results, tasks and links: what happens between installs, refreshes and saves |
| `AgentService` | The agent's life and the manager's connection to it |
| `DomainVerifier` | The verdict on a response, in closed form; used by `AssetFile` and `VerifyTask` |
| `AssetFile` | The two loops of the verifier, entry by entry |
| `VerifyTask` | The tasks of a bundle, one after another or overlapping, and the concurrent handlers of each; implements `DomainVerify` |
| `HandleOnce` | Abstract pool: each task is handled at most once, at most `PoolSize` at a time, none is taken after stop |
| `TaskMgr` | The pool as coded; implements `HandleOnce` |
| `DeferredLinkMgr` | The cache of links |
| `AppDetails` | The LRU cache over the table of details |
| `MgrServiceProxy`, `MgrServiceStub` | What each method's caller is told of a reply; what the stub refuses, drops and writes |
| `WhiteListConfig` | The white list; its variables are used by `MgrClient` |
| `MgrClient` | A calling process with several threads, composed of the three modules before it |
| `*Proofs` | Theorems of `VerifyDataMgr`, `RdbMigrate`, `DomainVerify`, `AgentService`, `TaskMgr`, `MgrClient`; `VerifyTaskProofs` has those of `VerifyTask` and `AssetFile`, `CachesProofs` those of `DeferredLinkMgr` and `AppDetails` |
| `MC*` | Instances for TLC |

`DomainVerify` takes the data manager, the tasks and the links at the grain of one
handler; `VerifyDataMgr`, `VerifyTask` and `DeferredLinkMgr` look inside each of
them. For `VerifyTask` this is checked and proved: it instantiates `DomainVerify` as
`Manager`. `AssetFile` and `AppDetails` share a proof module with another component, so
their specifications have names of their own (`SpecLoops`, `SpecDetails`, `DetailsTypeOK`).
`AgentService` takes the pool as a set of bundles; `TaskMgr` is its inside.
Definitions marked `\* mutant` are faulty variants used to show that a property
can fail; no specification uses them.

### VerifyDataMgr

`verifyMap` is `verifyMap_`, `table` the rows of the store. A call takes
`verifyMapMutex_` (`op` leaves idle) and changes the memory in that step, as the
code does before any store call. `WipeRows`/`WipeFails` is `DeleteData`, whose
failure is logged only; `FillRow`/`FillFails` one `InsertData`; `FillDone` the
return of true. `EraseRows`/`EraseFails` ends an uninstall. `Crash` can come
between any two of them. The constructor's load succeeds (`Restart`), fails
(`RestartUnloaded`: an empty map is served), or finds a file it cannot access and
removes it (`RestartInaccessible`). Rows have IDs, so that "the first row of a
domain wins" means what it means in the store.

History: `acked`, what the last call that returned true saved; `tainted`, bundles
whose rows outlived a failed `DeleteData`; `behind`, bundles whose table was left
different from the memory by a failed call or a failed load.

### RdbMigrate

`version` is the store's version, the tables are given by the columns and rows
they have; a column is named by the version that introduced it. `pc` is where
`GetRdbStore` is: `At(i)` before statement i of `UpgradeFromV1ToV2`, `Upgrading(v)`
before the function of version v, `Stamp` before the version is written. A
statement of the first upgrade that fails leads to `DROP TABLE`, whose own result
is the result of the upgrade; the later functions run in transactions.

### DomainVerify

`VerifyDomain` is an install or update, `ClearDomainVerifyStatus` an uninstall. A
task is a copy of the results and an app. A boot refresh takes the copy
(`QueryAllDomainVerifyStatus`) and later asks for the app (`CompleteVerifyRefresh`),
so that an install may come between. What a task may save is `Results`: a verdict
for each host without one, for some of the failures, and the copy for the rest.
A preinstalled host comes with any priority, since the handlers of a task share
theirs and its own got no answer. `SaveDomainVerifyStatus` merges the task's
results and sends an event (`SendVerifiedEvent`) if one of the links kept for the
hosts it verified is matched by an ability of the bundle; which are matched is
arbitrary, since the abilities are asked for anew and the query may fail, and the
event may fail to be published. `PopDeferredLink` takes any such set of links.
`FilterAbilities` and `PutOrRemoveLink` are one handler, under two locks.

The update and the event of a save are one step. A link that another handler puts
between the two counts as `late`, whether or not the event then covers it; one that is
taken there is as if taken before.

`stale` and `overlap` of a task and `mixed` are history, and so are the reasons why
a kept link may be unannounced: `late`, links put when a bundle could open them
already, and `missed`, links an earlier save of this version came upon without an
ability that matches or an event that was published.

### AgentService

`OnDelayUnloadSA` is the timer's handler: when `CanUnloadSa` it is `DecideToUnload` and
then `UnloadSa`, with room for requests in between and until samgr ends the process,
whose tasks are lost; or else `Delay` or `Refresh` and the timer again. `client` is
the manager's call that holds `proxyLock_`; `deaths` are notices still to be handled,
each of which drops the proxy it finds (`OnRemoteSaDied`). `extension` says what
`ExecuteVerifyTask` finds: no library (the pool is used), a vendor's, or one that
registers no extension, which drops the request. `untried` is history: bundles nobody has tried since their `VerifyDomain`.

### VerifyTask

`OnPostVerify` of a host is six steps, one for each access to what handlers
share: `Answer` (VerifyHost writes the priority), `CheckUnset`, `CheckMin` and
`CheckMax` (three reads of it, in the order of the condition's evaluation),
`UpdateVerifyResultInfo` (a fourth read, into the result), `Finish` (under the
mutex: erase, save if last). `stored` is the bundle's map in the manager.
`VerifyDomain` starts the task of an install or update, `CompleteVerifyRefresh` that
of a refresh, from the copy that `QueryAllDomainVerifyStatus` took; both do so
whatever else of the bundle is under way, as long as there is a place (`Task`). `Lost`
ends a task or a copy with its process; a death is the loss of all there are, one
after the other. A save or a start may be lost. `stale`, `overlap`, `hosts` of a
task, `seen`, `saves`, `errors` and `mixed` are history.

`TaskIsOneStep` is `DomainVerify`'s specification under a mapping: `TaskToManager`
is the task or the copy as the manager sees it, `EntryInManager` the entry of the
bundle, `Told` forgets of a status all but success, preinstalled, unknown and
failure. The steps of handlers stutter; the last `Finish` is `SaveDomainVerifyStatus`, or
`Lost` if the save fails; a refresh that finds nothing to retry is `Lost`.

### TaskMgr

One worker loop iteration under `mutex_` is `Loop`; a waiting worker moves only
when it is notified. Callbacks run on the http client's threads as three steps, in
the order of the code: the handler, `set_value`, and the releaser that erases the
task from `taskMap_`. `Stop` and `Destroy` are the destructor.

### DeferredLinkMgr, AppDetails

Time stamps of links are kept as ages. The stamp a caller took before the lock is
`age`, and is what the ageing looks at; `kept` is history, the time since the
entry was put. The match of abilities and domains is an arbitrary set of links;
what a removal or the age task leaves is `Kept(s, keep)`, the entries at the
positions `keep`, in their order.

In `AppDetails` a query reads the clock, then takes the mutex and looks into the
cache (which it may empty, with the time it has read), reads the table, puts what it
found and makes the want; threads interleave between any two. The table is written
by the vendor's callback of `ExecWithTrans`, in the agent's process. The callback is
not in the repository, may or may not run in a transaction, and `Commit` and
`RollBack` may fail, so for the manager the table becomes any rows or disappears.
`recency` is history: the urls used since the cache was emptied.

### MgrClient and what it is made of

A thread's call takes `proxyLock_` (`pc` leaves `unlocked`), connects if there is
no proxy, puts its identity aside if the method does, sends, receives, unlocks.
The manager drops a request with too long an array (`ERR_OK`, empty reply), refuses
one it cannot read (an error), or handles it; handlers of the white list are in the
model, the others return any result their permission check allows. The contents of
parcels are numbers of items. A transport error is an error with an empty reply,
and what is read past the end of a parcel is false or 0.

### DomainVerifier, AssetFile

A response is a code and a file; a file is not parsed, or a sequence of entries
whose missing fields are empty strings. `AssetFile` runs the two loops over every
file, so that every prefix is judged, and compares with the closed form.

## 3. Runs

| Run | Instance | States | Shows |
|---|---|---|---|
| `datamgr` | 2 bundles, 2 hosts, 1 app, 2 statuses, 3 rows per bundle | 3.6 M | `OneRowPerHost`, `TableMatchesMemory`, `AckedSurvives`, `AssociationsMatchMemory` |
| `datamgr_true` | 1 bundle of 2 apps in turn | | **violated**: `TrueMeansSaved` |
| `rdbmigrate` | 2 results, 3 faults, every old version | 686 | `OpenIsWhole`, `OpensOrHalfDone` |
| `domainverify` | 1 bundle of 2 apps in turn, 2 hosts, 2 tasks | 358,296 | `SuccessIsOfApp`, `LinkIsAnnounced`, `OpenIsKept` |
| `agent` | 2 bundles, 3 calls, 3 retries | 49,386 | `LiveProxyStays`, `AgentUnloads`, `LostIsRetried`, `StaleProxyIsDropped` |
| `verifytask` | 2 hosts, 4 answers, one place for a task, 3 hours | 792,808 | that a task is one step of `DomainVerify` (`TaskIsOneStep`), `SaveIsWhole`, `EndsBySaving`, `LoneHostInRange`, `BackoffHolds`, `TaskEnds` |
| `verifytask_retry` | 1 host, only client errors, 22 hours | | **violated**: `ForbiddenAfterLimit` |
| `assetfile` | files of up to 3 entries, fields empty, the app's or another's | 1.3 M | `LoopsMatchClosedForm`, `SuccessIsEarned`, `VerdictIsStable` |
| `taskmgr` | 4 tasks, 2 workers | 23,457 | `IdleMeansHandled`, `DestroyedIsQuiet`, `AddedIsHandled`, `StopEnds`, and that `TaskMgr` implements `HandleOnce` |
| `deferredlink` | 3 links, 2 callers, cache of 2 | 272,576 | `CacheIsBounded`, `AgeTaskIsAlive`, `LinksAge`, `NewestFirst`, `TakenOnce` |
| `appdetails` | 3 urls, 2 threads, cache of 2, 5 seconds | 567,242 | `LastUsedStay`, `AnswerIsRecent` |
| `ipc` | 2 threads, every kind of caller, up to 3 items with arrays of 2, 5 lists | 439,856 | `SuccessIsServed`, `ListIsKept`, `IdentityIsRestored` |

A module's `TypeOK` is proved (section 5); `deferredlink` and `appdetails`
(as `DetailsTypeOK`) check it too.

Several properties have exceptions, and each exception is something the code can do:

| Property | But for |
|---|---|
| `OneRowPerHost`, `AckedSurvives` | a bundle of which a `DeleteData` failed |
| `TableMatchesMemory`, `AssociationsMatchMemory` | a bundle being written, or left behind by a failed call or load |
| `SuccessIsOfApp` | a bundle an outdated task has saved to |
| `OpenIsKept` | the save of a task that overlapped another; the refresh of a preinstalled host |
| `LinkIsAnnounced` | links put after the save; links no ability of the bundle matched; an event that was not published |
| `BackoffHolds` | the save of a task that overlapped another |
| `LoneHostInRange` | tasks of more than one host |
| `AnswerIsRecent` | the time a query waits after it has read its clock or the table |
| `OpenIsWhole`, `OpensOrHalfDone` | an upgrade of V1 that was broken off or whose inner version could not be queried; a store left half-done |
| `AgentUnloads`, `LostIsRetried` | a refused unload; for the second also a library without an extension |
| `StaleProxyIsDropped` | a process that was gone before its death could be watched |
| `ListIsKept` | after a restart: an update that was not saved, preferences that do not open, patterns with commas |
| `IdentityIsRestored`, `SuccessIsServed` | `QueryAppDetailsWant`; `QueryAssociatedBundleNames` |

A property with exceptions says that the model, with the steps and failures section 2
describes, has no other way to break it.

### Bounds, and why they are enough

* `MaxRows` bounds the rows of one bundle. 3 rows for 2 hosts mix an old row with
  a complete second write behind it. A full bound only disables `FillRow`;
  `FillFails` stays possible, so nothing blocks. The theorems hold for every bound.
* Two bundles are needed for "one bundle's write does not reach another"; calls on
  the same bundle are serialised by the mutex. A bundle that changes its app is in
  `datamgr_true`, in `domainverify` and, for any number, in the theorems.
* `MaxFaults = 3` in `rdbmigrate`: one fault breaks an upgrade off, a second its
  clean-up, a third the creation of the table.
* `verifytask` has two hosts and one place for a task: what is shared inside a task is
  between its handlers. The tasks follow one another there; with a second place the
  instance is too large for a run. Overlapping tasks share only what the manager has
  stored: `domainverify` checks their saves, and the theorems of `VerifyTask` hold for
  any hosts and any number of tasks that overlap. `MCVerifyTaskOverlap.cfg` is an
  instance with two tasks and one host (349,523 states, `TaskIsOneStep` and
  `BackoffHolds`) to be used beside the runs: `tlc -config MCVerifyTaskOverlap.cfg MCVerifyTask`.
* Two tasks in `domainverify` are one overlap; `LinkHost` is one host, since links
  of different hosts are independent. There is one bundle: bundles share nothing
  but links, and the theorems hold for any number.
* `MaxCalls = 3` in `agent`: a call to load the agent, one while it leaves, one
  with the stale proxy.
* `MaxApps = 3`: the verdict depends on the first deciding entry, and three
  entries hold one passed over, one that decides, and one after it, in each order.
  Unequal values other than the app's own behave alike, so one foreign value is enough.
* `MaxTime = 3` hours in `verifytask`: the retry duration of a client error is 2
  hours, so there is a refresh within it, one at its end and one beyond.
  `verifytask_retry` has 22 hours, seven intervals of three.
* `MaxErrors` caps a history counter: 0 where no property reads it, and the limit
  itself, 7, in `verifytask_retry`.
* Four tasks for two workers keep the queue non-empty while both workers are busy.
* A cache of two with three links, or urls, evicts; the real 50 and 10
  entries, 600 s and 300 s differ only in number. `MaxTime = 5` in `appdetails` empties the cache
  twice with a lifetime of 1.
* `MaxItems = 3` with `MAX_PARCEL_ARRAY_SIZE = 2`: below, at and beyond the bound.
  The lists of `ipc` are empty, hold the empty pattern, a matching one, one with a
  comma, and one that is no regular expression.

Deadlock is checked wherever the system can always go on. It is off for `TaskMgr`
(a destroyed pool has no step), `AssetFile` (the longest file has been read)
and `verifytask_retry` (the clock ends, and every host with it).

### Symmetry and fairness

Symmetry is used in runs whose properties are invariants or action properties
(`datamgr*`, `domainverify`, `deferredlink`, `appdetails`, `ipc`), never with liveness.

* `VerifyTask`: each handler runs. The http client answers each request, if only
  with OnFail or OnCancel, and handlers do not block on one another.
* `TaskMgr`: a runnable ffrt task is scheduled, the http client calls back for a
  started task, `ffrt::wait` returns once the workers are done.
* `AgentService`: tasks, timers and calls run to their end, samgr stops an agent
  that unloaded, tells of deaths, and starts the agent again (the loop event).
  `Refresh(unverified)` is strongly fair: when the timer finds a refresh to do again
  and again, the network, the manager and the bundle manager are there once. Without
  that a device that is offline at every boot never verifies.
* `RdbMigrate`: the store is opened again by the next operation, and its calls return.

Installs, uninstalls, calls, deaths, failures and the clock are nowhere fair:
nothing in the code makes them happen.

## 4. Disagreements found

* **A result reported as saved can be lost** (`datamgr_true`). `VerifyResultInfoToDB`
  logs a failed `DeleteData` and inserts the new rows behind the old ones. The call
  returns true, and the next load keeps the first row of each domain: the old one.
  `AckedSurvives`, with its proviso that no delete of the bundle failed, is what does hold.
* **The retry limit is never reached** (`verifytask_retry`). `UpdateVerifyResultInfo`
  builds a fresh status with count 0 for each result and increments it at most once,
  so `FORBIDDEN_FOREVER` ("7 times for max retry count") cannot occur and the back-off
  does not grow beyond two hours.

## 5. What is proved

Each `*Proofs` module states an inductive invariant `IInv`, proves `Init => IInv` and
`IInv /\ [Next]_vars => IInv'`, and derives `TypeOK` and the properties. The theorems
hold for every value of the constants that meets the module's named assumptions
(`...Assumption`), which say that values standing for "none" are not data and that
bounds are numbers, and of an answer to `VerifyTask` that it has an integer code and
a list of entries with integer priorities; TLC evaluates them in the runs. The workers of the pool are
assumed to be finitely many.

| Module | Theorems | What the invariant adds |
|---|---|---|
| `VerifyDataMgrProofs` | `SpecTypeOK`, `SpecOneRowPerHost`, `SpecTableMatchesMemory`, `SpecAckedSurvives`, `SpecAssociationsMatchMemory` | `Writer`: where the writer stands, what is pending, and that nothing is promised of its bundle. `Filling`: after a delete that worked, the rows so far are those of the entry less the pending hosts. `Down`: a dead process has no memory. |
| `RdbMigrateProofs` | `SpecTypeOK`, `SpecOpenIsWhole` | `Shape`: what a table can be at all. `Where`: which table has the rows at each statement. `Stored`: what a version says of the columns. |
| `DomainVerifyProofs` | `SpecTypeOK`, `SpecSuccessIsOfApp`, `SpecLinkIsAnnounced`, `SpecOpenIsKept` | `TasksAreOfApp`: what a task that is not outdated will save is of the installed app, since its copy is. `EntriesAreInstalled`, `RunningHasApp`. For `OpenIsKept`, `Alone`: tasks of one bundle know that they overlap; `CopiesHold`: the copy of one that does not has every opening result as the entry has it now. |
| `AgentServiceProofs` | `SpecTypeOK`, `SpecLiveProxyStays` | `TimerIsThere`: up means timer or refusal, never both. `LiveIsThere`: what is called live is of the process that is there. `ProxyIsWatched`: a death still to be told is that of the process of the proxy there is, and a call that connects has none. |
| `TaskMgrProofs` | `SpecTypeOK`, `SpecIdleMeansHandled`, `SpecDestroyedIsQuiet`, `SpecHandlesOnce` | A task is at one place: in the queue once (`Queue`), with one worker (`Busy`, `Apart`), or with the http client while its worker waits (`Clients`). `Mapped`: `taskMap_` is what was submitted and not released. `Ended`. |
| `MgrClientProofs` | `SpecTypeOK`, `SpecSuccessIsServed`, `SpecIdentityIsRestored`, `SpecListIsKept` | `Received`: there is no reply for a reason, or it says what the handler returned. `Identities`: the thread's own, unless the method put it aside. For `ListIsKept`: a saved list is stored as its pieces (`SavedList`), and the list in use is the last one given, or after a restart what the stored one splits into (`GivenList`, `LoadedList`). |
| `VerifyTaskProofs` (`VerifyTask`) | `SpecTypeOK`, `SpecSaveIsWhole`, `SpecEndsBySaving`, `SpecLoneHostInRange`, `SpecBackoffHolds`, `SpecTaskIsOneStep` | `Pending`: `unVerifiedSet_` is the hosts whose handlers are under way. `Given`: a result that was updated has a priority some answer gave. `Lone`: with one host, what each read of the priority showed is still so at the next. `Times`: an old client error is in the task only if it has not waited long enough or is being verified again. `Alone`: a task that overlapped none is the only one there is, and what is stored for a host is what the task started from, or that of a new version (or of none). For `SpecTaskIsOneStep`, `Sourced`: every priority is unset or from a file, and a handler past its answer has a verdict; `Chosen`: a task has all hosts without a verdict and none that is verified, and leaves a verdict for each. |
| `VerifyTaskProofs` (`AssetFile`) | `LoopsMatch`, `LoopsSuccessIsEarned`, `LoopsVerdictIsStable` | `LoopsInv`: after each entry both loops have the closed form of the entries so far. The step is a lemma on appending an entry. |
| `CachesProofs` (`DeferredLinkMgr`) | `SpecTypeOK`, `SpecCacheIsBounded`, `SpecAgeTaskIsAlive`, `SpecLinksAge`, `SpecNewestFirst`, `SpecTakenOnce` | `Ages`: an entry is no older than what the timer will still allow. `NotTaken`: a link in the list was not taken since its put. |
| `CachesProofs` (`AppDetails`) | `SpecDetailsTypeOK`, `SpecLastUsedStay`, `SpecAnswerIsRecent` | `CacheInv`: the cache is the front of its history without doubles, and no entry was put before the cache was last emptied or after now. `TimesAreRead`: no query's time is ahead of the clock. `QueriesHaveUrls`. |

Most of the properties are not inductive by themselves: half-way through a write the
table agrees with nothing; what a task will save lies in its copy; whether an answer is
true is decided when the reply is written, and told when the lock is released. `NewestFirst`
is, given the types, and so is `LinkIsAnnounced` once the reasons are recorded. The
method-by-method comparison of stub and proxy is a set of lemmas on operators
(`Writes`, `NoReplyNoSuccess`, `SuccessIsRead`).

Two theorems are refinements: initial states map to initial states, and every step
to a step of the abstract specification or a stutter.

* `SpecHandlesOnce`: the pool implements `HandleOnce`. That no more than
  `PoolSize` tasks are taken is `RoomInPool`: the tasks under way go one to one to
  workers other than the one that takes the next.
* `SpecTaskIsOneStep`: a task implements `DomainVerify`, where it is one step that is
  not divided. What has to be shown is `ResultInManager`: when the last handler ends,
  the hosts of the task are among those the manager lets it verify (`TodoInManager`,
  from `Chosen`), each has a verdict with a priority of a file (`Sourced`), and the others
  are as they were copied (`Times`). So the saves that
  `DomainVerify` allows are all that a task can make, handler by handler. The mapping
  has one bundle and one app, with any hosts, any answers and any number of tasks.

Every invariant and every action property that a run checks is also a theorem.
The arguments differ:

* *Opening stays open.* A merge can only close a host with a result other than the
  entry's. A task does not verify a success it copied, so it saves it as it is; its
  copy is the entry's as long as no other task of the bundle saved in between.
* *Saving is whole.* Handlers interleave at every access to what they share, so the
  invariant says of each `pc` what its host's handler knows. The set of hosts under
  way is exact, hence the handler that finds it empty is the last.
* *Links age.* `PutDeferredLink` posts the age task only when the list was empty, and
  `AgeCacheProcess` only when something is left. That the time an entry has been kept
  and what is left on the timer stay within one period together is what carries over
  every step but the last tick, where the task must run before time goes on.
* *Lists and caches.* The operators on sequences come with lemmas about what they
  keep: `KeptEntries` (a sublist has no doubles and the old order) and those of
  `ToFront`, `Used` and `CheckFullUnlocked`. Facts about "the first such index" come
  from the least element of a set of numbers (`WFMin` of the library), so no
  induction over the list is needed.

## 6. What is only model-checked

The liveness properties (`TaskEnds`, `AddedIsHandled`, `StopEnds`, `OpensOrHalfDone`,
`AgentUnloads`, `LostIsRetried`, `StaleProxyIsDropped`): the prover has no support for
ENABLED and fairness. TLC checks them on the instances of section 3. The properties
of the two violating runs are refuted there and have nothing to prove.

## 7. What is not modelled

* What a vendor's extension does, and the dlopen of its library (`services/src/extension`):
  not in this repository. `AgentService` tells apart the three ways it can be there.
  `ConvertToExplicitWant`, `ConvertFromShortUrl` and `QueryAbilityInfos` only forward to it
  or to the bundle manager.
* JSON text: parsing is reduced to its result. Regular expressions: a match is a
  relation; one that `regcomp` refuses matches or does not, since the code then
  runs `regexec` on what is not defined.
* `stoll` failing on a saved time: saved times are written by this code, as numbers.
* What the vendor's callback of `ExecWithTrans` does to the table of app details, and the
  single statements it may use (create, insert, delete, rename).
* The wall clock going backwards; statuses that no code in the repository assigns.
* `AddTask(nullptr)`, the singleton accessors, and the destructor of `DeferredLinkMgr`;
  the map template `ffrt_safe_map.h`, whose operations are atomic under its lock.
* The manager's `OnStart`, `OnStop` and `OnDump`. `InitConfigMgr` looks at
  `whiteListConfigMgr_` before it takes its lock; the model gives that look the
  outcomes of a look under the lock.
* A task of two hosts can save one with the other's priority, in range or not:
  `LoneHostInRange` is stated for a single host for that reason.
* The agent's IPC proxy and stub (two one-way requests, which arrive or not),
  permission checks and bundle queries beyond their result, URL helpers, the memory
  manager notification and the JavaScript bindings: no state of their own.
