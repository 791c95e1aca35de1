---------------------------- MODULE VerifyDataMgr ----------------------------
(***************************************************************************)
(* AppDomainVerifyDataMgr: the verify results the manager service keeps,   *)
(* once in memory (verifyMap_) and once in the table of the relational     *)
(* store (AppDomainVerifyRdbDataManager).                                  *)
(*                                                                         *)
(* A writer changes the memory, then deletes the bundle's rows and inserts *)
(* them again one by one, holding verifyMapMutex_ and using no             *)
(* transaction.  Each of these store calls is a step here; any of them may *)
(* fail, and the process may die before any of them.  Queries of           *)
(* associated domains read the table without taking the mutex.             *)
(***************************************************************************)
EXTENDS Integers, FiniteSets

CONSTANTS
    Bundle,         \* bundle names
    Host,           \* hosts (keys of hostVerifyStatusMap)
    App,            \* app identifiers
    Status,         \* values of VerifyStatus: status, retry count, time, priority
    STATE_SUCCESS,  \* the value whose status is STATE_SUCCESS
    None,           \* no such entry, no such host
    Unknown,        \* nothing was promised about the bundle
    NoName,         \* the empty bundle name
    MaxRows         \* bound: rows the table holds for one bundle

ASSUME DataMgrAssumption ==
    /\ STATE_SUCCESS \in Status
    /\ None \notin Status
    /\ NoName \notin Bundle
    /\ App # {}
    /\ MaxRows \in Nat

(* hostVerifyStatusMap: None for a host that is not a key. *)
HostVerifyStatusMap == [Host -> Status \cup {None}]

VerifyResultInfo == [appIdentifier : App, hosts : HostVerifyStatusMap]

ASSUME SentinelAssumption ==
    /\ None \notin VerifyResultInfo
    /\ Unknown \notin VerifyResultInfo \cup {None}

(* Rows in the order of their autoincrement ID; only the order of the rows *)
(* of one bundle matters, so IDs are counted per bundle.                   *)
RdbDataItem == [bundleName : Bundle, appIdentifier : App, domain : Host,
                status : Status, id : 1 .. MaxRows]

VARIABLES
    running,    \* the manager process is up
    verifyMap,  \* verifyMap_: lost when the process dies
    table,      \* rows of the store: survive the process
    op,         \* the writer that holds verifyMapMutex_, and where it is
    acked,      \* history: what the last successful call on a bundle saved
    tainted,    \* history: bundles whose rows outlived a failed DeleteData
    behind      \* history: bundles the table may not show as the memory does

vars == <<running, verifyMap, table, op, acked, tainted, behind>>
-----------------------------------------------------------------------------
Hosts(m) == {h \in Host : m[h] # None}

GetParamKey(b) == b # NoName

Idle == [step |-> "idle", bundle |-> NoName, pending |-> {}]

RowsOf(b) == {r \in table : r.bundleName = b}

First(S) == CHOOSE r \in S : \A q \in S : r.id <= q.id

(* items of one bundle, in table order, to the map entry they stand for: *)
(* the first row names the app, the first row of a domain wins.          *)
DBToVerifyResultInfo(items) ==
    [appIdentifier |-> First(items).appIdentifier,
     hosts |-> [h \in Host |->
        LET ofHost == {r \in items : r.domain = h}
        IN  IF ofHost = {} THEN None ELSE First(ofHost).status]]

Loaded(b) == IF RowsOf(b) = {} THEN None ELSE DBToVerifyResultInfo(RowsOf(b))

QueryDomainAnyStatus(b) == RowsOf(b)  \* mutant: no condition on the status

QueryDomainByBundleName(b) == {r \in RowsOf(b) : r.status = STATE_SUCCESS}

QueryBundleNameByDomain(h) ==
    {r \in table : r.domain = h /\ r.status = STATE_SUCCESS}
-----------------------------------------------------------------------------
Init ==
    /\ running = TRUE
    /\ verifyMap = [b \in Bundle |-> None]
    /\ table = {}
    /\ op = Idle
    /\ acked = [b \in Bundle |-> None]
    /\ tainted = {}
    /\ behind = {}

(* A call that gets past its early returns and takes verifyMapMutex_. *)
Lock(b, step, pending) ==
    /\ running
    /\ op = Idle
    /\ GetParamKey(b)
    /\ op' = [step |-> step, bundle |-> b, pending |-> pending]
    /\ acked' = [acked EXCEPT ![b] = Unknown]
    /\ UNCHANGED <<running, table, tainted, behind>>

InsertVerifyStatus(b, info) ==
    /\ Lock(b, "wipe", Hosts(info.hosts))
    /\ verifyMap' = [verifyMap EXCEPT ![b] = info]

(* UpdateVerifyMap: only the hosts that the entry already has. *)
UpdateVerifyMap(old, new) ==
    [old EXCEPT !.hosts = [h \in Host |->
        IF old.hosts[h] # None /\ new.hosts[h] # None THEN new.hosts[h]
                                                      ELSE old.hosts[h]]]

UpdateVerifyStatus(b, info) ==
    /\ GetParamKey(b)
    /\ verifyMap[b] # None
    /\ Lock(b, "wipe", Hosts(verifyMap[b].hosts))
    /\ verifyMap' = [verifyMap EXCEPT ![b] = UpdateVerifyMap(@, info)]

DeleteVerifyStatus(b) ==
    /\ Lock(b, "erase", {})
    /\ verifyMap' = [verifyMap EXCEPT ![b] = None]

(***************************************************************************)
(* VerifyResultInfoToDB: a failed DeleteData is logged and the inserts     *)
(* follow all the same; the first failed insert ends the call.             *)
(***************************************************************************)
\* mutant: no DeleteData before the inserts
WipeSkipped ==
    /\ op.step = "wipe"
    /\ op' = [op EXCEPT !.step = "fill"]
    /\ UNCHANGED <<running, verifyMap, table, acked, tainted, behind>>

\* mutant: deletes only the rows that are about to be inserted again
WipePendingOnly ==
    /\ op.step = "wipe"
    /\ table' = {r \in table : r.bundleName # op.bundle \/ r.domain \notin op.pending}
    /\ tainted' = tainted \ {op.bundle}
    /\ op' = [op EXCEPT !.step = "fill"]
    /\ UNCHANGED <<running, verifyMap, acked, behind>>

WipeRows ==
    /\ op.step = "wipe"
    /\ table' = table \ RowsOf(op.bundle)
    /\ tainted' = tainted \ {op.bundle}
    /\ op' = [op EXCEPT !.step = "fill"]
    /\ UNCHANGED <<running, verifyMap, acked, behind>>

WipeFails ==
    /\ op.step = "wipe"
    /\ tainted' = IF RowsOf(op.bundle) = {} THEN tainted
                                            ELSE tainted \cup {op.bundle}
    /\ op' = [op EXCEPT !.step = "fill"]
    /\ UNCHANGED <<running, verifyMap, table, acked, behind>>

(* InsertData: the next ID follows every ID the bundle has. *)
InsertData(b, h, id) ==
    /\ \A r \in RowsOf(b) : r.id < id
    /\ \A i \in 1 .. (id - 1) : \E r \in RowsOf(b) : r.id = i
    /\ table' = table \cup
        {[bundleName |-> b, appIdentifier |-> verifyMap[b].appIdentifier,
          domain |-> h, status |-> verifyMap[b].hosts[h], id |-> id]}

FillRow(h) ==
    /\ op.step = "fill"
    /\ h \in op.pending
    /\ \E id \in 1 .. MaxRows : InsertData(op.bundle, h, id)
    /\ op' = [op EXCEPT !.pending = @ \ {h}]
    /\ UNCHANGED <<running, verifyMap, acked, tainted, behind>>

\* mutant: goes on with the next host after a failed insert
FillSkipsHost ==
    /\ op.step = "fill"
    /\ \E h \in op.pending : op' = [op EXCEPT !.pending = @ \ {h}]
    /\ UNCHANGED <<running, verifyMap, table, acked, tainted, behind>>

FillFails ==
    /\ op.step = "fill"
    /\ op.pending # {}
    /\ behind' = behind \cup {op.bundle}
    /\ op' = Idle
    /\ UNCHANGED <<running, verifyMap, table, acked, tainted>>

(* The call returns true. *)
FillDone ==
    /\ op.step = "fill"
    /\ op.pending = {}
    /\ behind' = behind \ {op.bundle}
    /\ acked' = [acked EXCEPT ![op.bundle] = verifyMap[op.bundle]]
    /\ op' = Idle
    /\ UNCHANGED <<running, verifyMap, table, tainted>>

EraseRows ==
    /\ op.step = "erase"
    /\ table' = table \ RowsOf(op.bundle)
    /\ tainted' = tainted \ {op.bundle}
    /\ behind' = behind \ {op.bundle}
    /\ acked' = [acked EXCEPT ![op.bundle] = None]
    /\ op' = Idle
    /\ UNCHANGED <<running, verifyMap>>

EraseFails ==
    /\ op.step = "erase"
    /\ behind' = behind \cup {op.bundle}
    /\ op' = Idle
    /\ UNCHANGED <<running, verifyMap, table, acked, tainted>>
-----------------------------------------------------------------------------
(* The foundation process dies between any two steps. *)
Crash ==
    /\ running
    /\ running' = FALSE
    /\ verifyMap' = [b \in Bundle |-> None]
    /\ op' = Idle
    /\ UNCHANGED <<table, acked, tainted, behind>>

(* The constructor's LoadData: InitRdb, then LoadAllFromRdb. *)
Restart ==
    /\ ~running
    /\ running' = TRUE
    /\ verifyMap' = [b \in Bundle |-> Loaded(b)]
    /\ behind' = {}
    /\ UNCHANGED <<table, op, acked, tainted>>

(* LoadData fails: the constructor logs it and serves an empty map. *)
RestartUnloaded ==
    /\ ~running
    /\ running' = TRUE
    /\ behind' = Bundle
    /\ UNCHANGED <<verifyMap, table, op, acked, tainted>>

(* DeleteIfCannotAccess removes a file it cannot read and write. *)
RestartInaccessible ==
    /\ ~running
    /\ running' = TRUE
    /\ table' = {}
    /\ acked' = [b \in Bundle |-> Unknown]
    /\ tainted' = {}
    /\ behind' = {}
    /\ UNCHANGED <<verifyMap, op>>

Store ==
    \/ WipeRows \/ WipeFails
    \/ \E h \in Host : FillRow(h)
    \/ FillFails \/ FillDone
    \/ EraseRows \/ EraseFails

Next ==
    \/ \E b \in Bundle \cup {NoName}, info \in VerifyResultInfo :
        InsertVerifyStatus(b, info) \/ UpdateVerifyStatus(b, info)
    \/ \E b \in Bundle \cup {NoName} : DeleteVerifyStatus(b)
    \/ Store
    \/ Crash \/ Restart \/ RestartUnloaded \/ RestartInaccessible

Spec == Init /\ [][Next]_vars
-----------------------------------------------------------------------------
TypeOK ==
    /\ running \in BOOLEAN
    /\ verifyMap \in [Bundle -> VerifyResultInfo \cup {None}]
    /\ table \subseteq RdbDataItem
    /\ op \in [step : {"idle", "wipe", "fill", "erase"},
               bundle : Bundle \cup {NoName}, pending : SUBSET Host]
    /\ acked \in [Bundle -> VerifyResultInfo \cup {None, Unknown}]
    /\ tainted \subseteq Bundle
    /\ behind \subseteq Bundle

(* What of an entry a row can hold: an entry without hosts has no row. *)
Persisted(e) ==
    IF e = None \/ e = Unknown THEN None
    ELSE IF Hosts(e.hosts) = {} THEN None ELSE e

(* No delete of b was lost, and no write of b is under way. *)
Settled(b) == running /\ b # op.bundle /\ b \notin tainted /\ b \notin behind

(***************************************************************************)
(* The table names a host of a bundle at most once, and all rows of a      *)
(* bundle name the same app, unless a DeleteData of it failed: the table   *)
(* has no key that would make InsertData replace a row.                    *)
(***************************************************************************)
OneRowPerHost ==
    \A r, q \in table :
        r.bundleName = q.bundleName /\ r.bundleName \notin tainted =>
            /\ r.appIdentifier = q.appIdentifier
            /\ r.domain = q.domain => r = q

(***************************************************************************)
(* What a restart would load is what the memory holds, for every bundle    *)
(* with no write under way and no failed store call since: writes of one   *)
(* bundle, their failures and crashes do not reach another.                *)
(***************************************************************************)
TableMatchesMemory ==
    \A b \in Bundle : Settled(b) => Loaded(b) = Persisted(verifyMap[b])

(***************************************************************************)
(* An insert, update or delete that returned true survives any number of   *)
(* crashes and failed loads, provided DeleteData did its work.             *)
(***************************************************************************)
AckedSurvives ==
    \A b \in Bundle \ tainted :
        acked[b] # Unknown => Loaded(b) = Persisted(acked[b])

(***************************************************************************)
(* QueryAssociatedDomains and QueryAssociatedBundleNames, which read the   *)
(* table, agree with the memory FilterAbilities reads: each verified host  *)
(* of a settled bundle is reported once, and nothing else is.              *)
(***************************************************************************)
AssociationsMatchMemory ==
    \A b \in Bundle : Settled(b) =>
        /\ \A h \in Host :
            (\E r \in QueryDomainByBundleName(b) : r.domain = h)
                <=> /\ verifyMap[b] # None
                    /\ verifyMap[b].hosts[h] = STATE_SUCCESS
        /\ \A h \in Host : \A r, q \in QueryBundleNameByDomain(h) :
            r.bundleName = b /\ q.bundleName = b => r = q

(***************************************************************************)
(* The header promises that InsertVerifyStatus and UpdateVerifyStatus      *)
(* return true when the value was saved.  Without the proviso of           *)
(* AckedSurvives that does not hold: DeleteData may fail silently.         *)
(***************************************************************************)
TrueMeansSaved ==
    \A b \in Bundle : acked[b] # Unknown => Loaded(b) = Persisted(acked[b])
=============================================================================
