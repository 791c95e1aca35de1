-------------------------- MODULE AgentServiceProofs --------------------------
(***************************************************************************)
(* Proofs about AgentService, for any bundles, number of retries and       *)
(* number of calls.  Besides the types the invariant says that what is     *)
(* called live is of the process that is there, and that a death still to  *)
(* be told is that of the proxy the manager has.                           *)
(***************************************************************************)
EXTENDS AgentService, TLAPS

(* The conjuncts of TypeOK, those of Boolean variables apart. *)
Types ==
    /\ extension \in {"absent", "unregistered", "vendor"}
    /\ agent \in {"down", "up", "leaving"}
    /\ timer \in {"none", "posted", "unloading"}
    /\ retryCnt \in 0 .. MAX_DELAY_RETRY_CNT
    /\ tasks \subseteq Bundle
    /\ unverified \subseteq Bundle
    /\ waiting \subseteq Bundle
    /\ agentServiceProxy \in {"none", "live", "stale"}
    /\ calls \in 0 .. MaxCalls
    /\ untried \subseteq unverified

Flags ==
    /\ isDoSyncDone \in BOOLEAN
    /\ deathRecipient \in BOOLEAN
    /\ refused \in BOOLEAN

ClientType ==
    client \in [pc : {"idle", "connect", "watch", "call"}, bundle : Bundle \cup {None},
               live : BOOLEAN]

(* An agent that is up has its timer, or else was refused to unload. *)
TimerIsThere ==
    /\ timer # "none" \/ refused <=> agent = "up"
    /\ ~(timer # "none" /\ refused)

LiveIsThere ==
    /\ agent = "down" => tasks = {}
    /\ agentServiceProxy = "live" => agent # "down"
    /\ client.live => agent # "down"

(* A death that is still to be told is that of the proxy there is, and a   *)
(* call that connects has found none.                                      *)
ProxyIsWatched ==
    /\ deaths \in 0 .. 1
    /\ deathRecipient => agentServiceProxy = "live"
    /\ deaths > 0 => agentServiceProxy = "stale"
    /\ client.pc \in {"connect", "watch"} => agentServiceProxy = "none"

(* The inductive invariant. *)
IInv ==
    Types /\ Flags /\ ClientType /\ TimerIsThere /\ LiveIsThere /\ ProxyIsWatched

LEMMA InitIInv == Init => IInv
<1> SUFFICES ASSUME Init PROVE IInv
  OBVIOUS
<1>1. Types
  BY AgentServiceAssumption DEF Init, Types
<1>2. Flags
  BY Zenon DEF Init, Flags
<1>3. ClientType
  BY DEF Init, ClientType, Idle
<1>4. TimerIsThere /\ LiveIsThere /\ ProxyIsWatched
  BY DEF Init, TimerIsThere, LiveIsThere, ProxyIsWatched, Idle
<1> QED
  BY <1>1, <1>2, <1>3, <1>4 DEF IInv

(* Every step keeps it. *)
LEMMA NextIInv == IInv /\ [Next]_vars => IInv'
<1> SUFFICES ASSUME IInv, [Next]_vars PROVE IInv'
  OBVIOUS
<1> USE DEF IInv
<1>1. ASSUME NEW b \in Bundle, VerifyDomain(b) PROVE IInv'
  <2>1. Types'
    BY <1>1, AgentServiceAssumption DEF Types, VerifyDomain, agentVars, proxyVars
  <2>2. Flags'
    BY Zenon, <1>1 DEF Flags, VerifyDomain, agentVars, proxyVars
  <2>3. ClientType'
    BY <1>1 DEF ClientType, VerifyDomain, agentVars, proxyVars
  <2>4. TimerIsThere'
    BY <1>1 DEF TimerIsThere, Flags, VerifyDomain, agentVars, proxyVars
  <2>5. LiveIsThere'
    BY <1>1 DEF LiveIsThere, Types, ClientType, VerifyDomain, agentVars, proxyVars
  <2>6. ProxyIsWatched'
    BY <1>1 DEF ProxyIsWatched, Flags, ClientType, VerifyDomain, agentVars, proxyVars
  <2> QED
    BY <2>1, <2>2, <2>3, <2>4, <2>5, <2>6
<1>2. ASSUME NEW b \in Bundle, TaskEnds(b) PROVE IInv'
  <2>1. Types'
    BY <1>2 DEF Types, TaskEnds, clientVars, proxyVars
  <2>2. Flags'
    BY Zenon, <1>2 DEF Flags, TaskEnds, clientVars, proxyVars
  <2>3. ClientType'
    BY <1>2 DEF ClientType, TaskEnds, clientVars, proxyVars
  <2>4. TimerIsThere'
    BY <1>2 DEF TimerIsThere, Flags, TaskEnds, clientVars, proxyVars
  <2>5. LiveIsThere'
    BY <1>2 DEF LiveIsThere, Types, ClientType, TaskEnds, clientVars, proxyVars
  <2>6. ProxyIsWatched'
    BY <1>2 DEF ProxyIsWatched, Flags, ClientType, TaskEnds, clientVars, proxyVars
  <2> QED
    BY <2>1, <2>2, <2>3, <2>4, <2>5, <2>6
<1>3. CASE ConvertToExplicitWant
  <2>1. Types'
    BY <1>3, AgentServiceAssumption
       DEF Types, ConvertToExplicitWant, IsServiceAvailable, agentVars, proxyVars,
           Idle
  <2>2. Flags'
    BY Zenon, <1>3
       DEF Flags, ConvertToExplicitWant, IsServiceAvailable, agentVars, proxyVars,
           Idle
  <2>3. ClientType'
    BY <1>3
       DEF ClientType, ConvertToExplicitWant, IsServiceAvailable, agentVars,
           proxyVars, Idle
  <2>4. TimerIsThere'
    BY <1>3
       DEF TimerIsThere, Flags, ConvertToExplicitWant, IsServiceAvailable, agentVars,
           proxyVars, Idle
  <2>5. LiveIsThere'
    BY <1>3
       DEF LiveIsThere, Types, ClientType, ConvertToExplicitWant, IsServiceAvailable,
           agentVars, proxyVars, Idle
  <2>6. ProxyIsWatched'
    BY <1>3
       DEF ProxyIsWatched, Flags, ClientType, ConvertToExplicitWant,
           IsServiceAvailable, agentVars, proxyVars, Idle
  <2> QED
    BY <2>1, <2>2, <2>3, <2>4, <2>5, <2>6
<1>4. CASE OnDemandStart
  <2>1. Types'
    BY <1>4, AgentServiceAssumption
       DEF Types, OnDemandStart, OnStart, clientVars, proxyVars, bundleVars
  <2>2. Flags'
    BY Zenon, <1>4 DEF Flags, OnDemandStart, OnStart, clientVars, proxyVars, bundleVars
  <2>3. ClientType'
    BY <1>4 DEF ClientType, OnDemandStart, OnStart, clientVars, proxyVars, bundleVars
  <2>4. TimerIsThere'
    BY <1>4
       DEF TimerIsThere, Flags, OnDemandStart, OnStart, clientVars, proxyVars,
           bundleVars
  <2>5. LiveIsThere'
    BY <1>4
       DEF LiveIsThere, Types, ClientType, OnDemandStart, OnStart, clientVars,
           proxyVars, bundleVars
  <2>6. ProxyIsWatched'
    BY <1>4
       DEF ProxyIsWatched, Flags, ClientType, OnDemandStart, OnStart, clientVars,
           proxyVars, bundleVars
  <2> QED
    BY <2>1, <2>2, <2>3, <2>4, <2>5, <2>6
<1>5. CASE DecideToUnload
  <2>1. Types'
    BY <1>5 DEF Types, DecideToUnload, clientVars, proxyVars, bundleVars
  <2>2. Flags'
    BY Zenon, <1>5 DEF Flags, DecideToUnload, clientVars, proxyVars, bundleVars
  <2>3. ClientType'
    BY <1>5 DEF ClientType, DecideToUnload, clientVars, proxyVars, bundleVars
  <2>4. TimerIsThere'
    BY <1>5 DEF TimerIsThere, Flags, DecideToUnload, clientVars, proxyVars, bundleVars
  <2>5. LiveIsThere'
    BY <1>5
       DEF LiveIsThere, Types, ClientType, DecideToUnload, clientVars, proxyVars,
           bundleVars
  <2>6. ProxyIsWatched'
    BY <1>5
       DEF ProxyIsWatched, Flags, ClientType, DecideToUnload, clientVars, proxyVars,
           bundleVars
  <2> QED
    BY <2>1, <2>2, <2>3, <2>4, <2>5, <2>6
<1>6. CASE UnloadSa
  <2>1. Types'
    BY <1>6 DEF Types, UnloadSa, clientVars, proxyVars, bundleVars
  <2>2. Flags'
    BY Zenon, <1>6 DEF Flags, UnloadSa, clientVars, proxyVars, bundleVars
  <2>3. ClientType'
    BY <1>6 DEF ClientType, UnloadSa, clientVars, proxyVars, bundleVars
  <2>4. TimerIsThere'
    BY <1>6 DEF TimerIsThere, Flags, UnloadSa, clientVars, proxyVars, bundleVars
  <2>5. LiveIsThere'
    BY <1>6
       DEF LiveIsThere, Types, ClientType, UnloadSa, clientVars, proxyVars, bundleVars
  <2>6. ProxyIsWatched'
    BY <1>6
       DEF ProxyIsWatched, Flags, ClientType, UnloadSa, clientVars, proxyVars,
           bundleVars
  <2> QED
    BY <2>1, <2>2, <2>3, <2>4, <2>5, <2>6
<1>7. CASE Delay
  <2>1. Types'
    BY <1>7, AgentServiceAssumption
       DEF Types, Delay, NoSync, OnDelayUnloadSA, PostDelayUnloadTask, clientVars,
           proxyVars
  <2>2. Flags'
    BY Zenon, <1>7
       DEF Flags, Delay, NoSync, OnDelayUnloadSA, PostDelayUnloadTask, clientVars,
           proxyVars
  <2>3. ClientType'
    BY <1>7
       DEF ClientType, Delay, NoSync, OnDelayUnloadSA, PostDelayUnloadTask,
           clientVars, proxyVars
  <2>4. TimerIsThere'
    BY <1>7
       DEF TimerIsThere, Flags, Delay, NoSync, OnDelayUnloadSA, PostDelayUnloadTask,
           clientVars, proxyVars
  <2>5. LiveIsThere'
    BY <1>7
       DEF LiveIsThere, Types, ClientType, Delay, NoSync, OnDelayUnloadSA,
           PostDelayUnloadTask, clientVars, proxyVars
  <2>6. ProxyIsWatched'
    BY <1>7
       DEF ProxyIsWatched, Flags, ClientType, Delay, NoSync, OnDelayUnloadSA,
           PostDelayUnloadTask, clientVars, proxyVars
  <2> QED
    BY <2>1, <2>2, <2>3, <2>4, <2>5, <2>6
<1>8. ASSUME NEW bundles \in SUBSET unverified, Refresh(bundles) PROVE IInv'
  <2>1. /\ agent = "up" /\ timer = "posted"
        /\ timer' = "posted"
        /\ retryCnt' = IF retryCnt < MAX_DELAY_RETRY_CNT THEN retryCnt + 1 ELSE retryCnt
        /\ UNCHANGED <<agent, refused, clientVars, unverified, calls, extension>>
        /\ isDoSyncDone' = TRUE
    BY <1>8 DEF Refresh, OnDelayUnloadSA, PostDelayUnloadTask, DoSync
  <2>2. /\ tasks' \in {tasks, tasks \cup bundles}
        /\ untried' \in {untried, untried \ bundles, {}}
    BY <1>8, <2>1 DEF Refresh, OnDelayUnloadSA, DoSync, ExecuteVerifyTask, Types
  <2>3. Types'
    BY <2>1, <2>2, AgentServiceAssumption DEF Types, clientVars, proxyVars
  <2>4. Flags'
    BY Zenon, <2>1 DEF Flags, clientVars, proxyVars
  <2>5. ClientType' /\ TimerIsThere'
    BY <2>1 DEF ClientType, TimerIsThere, clientVars
  <2>6. LiveIsThere' /\ ProxyIsWatched'
    BY <2>1 DEF LiveIsThere, ProxyIsWatched, clientVars, proxyVars
  <2> QED
    BY <2>3, <2>4, <2>5, <2>6
<1>9. CASE OnStop
  <2>1. Types'
    BY <1>9, AgentServiceAssumption DEF Types, OnStop, Gone, bundleVars
  <2>2. Flags'
    BY Zenon, <1>9 DEF Flags, OnStop, Gone, bundleVars
  <2>3. ClientType'
    BY <1>9 DEF ClientType, OnStop, Gone, bundleVars
  <2>4. TimerIsThere'
    BY <1>9 DEF TimerIsThere, Flags, OnStop, Gone, bundleVars
  <2>5. LiveIsThere'
    BY <1>9 DEF LiveIsThere, Types, ClientType, OnStop, Gone, bundleVars
  <2>6. ProxyIsWatched'
    BY <1>9 DEF ProxyIsWatched, Flags, ClientType, OnStop, Gone, bundleVars
  <2> QED
    BY <2>1, <2>2, <2>3, <2>4, <2>5, <2>6
<1>10. CASE Die
  <2>1. Types'
    BY <1>10, AgentServiceAssumption DEF Types, Die, Gone, bundleVars
  <2>2. Flags'
    BY Zenon, <1>10 DEF Flags, Die, Gone, bundleVars
  <2>3. ClientType'
    BY <1>10 DEF ClientType, Die, Gone, bundleVars
  <2>4. TimerIsThere'
    BY <1>10 DEF TimerIsThere, Flags, Die, Gone, bundleVars
  <2>5. LiveIsThere'
    BY <1>10 DEF LiveIsThere, Types, ClientType, Die, Gone, bundleVars
  <2>6. ProxyIsWatched'
    BY <1>10 DEF ProxyIsWatched, Flags, ClientType, Die, Gone, bundleVars
  <2> QED
    BY <2>1, <2>2, <2>3, <2>4, <2>5, <2>6
<1>11. ASSUME NEW b \in Bundle, SingleVerify(b) PROVE IInv'
  <2>1. Types'
    BY <1>11
       DEF Types, SingleVerify, IsServiceAvailable, agentVars, proxyVars, bundleVars,
           Idle
  <2>2. Flags'
    BY Zenon, <1>11
       DEF Flags, SingleVerify, IsServiceAvailable, agentVars, proxyVars, bundleVars,
           Idle
  <2>3. ClientType'
    BY <1>11
       DEF ClientType, SingleVerify, IsServiceAvailable, agentVars, proxyVars,
           bundleVars, Idle
  <2>4. TimerIsThere'
    BY <1>11
       DEF TimerIsThere, Flags, SingleVerify, IsServiceAvailable, agentVars,
           proxyVars, bundleVars, Idle
  <2>5. LiveIsThere'
    BY <1>11
       DEF LiveIsThere, Types, ClientType, SingleVerify, IsServiceAvailable,
           agentVars, proxyVars, bundleVars, Idle
  <2>6. ProxyIsWatched'
    BY <1>11
       DEF ProxyIsWatched, Flags, ClientType, SingleVerify, IsServiceAvailable,
           agentVars, proxyVars, bundleVars, Idle
  <2> QED
    BY <2>1, <2>2, <2>3, <2>4, <2>5, <2>6
<1>12. CASE CheckSystemAbility
  <2>1. Types'
    BY <1>12 DEF Types, CheckSystemAbility, agentVars, proxyVars, bundleVars
  <2>2. Flags'
    BY Zenon, <1>12 DEF Flags, CheckSystemAbility, agentVars, proxyVars, bundleVars
  <2>3. ClientType'
    BY <1>12 DEF ClientType, CheckSystemAbility, agentVars, proxyVars, bundleVars
  <2>4. TimerIsThere'
    BY <1>12
       DEF TimerIsThere, Flags, CheckSystemAbility, agentVars, proxyVars, bundleVars
  <2>5. LiveIsThere'
    BY <1>12
       DEF LiveIsThere, Types, ClientType, CheckSystemAbility, agentVars, proxyVars,
           bundleVars
  <2>6. ProxyIsWatched'
    BY <1>12
       DEF ProxyIsWatched, Flags, ClientType, CheckSystemAbility, agentVars,
           proxyVars, bundleVars
  <2> QED
    BY <2>1, <2>2, <2>3, <2>4, <2>5, <2>6
<1>13. CASE LoadSystemAbility
  <2>1. Types'
    BY <1>13, AgentServiceAssumption
       DEF Types, LoadSystemAbility, OnStart, proxyVars, bundleVars
  <2>2. Flags'
    BY Zenon, <1>13 DEF Flags, LoadSystemAbility, OnStart, proxyVars, bundleVars
  <2>3. ClientType'
    BY <1>13 DEF ClientType, LoadSystemAbility, OnStart, proxyVars, bundleVars
  <2>4. TimerIsThere'
    BY <1>13 DEF TimerIsThere, Flags, LoadSystemAbility, OnStart, proxyVars, bundleVars
  <2>5. LiveIsThere'
    BY <1>13
       DEF LiveIsThere, Types, ClientType, LoadSystemAbility, OnStart, proxyVars,
           bundleVars
  <2>6. ProxyIsWatched'
    BY <1>13
       DEF ProxyIsWatched, Flags, ClientType, LoadSystemAbility, OnStart, proxyVars,
           bundleVars
  <2> QED
    BY <2>1, <2>2, <2>3, <2>4, <2>5, <2>6
<1>14. CASE ConnectFails
  <2>1. Types'
    BY <1>14 DEF Types, ConnectFails, agentVars, proxyVars, bundleVars, Idle
  <2>2. Flags'
    BY Zenon, <1>14 DEF Flags, ConnectFails, agentVars, proxyVars, bundleVars, Idle
  <2>3. ClientType'
    BY <1>14 DEF ClientType, ConnectFails, agentVars, proxyVars, bundleVars, Idle
  <2>4. TimerIsThere'
    BY <1>14
       DEF TimerIsThere, Flags, ConnectFails, agentVars, proxyVars, bundleVars, Idle
  <2>5. LiveIsThere'
    BY <1>14
       DEF LiveIsThere, Types, ClientType, ConnectFails, agentVars, proxyVars,
           bundleVars, Idle
  <2>6. ProxyIsWatched'
    BY <1>14
       DEF ProxyIsWatched, Flags, ClientType, ConnectFails, agentVars, proxyVars,
           bundleVars, Idle
  <2> QED
    BY <2>1, <2>2, <2>3, <2>4, <2>5, <2>6
<1>15. CASE AddDeathRecipient
  <2>1. Types'
    BY <1>15 DEF Types, AddDeathRecipient, agentVars, bundleVars
  <2>2. Flags'
    <3>1. client.live \in BOOLEAN
      BY DEF ClientType
    <3> QED
      BY Zenon, <3>1, <1>15 DEF Flags, AddDeathRecipient, agentVars, bundleVars
  <2>3. ClientType'
    BY <1>15 DEF ClientType, AddDeathRecipient, agentVars, bundleVars
  <2>4. TimerIsThere'
    BY <1>15 DEF TimerIsThere, Flags, AddDeathRecipient, agentVars, bundleVars
  <2>5. LiveIsThere'
    BY <1>15
       DEF LiveIsThere, Types, ClientType, AddDeathRecipient, agentVars, bundleVars
  <2>6. ProxyIsWatched'
    BY <1>15
       DEF ProxyIsWatched, Flags, ClientType, AddDeathRecipient, agentVars, bundleVars
  <2> QED
    BY <2>1, <2>2, <2>3, <2>4, <2>5, <2>6
<1>16. CASE SendRequest
  <2>1. Types'
    BY <1>16 DEF Types, SendRequest, ExecuteVerifyTask, proxyVars, Idle
  <2>2. Flags'
    BY Zenon, <1>16 DEF Flags, SendRequest, ExecuteVerifyTask, proxyVars, Idle
  <2>3. ClientType'
    BY <1>16 DEF ClientType, SendRequest, ExecuteVerifyTask, proxyVars, Idle
  <2>4. TimerIsThere'
    BY <1>16 DEF TimerIsThere, Flags, SendRequest, ExecuteVerifyTask, proxyVars, Idle
  <2>5. LiveIsThere'
    BY <1>16
       DEF LiveIsThere, Types, ClientType, SendRequest, ExecuteVerifyTask, proxyVars,
           Idle
  <2>6. ProxyIsWatched'
    BY <1>16
       DEF ProxyIsWatched, Flags, ClientType, SendRequest, ExecuteVerifyTask,
           proxyVars, Idle
  <2> QED
    BY <2>1, <2>2, <2>3, <2>4, <2>5, <2>6
<1>17. CASE OnRemoteSaDied
  <2>1. Types'
    BY <1>17 DEF Types, OnRemoteSaDied, agentVars, bundleVars, Idle
  <2>2. Flags'
    BY Zenon, <1>17 DEF Flags, OnRemoteSaDied, agentVars, bundleVars, Idle
  <2>3. ClientType'
    BY <1>17 DEF ClientType, OnRemoteSaDied, agentVars, bundleVars, Idle
  <2>4. TimerIsThere'
    BY <1>17 DEF TimerIsThere, Flags, OnRemoteSaDied, agentVars, bundleVars, Idle
  <2>5. LiveIsThere'
    BY <1>17
       DEF LiveIsThere, Types, ClientType, OnRemoteSaDied, agentVars, bundleVars, Idle
  <2>6. ProxyIsWatched'
    BY <1>17
       DEF ProxyIsWatched, Flags, ClientType, OnRemoteSaDied, agentVars, bundleVars,
           Idle
  <2> QED
    BY <2>1, <2>2, <2>3, <2>4, <2>5, <2>6
<1>18. CASE UNCHANGED vars
  <2>1. Types'
    BY <1>18 DEF Types, vars, agentVars, clientVars, proxyVars, bundleVars
  <2>2. Flags'
    BY Zenon, <1>18 DEF Flags, vars, agentVars, clientVars, proxyVars, bundleVars
  <2>3. ClientType'
    BY <1>18 DEF ClientType, vars, agentVars, clientVars, proxyVars, bundleVars
  <2>4. TimerIsThere'
    BY <1>18 DEF TimerIsThere, Flags, vars, agentVars, clientVars, proxyVars, bundleVars
  <2>5. LiveIsThere'
    BY <1>18
       DEF LiveIsThere, Types, ClientType, vars, agentVars, clientVars, proxyVars,
           bundleVars
  <2>6. ProxyIsWatched'
    BY <1>18
       DEF ProxyIsWatched, Flags, ClientType, vars, agentVars, clientVars, proxyVars,
           bundleVars
  <2> QED
    BY <2>1, <2>2, <2>3, <2>4, <2>5, <2>6
<1> QED
  BY <1>1, <1>2, <1>3, <1>4, <1>5, <1>6, <1>7, <1>8, <1>9, <1>10, <1>11, <1>12, <1>13,
     <1>14, <1>15, <1>16, <1>17, <1>18 DEF Next, Client
-----------------------------------------------------------------------------
(* The inductive invariant is one. *)
THEOREM SpecIInv == Spec => []IInv
<1>1. IInv /\ UNCHANGED vars => IInv'
  BY NextIInv
<1> QED
  BY InitIInv, NextIInv, <1>1, PTL DEF Spec

(* The agent, its connection and the bundles have their types; an agent is *)
(* up exactly while its unload task is posted or samgr has refused it.     *)
THEOREM SpecTypeOK == Spec => []TypeOK
<1>1. IInv => TypeOK
  BY DEF IInv, TypeOK, Types, Flags, ClientType, TimerIsThere, LiveIsThere, ProxyIsWatched
<1> QED
  BY <1>1, SpecIInv, PTL

(* No step, a death's handler among them, drops the proxy of a process     *)
(* that is there.                                                          *)
THEOREM SpecLiveProxyStays == Spec => LiveProxyStays
<1>1. IInv /\ [Next]_vars =>
        [agentServiceProxy = "live" => agentServiceProxy' # "none"]_vars
  <2> SUFFICES ASSUME IInv, [Next]_vars, agentServiceProxy = "live"
               PROVE  agentServiceProxy' # "none"
    OBVIOUS
  <2>1. deaths = 0 /\ client.pc \notin {"connect", "watch"}
    BY DEF IInv, ProxyIsWatched
  <2>2. ~OnRemoteSaDied /\ ~AddDeathRecipient
    BY <2>1 DEF OnRemoteSaDied, AddDeathRecipient
  <2>3. CASE OnStop \/ Die
    BY <2>3 DEF OnStop, Die, Gone
  <2>4. CASE ~(OnStop \/ Die)
    <3>1. UNCHANGED agentServiceProxy
      BY <2>2, <2>4 DEF Next, Client, vars, VerifyDomain, TaskEnds, ConvertToExplicitWant,
         OnDemandStart, DecideToUnload, UnloadSa, Delay, Refresh, OnDelayUnloadSA,
         SingleVerify, IsServiceAvailable, CheckSystemAbility, LoadSystemAbility,
         ConnectFails, SendRequest, clientVars, proxyVars
    <3> QED
      BY <3>1
  <2> QED
    BY <2>3, <2>4
<1> QED
  BY <1>1, SpecIInv, PTL DEF Spec, LiveProxyStays
=============================================================================
