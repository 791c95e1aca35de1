------------------------------- MODULE MgrClient -------------------------------
(***************************************************************************)
(* MgrClient: a process that calls the manager, from several threads.      *)
(* AppDomainVerifyMgrClient keeps one proxy; a call holds proxyLock_ from  *)
(* its beginning to its end, and so does the notice of the manager's       *)
(* death.  The manager may die at any step and starts again.               *)
(*                                                                         *)
(* A thread may itself be serving a request, and then has the identity of  *)
(* the one who made it; some methods put that aside for the call.          *)
(***************************************************************************)
EXTENDS MgrServiceStub, WhiteListConfig

CONSTANTS
    Thread, None,
    MaxItems,      \* bound: items of a request or a reply
    Lists          \* the lists of patterns UpdateWhiteListUrls is called with

ASSUME MgrClientAssumption ==
    /\ None \notin Thread
    /\ MaxItems \in Nat
    /\ Lists \subseteq SUBSET Seq(Piece)

VARIABLES
    caller,     \* the kind of this process
    manager,    \* "up" or "down"
    appDomainVerifyMgrServiceProxy,  \* "none", "live", "dead" of a manager
                \* that died, or "unwatched": dead, and no notice will come
    identity,   \* of each thread: "caller" or "self"
    pc,         \* of the call that holds proxyLock_
    call,       \* that call, or the last one
    served,     \* what the handler returned, None if it did not run
    error, reply,   \* what SendRequest gave
    answer

callVars == <<identity, pc, call, served, error, reply, answer>>
vars == <<caller, manager, appDomainVerifyMgrServiceProxy, callVars, whiteListVars>>

Sizes == 0 .. MaxItems

NoCall ==
    [thread |-> None, method |-> None, size |-> 0, list |-> {}, identity |-> "caller"]

Init ==
    /\ caller \in Caller
    /\ manager = "up"
    /\ appDomainVerifyMgrServiceProxy = "none"
    /\ identity = [t \in Thread |-> "caller"]
    /\ pc = "unlocked"
    /\ call = NoCall
    /\ served = None
    /\ error = FALSE
    /\ reply = <<>>
    /\ answer = Failed
    /\ InitWhiteList
-----------------------------------------------------------------------------
(* Every method begins so; the requests of IsShortUrl with a url that is   *)
(* not valid do not begin.                                                 *)
Begin(t, method, size, list) ==
    /\ pc = "unlocked"
    /\ pc' = "available"
    /\ call' = [thread |-> t, method |-> method, size |-> size, list |-> list,
                identity |-> identity[t]]
    /\ served' = None
    /\ error' = FALSE
    /\ reply' = <<>>
    /\ answer' = Failed
    /\ UNCHANGED <<caller, manager, appDomainVerifyMgrServiceProxy, identity,
                   whiteListVars>>

Call(t) ==
    \/ \E method \in Method \ WithSize : Begin(t, method, 0, {})
    \/ \E method \in WithSize \ {"UpdateWhiteListUrls"}, size \in Sizes :
           Begin(t, method, size, {})
    \/ \E list \in Lists :
           Begin(t, "UpdateWhiteListUrls", Cardinality(list), list)

ResetsCallingIdentity ==
    {"ConvertToExplicitWant", "QueryAppDetailsWant", "IsShortUrl",
     "ConvertFromShortUrl", "QueryAbilityInfos"}

(* QueryAppDetailsWant returns before it. *)
SetsCallingIdentity == ResetsCallingIdentity \ {"QueryAppDetailsWant"}

Unlock == pc' = "unlocked" /\ UNCHANGED <<call, served, error, reply>>

IsServiceAvailable ==
    /\ pc = "available"
    /\ appDomainVerifyMgrServiceProxy # "none"
    /\ pc' = "send"
    /\ identity' = IF call.method \in ResetsCallingIdentity
                     THEN [identity EXCEPT ![call.thread] = "self"] ELSE identity
    /\ UNCHANGED <<caller, manager, appDomainVerifyMgrServiceProxy, call, served,
                   error, reply, answer, whiteListVars>>

(* The result of AddDeathRecipient is not looked at: it is an error if the *)
(* manager has died since CheckSystemAbility.                              *)
ConnectService ==
    /\ pc = "available"
    /\ appDomainVerifyMgrServiceProxy = "none"
    /\ manager = "up"
    /\ \/ /\ appDomainVerifyMgrServiceProxy' = "live"
          /\ UNCHANGED <<manager, whiteListVars>>
       \/ /\ appDomainVerifyMgrServiceProxy' = "unwatched"
          /\ manager' = "down"
          /\ EndWhiteList
    /\ UNCHANGED <<caller, callVars>>

ConnectFails ==
    /\ pc = "available"
    /\ appDomainVerifyMgrServiceProxy = "none"
    /\ Unlock
    /\ answer' = Failed
    /\ UNCHANGED <<caller, manager, appDomainVerifyMgrServiceProxy, identity,
                   whiteListVars>>
-----------------------------------------------------------------------------
(* SendRequest, as far as the manager. *)
Arrives ==
    /\ pc = "send"
    /\ appDomainVerifyMgrServiceProxy = "live"
    /\ manager = "up"

Replies(result) ==
    /\ served' = result
    /\ reply' = OnRemoteRequest(call.method, result)
    /\ pc' = "receive"
    /\ UNCHANGED <<caller, manager, appDomainVerifyMgrServiceProxy, identity, call,
                   error, answer>>

DropRequest ==
    /\ Arrives
    /\ Dropped(call.method, call.size)
    /\ pc' = "receive"
    /\ UNCHANGED <<caller, manager, appDomainVerifyMgrServiceProxy, identity, call,
                   served, error, reply, answer, whiteListVars>>

RefuseRequest ==
    /\ Arrives
    /\ Unreadable(call.method, call.size)
    /\ error' = TRUE
    /\ pc' = "receive"
    /\ UNCHANGED <<caller, manager, appDomainVerifyMgrServiceProxy, identity, call,
                   served, reply, answer, whiteListVars>>

UsesWhiteList == {"UpdateWhiteListUrls", "IsAtomicServiceUrl", "IsShortUrl"}

InitConfigMgr ==
    /\ Arrives
    /\ call.method \in UsesWhiteList
    /\ ~Dropped(call.method, call.size)
    /\ IsSACall(caller)
    /\ ~loaded
    /\ Load
    /\ UNCHANGED <<caller, manager, appDomainVerifyMgrServiceProxy, callVars>>

HandleUpdateWhiteListUrls ==
    /\ Arrives
    /\ call.method = "UpdateWhiteListUrls"
    /\ ~Dropped(call.method, call.size)
    /\ IsSACall(caller)
    /\ loaded
    /\ UpdateWhiteList(call.list)
    /\ Replies(Told(TRUE, 0))

(* IsShortUrl is the same. *)
HandleIsAtomicServiceUrl ==
    /\ Arrives
    /\ call.method \in {"IsAtomicServiceUrl", "IsShortUrl"}
    /\ IsSACall(caller)
    /\ loaded
    /\ \E url \in Url : \E ok \in IsInWhiteList(url) : Replies(Told(ok, 0))
    /\ UNCHANGED whiteListVars

(* What the other handlers do is for other modules. *)
ResultsOf(method) ==
    CASE method = "QueryAbilityInfos" -> Results({IsAgentCall(caller)}, Sizes)
      [] method \in {"QueryAssociatedDomains", "QueryAssociatedBundleNames"} ->
             Results(CheckPermission(caller), Sizes)
      [] method \in {"PopDeferredLink", "GetDeferredLink"} -> Results({TRUE}, {0})
      [] method \in {"FilterAbilities", "QueryAllDomainVerifyStatus"} ->
             SAOnly(caller, Sizes)
      [] OTHER -> SAOnly(caller, {0})

Handle ==
    /\ Arrives
    /\ call.method \in UsesWhiteList => ~IsSACall(caller)
    /\ ~Dropped(call.method, call.size)
    /\ ~Unreadable(call.method, call.size)
    /\ \E result \in ResultsOf(call.method) : Replies(result)
    /\ UNCHANGED whiteListVars

(* The request does not arrive, or the manager dies and its reply is lost. *)
SendRequestFails ==
    /\ \/ pc = "send"
       \/ pc = "receive" /\ appDomainVerifyMgrServiceProxy = "dead"
    /\ error' = TRUE
    /\ reply' = <<>>
    /\ pc' = "receive"
    /\ UNCHANGED <<caller, manager, appDomainVerifyMgrServiceProxy, identity, call,
                   served, answer, whiteListVars>>

\* mutant: the identity is put back only if the call succeeded
ReceiveOnError ==
    /\ pc = "receive"
    /\ answer' = AnswerOf(call.method, error, reply)
    /\ identity' = IF call.method \in SetsCallingIdentity /\ ~error
                     THEN [identity EXCEPT ![call.thread] = call.identity] ELSE identity
    /\ Unlock
    /\ UNCHANGED <<caller, manager, appDomainVerifyMgrServiceProxy, whiteListVars>>

Receive ==
    /\ pc = "receive"
    /\ answer' = AnswerOf(call.method, error, reply)
    /\ identity' = IF call.method \in SetsCallingIdentity
                     THEN [identity EXCEPT ![call.thread] = call.identity] ELSE identity
    /\ Unlock
    /\ UNCHANGED <<caller, manager, appDomainVerifyMgrServiceProxy, whiteListVars>>
-----------------------------------------------------------------------------
Die ==
    /\ manager = "up"
    /\ manager' = "down"
    /\ appDomainVerifyMgrServiceProxy' =
           IF appDomainVerifyMgrServiceProxy = "live" THEN "dead"
           ELSE appDomainVerifyMgrServiceProxy
    /\ EndWhiteList
    /\ UNCHANGED <<caller, callVars>>

Start ==
    /\ manager = "down"
    /\ manager' = "up"
    /\ UNCHANGED <<caller, appDomainVerifyMgrServiceProxy, callVars, whiteListVars>>

OnRemoteSaDied ==
    /\ pc = "unlocked"
    /\ appDomainVerifyMgrServiceProxy = "dead"
    /\ appDomainVerifyMgrServiceProxy' = "none"
    /\ UNCHANGED <<caller, manager, callVars, whiteListVars>>

(* The thread serves another request. *)
Serve(t) ==
    /\ pc # "unlocked" => call.thread # t
    /\ identity[t] = "self"
    /\ identity' = [identity EXCEPT ![t] = "caller"]
    /\ UNCHANGED <<caller, manager, appDomainVerifyMgrServiceProxy, pc, call, served,
                   error, reply, answer, whiteListVars>>

Next ==
    \/ \E t \in Thread : Call(t) \/ Serve(t)
    \/ IsServiceAvailable \/ ConnectService \/ ConnectFails
    \/ DropRequest \/ RefuseRequest \/ InitConfigMgr
    \/ HandleUpdateWhiteListUrls \/ HandleIsAtomicServiceUrl \/ Handle \/ SendRequestFails \/ Receive
    \/ Die \/ Start \/ OnRemoteSaDied

Spec == Init /\ [][Next]_vars
-----------------------------------------------------------------------------
TypeOK ==
    /\ caller \in Caller
    /\ manager \in {"up", "down"}
    /\ appDomainVerifyMgrServiceProxy \in {"none", "live", "dead", "unwatched"}
    /\ identity \in [Thread -> {"caller", "self"}]
    /\ pc \in {"unlocked", "available", "send", "receive"}
    /\ served \in Answer \cup {None}
    /\ error \in BOOLEAN
    /\ reply \in Parcel
    /\ answer \in Answer
    /\ TypeOKWhiteList

(***************************************************************************)
(* Who is told of a success was served so, with the same items: not when   *)
(* the request was dropped, refused or lost, the reply too long, or the    *)
(* manager dead.  QueryAssociatedBundleNames alone may say E_OK, with no   *)
(* names, when SendRequest failed.                                         *)
(***************************************************************************)
SuccessIsServed ==
    pc = "unlocked" /\ answer.ok =>
        \/ answer = served
        \/ call.method = "QueryAssociatedBundleNames" /\ error /\ answer.n = 0

(***************************************************************************)
(* A call leaves its thread with the identity it had, whatever became of   *)
(* the call; only QueryAppDetailsWant may leave it another one.            *)
(***************************************************************************)
IdentityIsRestored ==
    [][pc # "unlocked" /\ pc' = "unlocked" =>
         \/ identity'[call.thread] = call.identity
         \/ call.method = "QueryAppDetailsWant"]_vars
===============================================================================
