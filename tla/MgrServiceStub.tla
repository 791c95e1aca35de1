---------------------------- MODULE MgrServiceStub ----------------------------
(***************************************************************************)
(* MgrServiceStub: which calls reach the manager, which it refuses, and    *)
(* what the stub writes into the reply.  A caller is the kind of process   *)
(* that calls; a result is what the handler returns: a success or not, and *)
(* a number of items.                                                      *)
(***************************************************************************)
EXTENDS MgrServiceProxy

(* "agent" is the agent's process and "sa" any other native one; "system"  *)
(* is a system app with GET_DOMAIN_VERIFY_INFO, "app" any other app.       *)
Caller == {"agent", "sa", "system", "app"}

IsSACall(caller) == caller \in {"agent", "sa"}

IsAgentCall(caller) == caller = "agent"

(* A native process has the permission or not. *)
CheckPermission(caller) ==
    CASE caller = "system" -> {TRUE} [] caller = "app" -> {FALSE} [] OTHER -> BOOLEAN
-----------------------------------------------------------------------------
(* The requests with an array: one that is too long is dropped, and the    *)
(* stub returns false, which is ERR_OK.                                    *)
WithArray == {"VerifyDomain", "FilterAbilities", "UpdateWhiteListUrls"}

Dropped(method, size) == method \in WithArray /\ IsInvalidParcelArraySize(size)

(* The hosts of a result: too many are an error the caller is told of. *)
ReadVerifyResultInfo(size) == ~IsInvalidParcelArraySize(size)

Unreadable(method, size) ==
    method = "SaveDomainVerifyStatus" /\ ~ReadVerifyResultInfo(size)

WithSize == WithArray \cup {"SaveDomainVerifyStatus"}

(* What the manager's handler may return.  A refused call changes nothing. *)
Results(allowed, sizes) ==
    {Failed} \cup (IF TRUE \in allowed THEN {Told(TRUE, n) : n \in sizes} ELSE {})

SAOnly(caller, sizes) == Results({IsSACall(caller)}, sizes)
-----------------------------------------------------------------------------
Nothing(result) == <<>>

Flag(result) == <<result.ok>>

FlagAndSize(result) == <<result.ok, result.n>>

OnVerifyDomain(result) == Nothing(result)

OnClearDomainVerifyStatus(result) == Flag(result)

OnFilterAbilities(result) == FlagAndSize(result)

OnQueryDomainVerifyStatus(result) == FlagAndSize(result)

OnQueryAllDomainVerifyStatus(result) == FlagAndSize(result)

OnSaveDomainVerifyStatus(result) == Flag(result)

OnIsAtomicServiceUrl(result) == Flag(result)

OnUpdateWhiteListUrls(result) == Nothing(result)

OnConvertToExplicitWant(result) == Nothing(result)

OnQueryAssociatedDomains(result) == FlagAndSize(result)

OnQueryAssociatedBundleNames(result) == FlagAndSize(result)

OnPopDeferredLink(result) == FlagAndSize(result)

OnGetDeferredLink(result) == FlagAndSize(result)

OnQueryAppDetailsWant(result) == FlagAndSize(result)

OnIsShortUrl(result) == Flag(result)

OnConvertFromShortUrl(result) == Nothing(result)

OnQueryAbilityInfos(result) == FlagAndSize(result)
-----------------------------------------------------------------------------
OnRemoteRequest(method, result) ==
    CASE method = "QueryDomainVerifyStatus" -> OnQueryDomainVerifyStatus(result)
      [] method = "VerifyDomain" -> OnVerifyDomain(result)
      [] method = "ClearDomainVerifyStatus" -> OnClearDomainVerifyStatus(result)
      [] method = "FilterAbilities" -> OnFilterAbilities(result)
      [] method = "QueryAllDomainVerifyStatus" -> OnQueryAllDomainVerifyStatus(result)
      [] method = "SaveDomainVerifyStatus" -> OnSaveDomainVerifyStatus(result)
      [] method = "IsAtomicServiceUrl" -> OnIsAtomicServiceUrl(result)
      [] method = "ConvertToExplicitWant" -> OnConvertToExplicitWant(result)
      [] method = "UpdateWhiteListUrls" -> OnUpdateWhiteListUrls(result)
      [] method = "QueryAssociatedDomains" -> OnQueryAssociatedDomains(result)
      [] method = "QueryAssociatedBundleNames" -> OnQueryAssociatedBundleNames(result)
      [] method = "PopDeferredLink" -> OnPopDeferredLink(result)
      [] method = "QueryAppDetailsWant" -> OnQueryAppDetailsWant(result)
      [] method = "IsShortUrl" -> OnIsShortUrl(result)
      [] method = "ConvertFromShortUrl" -> OnConvertFromShortUrl(result)
      [] method = "QueryAbilityInfos" -> OnQueryAbilityInfos(result)
      [] method = "GetDeferredLink" -> OnGetDeferredLink(result)
===============================================================================
