---------------------------- MODULE DomainVerifier ----------------------------
(***************************************************************************)
(* DomainVerifier: the verdict on one host, from the answer to the request *)
(* for its asset file, and the priority the file gives the app.  Pure      *)
(* functions of the answer and of the app's AppVerifyBaseInfo; the empty   *)
(* string stands for a field that is not set, there as here.               *)
(***************************************************************************)
EXTENDS Integers, FiniteSetsExt

PRIORITY_UNSET == -1000
PRIORITY_MIN == -100
PRIORITY_MAX == 100

InnerVerifyStatus ==
    {"UNKNOWN", "STATE_SUCCESS", "STATE_FAIL", "FAILURE_REDIRECT",
     "FAILURE_CLIENT_ERROR", "FAILURE_REJECTED_BY_SERVER",
     "FAILURE_HTTP_UNKNOWN", "FORBIDDEN_FOREVER", "PRE_INSTALLED"}

(* The response codes the comparisons below tell apart. *)
OK == 200
MULT_CHOICE == 300
BAD_REQUEST == 400
INTERNAL_ERROR == 500

(* What JsonUtil::Parse yields for text without a list of apps. *)
NotParsed == [apps |-> <<>>, parsed |-> FALSE]
Parsed(apps) == [apps |-> apps, parsed |-> TRUE]

Verdict(status, priority) == [status |-> status, priority |-> priority]

GetVerifyStatusFromHttpError(code) ==
    CASE code \in MULT_CHOICE .. (BAD_REQUEST - 1) -> "FAILURE_REDIRECT"
      [] code \in BAD_REQUEST .. (INTERNAL_ERROR - 1) -> "FAILURE_CLIENT_ERROR"
      [] code >= INTERNAL_ERROR -> "FAILURE_REJECTED_BY_SERVER"
      [] OTHER -> "FAILURE_HTTP_UNKNOWN"

(* Both fields are set, and differ. *)
Differs(x, y) == x # "" /\ y # "" /\ x # y

(* An entry that ends the search by identifier, one way or the other. *)
Decides(e, base) ==
    /\ e.appIdentifier # ""
    /\ \/ e.appIdentifier = base.appIdentifier
       \/ base.bundleName # "" /\ e.bundleName = base.bundleName

Names(e, base) ==
    /\ e.appIdentifier = base.appIdentifier
    /\ ~Differs(base.bundleName, e.bundleName)
    /\ ~Differs(base.fingerprint, e.fingerprint)

VerifyHostWithAppIdentifier(apps, base) ==
    LET deciding == {i \in DOMAIN apps : Decides(apps[i], base)}
    IN  IF base.appIdentifier = "" \/ deciding = {}
          THEN Verdict("UNKNOWN", base.priority)
        ELSE IF Names(apps[Min(deciding)], base)
          THEN Verdict("STATE_SUCCESS", apps[Min(deciding)].priority)
        ELSE Verdict("STATE_FAIL", base.priority)

VerifyHostWithBundleName(apps, base) ==
    LET naming == {i \in DOMAIN apps : /\ apps[i].bundleName = base.bundleName
                                       /\ apps[i].fingerprint = base.fingerprint}
    IN  IF base.bundleName = "" \/ base.fingerprint = "" \/ naming = {}
          THEN Verdict("STATE_FAIL", base.priority)
          ELSE Verdict("STATE_SUCCESS", apps[Min(naming)].priority)

VerifyHost(code, file, base) ==
    IF code # OK THEN Verdict(GetVerifyStatusFromHttpError(code), base.priority)
    ELSE IF ~file.parsed THEN Verdict("STATE_FAIL", base.priority)
    ELSE LET byId == VerifyHostWithAppIdentifier(file.apps, base)
         IN  IF byId.status = "UNKNOWN"
               THEN VerifyHostWithBundleName(file.apps, base) ELSE byId

(* The check OnPostVerify makes of the priority after VerifyHost. *)
OutOfRange(p) == p < PRIORITY_MIN \/ p > PRIORITY_MAX
===============================================================================
