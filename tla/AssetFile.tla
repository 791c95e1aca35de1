------------------------------ MODULE AssetFile ------------------------------
(***************************************************************************)
(* The two loops of DomainVerifier over the apps of an asset file, one     *)
(* entry per step.  DomainVerifier states their outcome in closed form;    *)
(* here the loops run, an entry at a time, over every file of up to        *)
(* MaxApps entries, and each prefix of the file is judged: the verdict as  *)
(* it would be if the file ended there.                                    *)
(***************************************************************************)
EXTENDS DomainVerifier, Sequences

CONSTANTS
    Name,       \* values of an identifier, bundle name or fingerprint, "" included
    Own,        \* values the fields of the app itself take
    Priority,   \* values of an entry's priority
    MaxApps     \* bound: entries of a file

ASSUME AssetFileAssumption ==
    /\ Own \subseteq Name
    /\ Priority \subseteq Int
    /\ MaxApps \in Nat

Entry == [appIdentifier : Name, bundleName : Name, fingerprint : Name,
          priority : Priority]

VARIABLES
    base,       \* appVerifyBaseInfo: who asks
    apps,       \* the entries read so far
    byId,       \* the loop of VerifyHostWithAppIdentifier
    byName      \* the loop of VerifyHostWithBundleName

loopVars == <<base, apps, byId, byName>>
-----------------------------------------------------------------------------
InitLoops ==
    /\ base \in [appIdentifier : Own, bundleName : Own, fingerprint : Own,
                 priority : {PRIORITY_UNSET}]
    /\ apps = <<>>
    /\ byId = Verdict("UNKNOWN", base.priority)
    /\ byName = Verdict("STATE_FAIL", base.priority)

\* mutant: an entry of another app that claims the bundle is passed over
StepByIdPassesClaim(v, e) ==
    IF base.appIdentifier = "" \/ v.status # "UNKNOWN" \/ e.appIdentifier = "" THEN v
    ELSE IF e.appIdentifier = base.appIdentifier
      THEN IF Differs(base.bundleName, e.bundleName)
                \/ Differs(base.fingerprint, e.fingerprint)
             THEN Verdict("STATE_FAIL", base.priority)
             ELSE Verdict("STATE_SUCCESS", e.priority)
    ELSE v

(* The body of the loop over apps: a return ends the loop. *)
StepById(v, e) ==
    IF base.appIdentifier = "" \/ v.status # "UNKNOWN" \/ e.appIdentifier = "" THEN v
    ELSE IF e.appIdentifier = base.appIdentifier
      THEN IF Differs(base.bundleName, e.bundleName)
                \/ Differs(base.fingerprint, e.fingerprint)
             THEN Verdict("STATE_FAIL", base.priority)
             ELSE Verdict("STATE_SUCCESS", e.priority)
    ELSE IF base.bundleName # "" /\ base.bundleName = e.bundleName
      THEN Verdict("STATE_FAIL", base.priority)
    ELSE v

\* mutant: the loop goes on after the entry that verifies the app
StepByNameGoesOn(v, e) ==
    IF base.bundleName = "" \/ base.fingerprint = "" \/ base.bundleName # e.bundleName THEN v
    ELSE IF base.fingerprint = e.fingerprint
      THEN Verdict("STATE_SUCCESS", e.priority)
    ELSE Verdict("STATE_FAIL", base.priority)

StepByName(v, e) ==
    IF base.bundleName = "" \/ base.fingerprint = "" \/ v.status = "STATE_SUCCESS" THEN v
    ELSE IF base.bundleName = e.bundleName /\ base.fingerprint = e.fingerprint
      THEN Verdict("STATE_SUCCESS", e.priority)
    ELSE v

Read(e) ==
    /\ Len(apps) < MaxApps
    /\ apps' = Append(apps, e)
    /\ byId' = StepById(byId, e)
    /\ byName' = StepByName(byName, e)
    /\ UNCHANGED base

NextLoops == \E e \in Entry : Read(e)

SpecLoops == InitLoops /\ [][NextLoops]_loopVars
-----------------------------------------------------------------------------
verdict == IF byId.status = "UNKNOWN" THEN byName ELSE byId

(***************************************************************************)
(* The loops return what the closed form says: the first entry that has    *)
(* the app's identifier, or claims its bundle under another one, decides;  *)
(* without any, some entry with its bundle name and fingerprint must be    *)
(* there, and the first of those gives the priority.                       *)
(***************************************************************************)
LoopsMatchClosedForm == verdict = VerifyHost(OK, Parsed(apps), base)

(***************************************************************************)
(* A host is verified only by an entry that is about this app: it carries  *)
(* its identifier, or, having none that decides, its bundle name and       *)
(* fingerprint; and no entry before it gives the app's bundle to another   *)
(* app.  The priority is that entry's.                                     *)
(***************************************************************************)
SuccessIsEarned ==
    verdict.status = "STATE_SUCCESS" =>
        \E i \in DOMAIN apps :
            LET e == apps[i] IN
            /\ e.priority = verdict.priority
            /\ \/ base.appIdentifier # "" /\ e.appIdentifier = base.appIdentifier
               \/ base.bundleName # "" /\ e.bundleName = base.bundleName
            /\ ~Differs(base.bundleName, e.bundleName)
            /\ base.appIdentifier # "" =>
                \A j \in 1 .. i : ~ /\ Differs(base.appIdentifier, apps[j].appIdentifier)
                                    /\ base.bundleName # ""
                                    /\ apps[j].bundleName = base.bundleName

(***************************************************************************)
(* More entries at the end of a file never turn a success into a failure,  *)
(* unless they give the app's bundle name to another app or repeat its     *)
(* identifier while only bundle name and fingerprint had verified it.      *)
(***************************************************************************)
VerdictIsStable ==
    [][ \/ verdict.status # "STATE_SUCCESS"
        \/ verdict' = verdict
        \/ /\ byId.status = "UNKNOWN"
           /\ Decides(apps'[Len(apps')], base) ]_loopVars
==============================================================================
