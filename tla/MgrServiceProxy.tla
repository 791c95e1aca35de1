---------------------------- MODULE MgrServiceProxy ----------------------------
(***************************************************************************)
(* MgrServiceProxy: what the caller of each method of the manager is told. *)
(* An answer is a success or not, with the number of items it has.         *)
(*                                                                         *)
(* error says that SendRequest failed, and reply is what was read of the   *)
(* reply parcel: <<>>, a result, or a result and a number of items.        *)
(***************************************************************************)
EXTENDS Integers, Sequences, FiniteSets

CONSTANT MAX_PARCEL_ARRAY_SIZE

ASSUME MgrServiceProxyAssumption == MAX_PARCEL_ARRAY_SIZE \in Nat

IsInvalidParcelArraySize(size) == size > MAX_PARCEL_ARRAY_SIZE

Answer == [ok : BOOLEAN, n : Nat]

Parcel == {<<>>} \cup {<<ok>> : ok \in BOOLEAN} \cup (BOOLEAN \X Nat)

Told(ok, n) == [ok |-> ok, n |-> IF ok THEN n ELSE 0]

Failed == Told(FALSE, 0)
-----------------------------------------------------------------------------
(* What is read past the end of a parcel is false or 0, and 0 is E_OK. *)
BoolOf(reply) == reply # <<>> /\ reply[1]

IntOf(reply) == reply = <<>> \/ reply[1]

SizeOf(reply) == IF Len(reply) < 2 THEN 0 ELSE reply[2]

Valid(reply) == ~IsInvalidParcelArraySize(SizeOf(reply))

NoAnswer == Failed

BoolAnswer(error, reply) == Told(~error /\ BoolOf(reply), 0)

BoolAndArray(error, reply) ==
    Told(~error /\ BoolOf(reply) /\ Valid(reply), SizeOf(reply))

IntAndArray(reply) == Told(IntOf(reply) /\ Valid(reply), SizeOf(reply))

(* The map of a bundle, of which there may be any number; the size is that *)
(* of the largest.                                                         *)
ReadHostVerifyStatusMap(reply) == ~IsInvalidParcelArraySize(SizeOf(reply))

(* The read of what follows the result is checked. *)
IntAndValue(reply) == Told(reply # <<>> /\ IntOf(reply), 0)
-----------------------------------------------------------------------------
VerifyDomain(error, reply) == NoAnswer

ClearDomainVerifyStatus(error, reply) == BoolAnswer(error, reply)

FilterAbilities(error, reply) == BoolAndArray(error, reply)

QueryDomainVerifyStatus(error, reply) == BoolAnswer(error, reply)

QueryAllDomainVerifyStatus(error, reply) ==
    Told(~error /\ BoolOf(reply) /\ ReadHostVerifyStatusMap(reply), SizeOf(reply))

SaveDomainVerifyStatus(error, reply) == BoolAnswer(error, reply)

IsAtomicServiceUrl(error, reply) == BoolAnswer(error, reply)

UpdateWhiteListUrls(error, reply) == NoAnswer

ConvertToExplicitWant(error, reply) == NoAnswer

\* mutant: the error is logged, and the reply read all the same
QueryAssociatedDomainsGoesOn(error, reply) == IntAndArray(reply)

QueryAssociatedDomains(error, reply) ==
    IF error THEN Failed ELSE IntAndArray(reply)

(* The error is logged, and the reply read all the same. *)
QueryAssociatedBundleNames(error, reply) == IntAndArray(reply)

PopDeferredLink(error, reply) == IntAndValue(reply)

GetDeferredLink(error, reply) == IntAndValue(reply)

QueryAppDetailsWant(error, reply) == IntAndValue(reply)

IsShortUrl(error, reply) == BoolAnswer(error, reply)

ConvertFromShortUrl(error, reply) == NoAnswer

QueryAbilityInfos(error, reply) == BoolAndArray(error, reply)
-----------------------------------------------------------------------------
Method ==
    {"QueryDomainVerifyStatus", "VerifyDomain",
     "ClearDomainVerifyStatus", "FilterAbilities",
     "QueryAllDomainVerifyStatus", "SaveDomainVerifyStatus",
     "IsAtomicServiceUrl", "ConvertToExplicitWant",
     "UpdateWhiteListUrls", "QueryAssociatedDomains",
     "QueryAssociatedBundleNames", "PopDeferredLink",
     "QueryAppDetailsWant", "IsShortUrl", "ConvertFromShortUrl",
     "QueryAbilityInfos", "GetDeferredLink"}

AnswerOf(method, error, reply) ==
    CASE method = "QueryDomainVerifyStatus" -> QueryDomainVerifyStatus(error, reply)
      [] method = "VerifyDomain" -> VerifyDomain(error, reply)
      [] method = "ClearDomainVerifyStatus" -> ClearDomainVerifyStatus(error, reply)
      [] method = "FilterAbilities" -> FilterAbilities(error, reply)
      [] method = "QueryAllDomainVerifyStatus" -> QueryAllDomainVerifyStatus(error, reply)
      [] method = "SaveDomainVerifyStatus" -> SaveDomainVerifyStatus(error, reply)
      [] method = "IsAtomicServiceUrl" -> IsAtomicServiceUrl(error, reply)
      [] method = "ConvertToExplicitWant" -> ConvertToExplicitWant(error, reply)
      [] method = "UpdateWhiteListUrls" -> UpdateWhiteListUrls(error, reply)
      [] method = "QueryAssociatedDomains" -> QueryAssociatedDomains(error, reply)
      [] method = "QueryAssociatedBundleNames" -> QueryAssociatedBundleNames(error, reply)
      [] method = "PopDeferredLink" -> PopDeferredLink(error, reply)
      [] method = "QueryAppDetailsWant" -> QueryAppDetailsWant(error, reply)
      [] method = "IsShortUrl" -> IsShortUrl(error, reply)
      [] method = "ConvertFromShortUrl" -> ConvertFromShortUrl(error, reply)
      [] method = "QueryAbilityInfos" -> QueryAbilityInfos(error, reply)
      [] method = "GetDeferredLink" -> GetDeferredLink(error, reply)
===============================================================================
