---------------------------- MODULE MgrClientProofs ----------------------------
(***************************************************************************)
(* Proofs about MgrClient, for any threads, patterns and bounds.  What a   *)
(* reply says is compared with what the handler returned method by method; *)
(* the invariant says which of the two there is while a call is under way. *)
(***************************************************************************)
EXTENDS MgrClient, TLAPS

(* The methods whose answer has items. *)
Many ==
    {"FilterAbilities", "QueryAllDomainVerifyStatus", "QueryAssociatedDomains",
     "QueryAssociatedBundleNames", "QueryAbilityInfos"}

Fits(method, result) == result.n # 0 => method \in Many

LEMMA ToldType == ASSUME NEW ok \in BOOLEAN, NEW n \in Nat PROVE Told(ok, n) \in Answer
  BY DEF Told, Answer

LEMMA TellsOk ==
    ASSUME NEW ok \in BOOLEAN, NEW n \in Nat
    PROVE  /\ Told(ok, n).ok <=> ok
           /\ ok => Told(ok, n).n = n
           /\ ~ok => Told(ok, n).n = 0
  BY DEF Told

(* What is read of each kind of reply. *)
LEMMA ReadNothing ==
    /\ BoolOf(<<>>) = FALSE
    /\ IntOf(<<>>) = TRUE
    /\ SizeOf(<<>>) = 0
    /\ Valid(<<>>) = TRUE
  BY MgrServiceProxyAssumption DEF BoolOf, IntOf, SizeOf, Valid, IsInvalidParcelArraySize

LEMMA ReadFlag ==
    ASSUME NEW ok \in BOOLEAN
    PROVE  /\ <<ok>> # <<>>
           /\ BoolOf(<<ok>>) = ok
           /\ SizeOf(<<ok>>) = 0
  BY DEF BoolOf, SizeOf

LEMMA ReadFlagAndSize ==
    ASSUME NEW ok \in BOOLEAN, NEW n \in Nat
    PROVE  /\ <<ok, n>> # <<>>
           /\ BoolOf(<<ok, n>>) = ok
           /\ IntOf(<<ok, n>>) = ok
           /\ SizeOf(<<ok, n>>) = n
  BY DEF BoolOf, IntOf, SizeOf
-----------------------------------------------------------------------------
(* Without a reply there is no success, but of QueryAssociatedBundleNames. *)
LEMMA NoReplyNoSuccess ==
    ASSUME NEW method \in Method, NEW failed \in BOOLEAN,
           failed \/ method \in WithArray,
           AnswerOf(method, failed, <<>>).ok
    PROVE  method = "QueryAssociatedBundleNames" /\ failed /\ AnswerOf(method, failed, <<>>).n = 0
  BY ReadNothing DEF AnswerOf, Method, WithArray, QueryDomainVerifyStatus, VerifyDomain,
     ClearDomainVerifyStatus, FilterAbilities, QueryAllDomainVerifyStatus,
     SaveDomainVerifyStatus, IsAtomicServiceUrl, ConvertToExplicitWant, UpdateWhiteListUrls,
     QueryAssociatedDomains, QueryAssociatedBundleNames, PopDeferredLink,
     QueryAppDetailsWant, IsShortUrl, ConvertFromShortUrl, QueryAbilityInfos,
     GetDeferredLink, NoAnswer, BoolAnswer, BoolAndArray, IntAndArray, IntAndValue,
     ReadHostVerifyStatusMap, Failed, Told

(* What the stub writes for each kind of reply. *)
Quiet == {"VerifyDomain", "UpdateWhiteListUrls", "ConvertToExplicitWant", "ConvertFromShortUrl"}

FlagOnly == {"ClearDomainVerifyStatus", "SaveDomainVerifyStatus", "IsAtomicServiceUrl", "IsShortUrl"}

LEMMA Writes ==
    ASSUME NEW method \in Method, NEW result \in Answer
    PROVE  OnRemoteRequest(method, result) =
               IF method \in Quiet THEN <<>>
               ELSE IF method \in FlagOnly THEN <<result.ok>>
               ELSE <<result.ok, result.n>>
  BY DEF Method, Quiet, FlagOnly, OnRemoteRequest, Nothing, Flag, FlagAndSize,
     OnVerifyDomain, OnClearDomainVerifyStatus, OnFilterAbilities, OnQueryDomainVerifyStatus,
     OnQueryAllDomainVerifyStatus, OnSaveDomainVerifyStatus, OnIsAtomicServiceUrl,
     OnUpdateWhiteListUrls, OnConvertToExplicitWant, OnQueryAssociatedDomains,
     OnQueryAssociatedBundleNames, OnPopDeferredLink, OnGetDeferredLink,
     OnQueryAppDetailsWant, OnIsShortUrl, OnConvertFromShortUrl, OnQueryAbilityInfos

(* A success read from a whole reply is what the handler returned.         *)
LEMMA SuccessIsRead ==
    ASSUME NEW method \in Method, NEW result \in Answer, Fits(method, result),
           AnswerOf(method, FALSE, OnRemoteRequest(method, result)).ok
    PROVE  AnswerOf(method, FALSE, OnRemoteRequest(method, result)) = result
<1> DEFINE parcel == OnRemoteRequest(method, result)
<1>1. PICK ok \in BOOLEAN, n \in Nat : result = [ok |-> ok, n |-> n]
  BY DEF Answer
<1>2. method \in Many \/ n = 0
  BY <1>1 DEF Fits
<1>3. CASE method \in Quiet
  BY <1>3 DEF Quiet, AnswerOf, Method, QueryDomainVerifyStatus, VerifyDomain,
     ClearDomainVerifyStatus, FilterAbilities, QueryAllDomainVerifyStatus,
     SaveDomainVerifyStatus, IsAtomicServiceUrl, ConvertToExplicitWant, UpdateWhiteListUrls,
     QueryAssociatedDomains, QueryAssociatedBundleNames, PopDeferredLink,
     QueryAppDetailsWant, IsShortUrl, ConvertFromShortUrl, QueryAbilityInfos,
     GetDeferredLink, NoAnswer, BoolAnswer, BoolAndArray, IntAndArray, IntAndValue,
     ReadHostVerifyStatusMap, Failed, Told
<1>4. CASE method \in FlagOnly
  <2>1. parcel = <<ok>>
    BY <1>1, <1>4, Writes DEF Quiet, FlagOnly
  <2>2. AnswerOf(method, FALSE, <<ok>>) = Told(ok, 0)
    BY <1>4, ReadFlag DEF FlagOnly, AnswerOf, Method, QueryDomainVerifyStatus, VerifyDomain,
     ClearDomainVerifyStatus, FilterAbilities, QueryAllDomainVerifyStatus,
     SaveDomainVerifyStatus, IsAtomicServiceUrl, ConvertToExplicitWant, UpdateWhiteListUrls,
     QueryAssociatedDomains, QueryAssociatedBundleNames, PopDeferredLink,
     QueryAppDetailsWant, IsShortUrl, ConvertFromShortUrl, QueryAbilityInfos,
     GetDeferredLink, NoAnswer, BoolAnswer, BoolAndArray, IntAndArray, IntAndValue,
     ReadHostVerifyStatusMap, Failed, Told
  <2>3. n = 0
    BY <1>2, <1>4 DEF FlagOnly, Many
  <2> QED
    BY <1>1, <2>1, <2>2, <2>3 DEF Told
<1>5. CASE method \notin Quiet \cup FlagOnly
  <2>1. parcel = <<ok, n>>
    BY <1>1, <1>5, Writes
  <2>2. AnswerOf(method, FALSE, <<ok, n>>).ok =>
            ok /\ AnswerOf(method, FALSE, <<ok, n>>) = Told(TRUE, n)
    BY <1>2, <1>5, ReadFlagAndSize DEF Quiet, FlagOnly, Many, AnswerOf, Method, QueryDomainVerifyStatus, VerifyDomain,
     ClearDomainVerifyStatus, FilterAbilities, QueryAllDomainVerifyStatus,
     SaveDomainVerifyStatus, IsAtomicServiceUrl, ConvertToExplicitWant, UpdateWhiteListUrls,
     QueryAssociatedDomains, QueryAssociatedBundleNames, PopDeferredLink,
     QueryAppDetailsWant, IsShortUrl, ConvertFromShortUrl, QueryAbilityInfos,
     GetDeferredLink, NoAnswer, BoolAnswer, BoolAndArray, IntAndArray, IntAndValue,
     ReadHostVerifyStatusMap, Failed, Told
  <2> QED
    BY <1>1, <2>1, <2>2 DEF Told
<1> QED
  BY <1>3, <1>4, <1>5

(* Every reply the stub writes, and every answer read from one, is typed. *)
LEMMA WritesParcel ==
    ASSUME NEW method \in Method, NEW result \in Answer
    PROVE  OnRemoteRequest(method, result) \in Parcel
  BY Writes DEF Answer, Parcel

LEMMA AnswerType ==
    ASSUME NEW method \in Method, NEW failed \in BOOLEAN, NEW parcel \in Parcel
    PROVE  AnswerOf(method, failed, parcel) \in Answer
<1>1. SizeOf(parcel) \in Nat
  BY DEF SizeOf, Parcel
<1>2. BoolOf(parcel) \in BOOLEAN /\ IntOf(parcel) \in BOOLEAN
  BY DEF BoolOf, IntOf, Parcel
<1> QED
  BY <1>1, <1>2, ToldType DEF Valid, IsInvalidParcelArraySize, AnswerOf, Method, QueryDomainVerifyStatus, VerifyDomain,
     ClearDomainVerifyStatus, FilterAbilities, QueryAllDomainVerifyStatus,
     SaveDomainVerifyStatus, IsAtomicServiceUrl, ConvertToExplicitWant, UpdateWhiteListUrls,
     QueryAssociatedDomains, QueryAssociatedBundleNames, PopDeferredLink,
     QueryAppDetailsWant, IsShortUrl, ConvertFromShortUrl, QueryAbilityInfos,
     GetDeferredLink, NoAnswer, BoolAnswer, BoolAndArray, IntAndArray, IntAndValue,
     ReadHostVerifyStatusMap, Failed, Told
-----------------------------------------------------------------------------
(* The conjuncts of TypeOK, those of Boolean variables apart. *)
Types ==
    /\ caller \in Caller
    /\ manager \in {"up", "down"}
    /\ appDomainVerifyMgrServiceProxy \in {"none", "live", "dead", "unwatched"}
    /\ identity \in [Thread -> {"caller", "self"}]
    /\ pc \in {"unlocked", "available", "send", "receive"}
    /\ served \in Answer \cup {None}
    /\ reply \in Parcel
    /\ answer \in Answer

Flags == error \in BOOLEAN

WhiteListTypes ==
    /\ whiteListSet \in SUBSET Seq(Piece)
    /\ defaultWhiteUrl \in {Default, Empty}
    /\ stored \in SUBSET Piece
    /\ last \in SUBSET Seq(Piece)

WhiteListFlags ==
    /\ loaded \in BOOLEAN
    /\ preferences \in BOOLEAN
    /\ saved \in BOOLEAN
    /\ reloaded \in BOOLEAN

(* The call that holds the lock. *)
Calling ==
    pc # "unlocked" =>
        /\ call.thread \in Thread
        /\ call.method \in Method
        /\ call.list \in SUBSET Seq(Piece)
        /\ call.identity \in {"caller", "self"}

(* Its thread has the identity it came with, or the method put it aside. *)
Identities ==
    /\ pc = "available" => identity[call.thread] = call.identity
    /\ pc \in {"send", "receive"} /\ call.method \notin ResetsCallingIdentity
        => identity[call.thread] = call.identity

(* Nothing has come yet; or there was no reply, and then an error, or a    *)
(* request that was dropped; or the reply has what the handler returned.   *)
Received ==
    /\ pc \in {"available", "send"} => reply = <<>> /\ served = None /\ ~error
    /\ pc = "receive" =>
        \/ reply = <<>> /\ error
        \/ reply = <<>> /\ call.method \in WithArray
        \/ /\ ~error
           /\ served \in Answer
           /\ Fits(call.method, served)
           /\ reply = OnRemoteRequest(call.method, served)

(* The inductive invariant. *)
IInv ==
    /\ Types /\ Flags /\ WhiteListTypes /\ WhiteListFlags
    /\ Calling /\ Identities /\ Received /\ SuccessIsServed

LEMMA InitIInv == Init => IInv
<1> SUFFICES ASSUME Init PROVE IInv
  OBVIOUS
<1>1. Types
  BY ToldType DEF Init, Types, Parcel, Failed
<1>2. Flags /\ WhiteListFlags
  BY Zenon DEF Init, InitWhiteList, Flags, WhiteListFlags
<1>3. WhiteListTypes
  BY DEF Init, InitWhiteList, WhiteListTypes
<1>4. Calling /\ Identities /\ Received
  BY DEF Init, Calling, Identities, Received
<1>5. SuccessIsServed
  BY TellsOk DEF Init, SuccessIsServed, Failed
<1> QED
  BY <1>1, <1>2, <1>3, <1>4, <1>5 DEF IInv

(* What the white list is after each of its operations. *)
LEMMA WhiteListKept ==
    ASSUME WhiteListTypes, WhiteListFlags, UNCHANGED whiteListVars
    PROVE  WhiteListTypes' /\ WhiteListFlags'
<1>1. WhiteListTypes'
  BY DEF WhiteListTypes, whiteListVars
<1>2. WhiteListFlags'
  BY Zenon DEF WhiteListFlags, whiteListVars
<1> QED
  BY <1>1, <1>2

LEMMA WhiteListEnds ==
    ASSUME WhiteListTypes, WhiteListFlags, EndWhiteList
    PROVE  WhiteListTypes' /\ WhiteListFlags'
<1>1. WhiteListTypes'
  BY DEF WhiteListTypes, EndWhiteList
<1>2. WhiteListFlags'
  BY Zenon DEF WhiteListFlags, EndWhiteList
<1> QED
  BY <1>1, <1>2

LEMMA WhiteListLoads ==
    ASSUME WhiteListTypes, WhiteListFlags, Load
    PROVE  WhiteListTypes' /\ WhiteListFlags'
<1>1. Split(stored) \in SUBSET Seq(Piece)
  <2>1. \A p \in Piece : <<p>> \in Seq(Piece)
    OBVIOUS
  <2> QED
    BY <2>1 DEF WhiteListTypes, Split
<1>2. WhiteListTypes'
  BY <1>1 DEF WhiteListTypes, Load, LoadDefault, LoadDynamic
<1>3. preferences' \in BOOLEAN
  BY Zenon DEF Load, LoadDynamic
<1>4. WhiteListFlags'
  BY Zenon, <1>3 DEF WhiteListFlags, Load
<1> QED
  BY <1>2, <1>4

LEMMA WhiteListUpdates ==
    ASSUME WhiteListTypes, WhiteListFlags, NEW list \in SUBSET Seq(Piece), UpdateWhiteList(list)
    PROVE  WhiteListTypes' /\ WhiteListFlags'
<1>1. Filtered(list) \in SUBSET Seq(Piece)
  BY DEF Filtered
<1>2. Pieces(Filtered(list)) \in SUBSET Piece
  BY <1>1 DEF Pieces
<1>3. WhiteListTypes'
  BY <1>1, <1>2 DEF WhiteListTypes, UpdateWhiteList, Replace, Save, NotSaved
<1>4. saved' \in BOOLEAN
  BY Zenon DEF UpdateWhiteList, Save, NotSaved
<1>5. WhiteListFlags'
  BY Zenon, <1>4 DEF WhiteListFlags, UpdateWhiteList, Replace
<1> QED
  BY <1>3, <1>5

(* Each kind of result the handlers give fits its method. *)
LEMMA ResultFits ==
    ASSUME NEW method \in Method, NEW result \in ResultsOf(method)
    PROVE  result \in Answer /\ Fits(method, result)
<1>1. ASSUME NEW allowed, NEW sizes \in SUBSET Nat, NEW r \in Results(allowed, sizes)
      PROVE  r \in Answer /\ (r.n # 0 => \E n \in sizes : n # 0)
  <2>1. CASE r = Failed
    BY <2>1, ToldType, TellsOk DEF Failed
  <2>2. CASE \E n \in sizes : r = Told(TRUE, n)
    BY <2>2, ToldType, TellsOk
  <2> QED
    BY <1>1, <2>1, <2>2 DEF Results
<1>2. Sizes \in SUBSET Nat /\ {0} \in SUBSET Nat
  BY MgrClientAssumption DEF Sizes
<1>3. \E allowed, sizes : /\ sizes \in SUBSET Nat
                         /\ result \in Results(allowed, sizes)
                         /\ (method \in Many \/ sizes = {0})
  BY <1>2 DEF ResultsOf, SAOnly, Many
<1>4. result \in Answer /\ (result.n # 0 => method \in Many)
  <2>1. PICK allowed, sizes : /\ sizes \in SUBSET Nat
                             /\ result \in Results(allowed, sizes)
                             /\ (method \in Many \/ sizes = {0})
    BY <1>3
  <2>2. result \in Answer /\ (result.n # 0 => \E n \in sizes : n # 0)
    BY <1>1, <2>1
  <2> QED
    BY <2>1, <2>2
<1> QED
  BY <1>4 DEF Fits

(* A handler has run, and its reply arrives. *)
LEMMA ReplyIsRead ==
    ASSUME IInv, Arrives, NEW result \in Answer, Fits(call.method, result), Replies(result)
    PROVE  Types' /\ Flags' /\ Calling' /\ Identities' /\ Received' /\ SuccessIsServed'
<1> USE DEF IInv
<1>1. call.method \in Method
  BY DEF Arrives, Calling
<1>2. Types'
  BY <1>1, WritesParcel DEF Types, Replies
<1>3. Flags'
  BY Zenon DEF Flags, Replies
<1>4. Calling' /\ Identities' /\ SuccessIsServed'
  BY DEF Arrives, Calling, Identities, SuccessIsServed, Replies
<1>5. Received'
  BY DEF Arrives, Received, Replies
<1> QED
  BY <1>2, <1>3, <1>4, <1>5

(* Receive: what is told of the call is what it came to. *)
LEMMA ReceiveIInv == ASSUME IInv, Receive PROVE IInv'
<1> USE DEF IInv
<1>1. /\ call.method \in Method
      /\ call.thread \in Thread
      /\ error \in BOOLEAN
      /\ reply \in Parcel
  BY DEF Receive, Calling, Flags, Types
<1>2. answer' = AnswerOf(call.method, error, reply) /\ answer' \in Answer
  BY <1>1, AnswerType DEF Receive
<1>3. Types'
  <2>1. identity' \in [Thread -> {"caller", "self"}]
    BY DEF Receive, Types, Calling
  <2> QED
    BY <1>2, <2>1 DEF Receive, Unlock, Types
<1>4. Flags'
  BY Zenon DEF Receive, Unlock, Flags
<1>5. Calling' /\ Identities' /\ Received'
  BY DEF Receive, Unlock, Calling, Identities, Received
<1>6. SuccessIsServed'
  <2> SUFFICES ASSUME answer'.ok
               PROVE  \/ answer' = served
                      \/ call.method = "QueryAssociatedBundleNames" /\ error /\ answer'.n = 0
    BY DEF SuccessIsServed, Receive, Unlock
  <2>1. CASE reply = <<>> /\ (error \/ call.method \in WithArray)
    BY <1>1, <1>2, <2>1, NoReplyNoSuccess
  <2>2. CASE /\ ~error
             /\ served \in Answer
             /\ Fits(call.method, served)
             /\ reply = OnRemoteRequest(call.method, served)
    BY <1>1, <1>2, <2>2, SuccessIsRead
  <2> QED
    BY <2>1, <2>2 DEF Received, Receive
<1>7. WhiteListTypes' /\ WhiteListFlags'
  BY WhiteListKept DEF Receive
<1> QED
  BY <1>3, <1>4, <1>5, <1>6, <1>7

(* Every step keeps the invariant. *)
LEMMA NextIInv == IInv /\ [Next]_vars => IInv'
<1> SUFFICES ASSUME IInv, [Next]_vars PROVE IInv'
  OBVIOUS
<1> USE DEF IInv
<1>1. ASSUME NEW t \in Thread, NEW method \in Method, NEW size, NEW list \in SUBSET Seq(Piece),
             Begin(t, method, size, list)
      PROVE  IInv'
  <2>1. Types'
    BY <1>1, ToldType DEF Begin, Types, Parcel, Failed
  <2>2. Flags'
    BY Zenon, <1>1 DEF Begin, Flags
  <2>3. Calling' /\ Identities' /\ Received' /\ SuccessIsServed'
    BY <1>1 DEF Begin, Calling, Identities, Received, SuccessIsServed, Types
  <2>4. WhiteListTypes' /\ WhiteListFlags'
    BY <1>1, WhiteListKept DEF Begin
  <2> QED
    BY <2>1, <2>2, <2>3, <2>4
<1>2. ASSUME NEW t \in Thread, Call(t) PROVE IInv'
  <2>1. {} \in SUBSET Seq(Piece) /\ WithSize \subseteq Method /\ "UpdateWhiteListUrls" \in Method
    BY DEF WithSize, WithArray, Method
  <2>2. \A list \in Lists : list \in SUBSET Seq(Piece)
    BY MgrClientAssumption
  <2> QED
    BY <1>1, <1>2, <2>1, <2>2 DEF Call
<1>3. ASSUME NEW t \in Thread, Serve(t) PROVE IInv'
  <2>1. Types'
    BY <1>3 DEF Serve, Types
  <2>2. Flags'
    BY Zenon, <1>3 DEF Serve, Flags
  <2>3. Calling' /\ Identities' /\ Received' /\ SuccessIsServed'
    BY <1>3 DEF Serve, Calling, Identities, Received, SuccessIsServed, Types
  <2>4. WhiteListTypes' /\ WhiteListFlags'
    BY <1>3, WhiteListKept DEF Serve
  <2> QED
    BY <2>1, <2>2, <2>3, <2>4
<1>4. CASE IsServiceAvailable
  <2>1. Types'
    BY <1>4 DEF IsServiceAvailable, Types
  <2>2. Flags'
    BY Zenon, <1>4 DEF IsServiceAvailable, Flags
  <2>3. Calling' /\ Identities' /\ Received' /\ SuccessIsServed'
    BY <1>4 DEF IsServiceAvailable, Calling, Identities, Received, SuccessIsServed
  <2>4. WhiteListTypes' /\ WhiteListFlags'
    BY <1>4, WhiteListKept DEF IsServiceAvailable
  <2> QED
    BY <2>1, <2>2, <2>3, <2>4
<1>5. CASE ConnectService
  <2>1. Types'
    BY <1>5 DEF ConnectService, Types, callVars
  <2>2. Flags'
    BY Zenon, <1>5 DEF ConnectService, Flags, callVars
  <2>3. Calling' /\ Identities' /\ Received' /\ SuccessIsServed'
    BY <1>5 DEF ConnectService, Calling, Identities, Received, SuccessIsServed, callVars
  <2>4. WhiteListTypes' /\ WhiteListFlags'
    BY <1>5, WhiteListKept, WhiteListEnds DEF ConnectService
  <2> QED
    BY <2>1, <2>2, <2>3, <2>4
<1>6. CASE ConnectFails
  <2>1. Types'
    BY <1>6, ToldType DEF ConnectFails, Unlock, Types, Failed
  <2>2. Flags'
    BY Zenon, <1>6 DEF ConnectFails, Unlock, Flags
  <2>3. Calling' /\ Identities' /\ Received'
    BY <1>6 DEF ConnectFails, Unlock, Calling, Identities, Received
  <2>4. SuccessIsServed'
    BY <1>6, TellsOk DEF ConnectFails, SuccessIsServed, Failed
  <2>5. WhiteListTypes' /\ WhiteListFlags'
    BY <1>6, WhiteListKept DEF ConnectFails
  <2> QED
    BY <2>1, <2>2, <2>3, <2>4, <2>5
<1>7. CASE DropRequest \/ RefuseRequest
  <2>1. Types'
    BY <1>7 DEF DropRequest, RefuseRequest, Types
  <2>2. Flags'
    BY Zenon, <1>7 DEF DropRequest, RefuseRequest, Flags
  <2>3. Calling' /\ Identities' /\ SuccessIsServed'
    BY <1>7 DEF DropRequest, RefuseRequest, Arrives, Calling, Identities, SuccessIsServed
  <2>4. Received'
    BY <1>7 DEF DropRequest, RefuseRequest, Arrives, Dropped, Received
  <2>5. WhiteListTypes' /\ WhiteListFlags'
    BY <1>7, WhiteListKept DEF DropRequest, RefuseRequest
  <2> QED
    BY <2>1, <2>2, <2>3, <2>4, <2>5
<1>8. CASE InitConfigMgr
  <2>1. Types'
    BY <1>8 DEF InitConfigMgr, Types, callVars
  <2>2. Flags'
    BY Zenon, <1>8 DEF InitConfigMgr, Flags, callVars
  <2>3. Calling' /\ Identities' /\ Received' /\ SuccessIsServed'
    BY <1>8 DEF InitConfigMgr, Calling, Identities, Received, SuccessIsServed, callVars
  <2>4. WhiteListTypes' /\ WhiteListFlags'
    BY <1>8, WhiteListLoads DEF InitConfigMgr
  <2> QED
    BY <2>1, <2>2, <2>3, <2>4
<1>9. CASE HandleUpdateWhiteListUrls
  <2> DEFINE result == Told(TRUE, 0)
  <2>1. result \in Answer /\ Fits(call.method, result)
    BY ToldType, TellsOk DEF Fits
  <2>2. call.list \in SUBSET Seq(Piece)
    BY <1>9 DEF HandleUpdateWhiteListUrls, Arrives, Calling
  <2>3. WhiteListTypes' /\ WhiteListFlags'
    BY <1>9, <2>2, WhiteListUpdates DEF HandleUpdateWhiteListUrls
  <2> QED
    BY <1>9, <2>1, <2>3, ReplyIsRead DEF HandleUpdateWhiteListUrls
<1>10. CASE HandleIsAtomicServiceUrl
  <2>1. PICK ok \in BOOLEAN : Replies(Told(ok, 0))
    BY <1>10 DEF HandleIsAtomicServiceUrl, IsInWhiteList
  <2>2. Told(ok, 0) \in Answer /\ Fits(call.method, Told(ok, 0))
    BY ToldType, TellsOk DEF Fits
  <2>3. WhiteListTypes' /\ WhiteListFlags'
    BY <1>10, WhiteListKept DEF HandleIsAtomicServiceUrl
  <2> QED
    BY <1>10, <2>1, <2>2, <2>3, ReplyIsRead DEF HandleIsAtomicServiceUrl
<1>11. CASE Handle
  <2>1. call.method \in Method
    BY <1>11 DEF Handle, Arrives, Calling
  <2>2. PICK result \in ResultsOf(call.method) : Replies(result)
    BY <1>11 DEF Handle
  <2>3. result \in Answer /\ Fits(call.method, result)
    BY <2>1, ResultFits
  <2>4. WhiteListTypes' /\ WhiteListFlags'
    BY <1>11, WhiteListKept DEF Handle
  <2> QED
    BY <1>11, <2>2, <2>3, <2>4, ReplyIsRead DEF Handle
<1>12. CASE SendRequestFails
  <2>1. Types'
    BY <1>12 DEF SendRequestFails, Types, Parcel
  <2>2. Flags'
    BY Zenon, <1>12 DEF SendRequestFails, Flags
  <2>3. Calling' /\ Identities' /\ SuccessIsServed'
    BY <1>12 DEF SendRequestFails, Calling, Identities, SuccessIsServed
  <2>4. Received'
    BY <1>12 DEF SendRequestFails, Received
  <2>5. WhiteListTypes' /\ WhiteListFlags'
    BY <1>12, WhiteListKept DEF SendRequestFails
  <2> QED
    BY <2>1, <2>2, <2>3, <2>4, <2>5
<1>13. CASE Receive
  BY <1>13, ReceiveIInv
<1>14. CASE Die
  <2>1. Types'
    BY <1>14 DEF Die, Types, callVars
  <2>2. Flags'
    BY Zenon, <1>14 DEF Die, Flags, callVars
  <2>3. Calling' /\ Identities' /\ Received' /\ SuccessIsServed'
    BY <1>14 DEF Die, Calling, Identities, Received, SuccessIsServed, callVars
  <2>4. WhiteListTypes' /\ WhiteListFlags'
    BY <1>14, WhiteListEnds DEF Die
  <2> QED
    BY <2>1, <2>2, <2>3, <2>4
<1>15. CASE Start \/ OnRemoteSaDied
  <2>1. Types'
    BY <1>15 DEF Start, OnRemoteSaDied, Types, callVars
  <2>2. Flags'
    BY Zenon, <1>15 DEF Start, OnRemoteSaDied, Flags, callVars
  <2>3. Calling' /\ Identities' /\ Received' /\ SuccessIsServed'
    BY <1>15 DEF Start, OnRemoteSaDied, Calling, Identities, Received, SuccessIsServed, callVars
  <2>4. WhiteListTypes' /\ WhiteListFlags'
    BY <1>15, WhiteListKept DEF Start, OnRemoteSaDied
  <2> QED
    BY <2>1, <2>2, <2>3, <2>4
<1>16. CASE UNCHANGED vars
  <2>1. Types'
    BY <1>16 DEF vars, Types, callVars
  <2>2. Flags'
    BY Zenon, <1>16 DEF vars, Flags, callVars
  <2>3. Calling' /\ Identities' /\ Received' /\ SuccessIsServed'
    BY <1>16 DEF vars, Calling, Identities, Received, SuccessIsServed, callVars
  <2>4. WhiteListTypes' /\ WhiteListFlags'
    BY <1>16, WhiteListKept DEF vars
  <2> QED
    BY <2>1, <2>2, <2>3, <2>4
<1> QED
  BY <1>2, <1>3, <1>4, <1>5, <1>6, <1>7, <1>8, <1>9, <1>10, <1>11, <1>12, <1>13,
     <1>14, <1>15, <1>16 DEF Next
-----------------------------------------------------------------------------
(* The invariant: what is known of the call under way and of its reply.    *)
THEOREM SpecIInv == Spec => []IInv
  BY InitIInv, NextIInv, PTL DEF Spec

(* Type correctness for any threads, patterns, lists and array bound.      *)
THEOREM SpecTypeOK == Spec => []TypeOK
<1>1. IInv => TypeOK
  BY Zenon DEF IInv, Types, Flags, WhiteListTypes, WhiteListFlags, TypeOKWhiteList, TypeOK
<1> QED
  BY <1>1, SpecIInv, PTL

(* Whatever is dropped, refused or lost, and whenever the manager dies, who *)
(* is told of a success was served so; QueryAssociatedBundleNames apart.   *)
THEOREM SpecSuccessIsServed == Spec => []SuccessIsServed
<1>1. IInv => SuccessIsServed
  BY DEF IInv
<1> QED
  BY <1>1, SpecIInv, PTL

(* A call that ends leaves its thread the identity it came with, but for   *)
(* QueryAppDetailsWant: ConnectFails had not changed it, Receive restores  *)
(* it or had nothing to restore.                                           *)
THEOREM SpecIdentityIsRestored == Spec => IdentityIsRestored
<1> DEFINE Restored ==
      pc # "unlocked" /\ pc' = "unlocked" =>
          \/ identity'[call.thread] = call.identity
          \/ call.method = "QueryAppDetailsWant"
<1>1. ASSUME IInv, [Next]_vars PROVE [Restored]_vars
  <2> SUFFICES ASSUME pc # "unlocked", pc' = "unlocked"
               PROVE  \/ identity'[call.thread] = call.identity
                      \/ call.method = "QueryAppDetailsWant"
    OBVIOUS
  <2>1. ConnectFails \/ Receive
    BY <1>1 DEF Next, vars, callVars, Call, Begin, Serve, IsServiceAvailable, ConnectService,
       DropRequest, RefuseRequest, InitConfigMgr, HandleUpdateWhiteListUrls,
       HandleIsAtomicServiceUrl, Handle, Replies, SendRequestFails, Die, Start, OnRemoteSaDied
  <2>2. CASE ConnectFails
    BY <1>1, <2>2 DEF ConnectFails, IInv, Identities
  <2>3. CASE Receive
    <3>1. call.thread \in Thread /\ identity \in [Thread -> {"caller", "self"}]
      BY <1>1, <2>3 DEF Receive, IInv, Calling, Types
    <3>2. CASE call.method \in SetsCallingIdentity
      BY <2>3, <3>1, <3>2 DEF Receive
    <3>3. CASE call.method \notin SetsCallingIdentity
      BY <1>1, <2>3, <3>3 DEF Receive, IInv, Identities, SetsCallingIdentity
    <3> QED
      BY <3>2, <3>3
  <2> QED
    BY <2>1, <2>2, <2>3
<1>2. IInv /\ [Next]_vars => [Restored]_vars
  BY <1>1
<1> QED
  BY <1>2, SpecIInv, PTL DEF Spec, IdentityIsRestored
-----------------------------------------------------------------------------
(***************************************************************************)
(* What becomes of the white list.  Of the manager's steps only four kinds *)
(* concern it; between them the file has what was saved, and a list that   *)
(* was loaded is what the file had.                                        *)
(***************************************************************************)
WhiteListStep ==
    \/ UNCHANGED whiteListVars
    \/ EndWhiteList
    \/ ~loaded /\ Load
    \/ loaded /\ \E list \in SUBSET Seq(Piece) : UpdateWhiteList(list)

SavedList == saved => stored = Pieces(last)

FirstList == ~loaded /\ ~reloaded => last = {} /\ stored = {}

GivenList == loaded /\ ~reloaded => whiteListSet = last

LoadedList == loaded /\ reloaded /\ preferences => whiteListSet = Split(stored)

WhiteListInv == Empty \notin last /\ SavedList /\ FirstList /\ GivenList /\ LoadedList

LEMMA NextWhiteListStep == ASSUME IInv, [Next]_vars PROVE WhiteListStep
<1>1. CASE HandleUpdateWhiteListUrls
  <2>1. call.list \in SUBSET Seq(Piece)
    BY <1>1 DEF IInv, HandleUpdateWhiteListUrls, Arrives, Calling
  <2>2. loaded /\ UpdateWhiteList(call.list)
    BY Zenon, <1>1 DEF HandleUpdateWhiteListUrls
  <2> QED
    BY <2>1, <2>2 DEF WhiteListStep
<1>2. CASE InitConfigMgr
  BY Zenon, <1>2 DEF InitConfigMgr, WhiteListStep
<1>3. CASE Die \/ ConnectService
  BY Zenon, <1>3 DEF Die, ConnectService, WhiteListStep
<1>4. CASE UNCHANGED whiteListVars
  BY Zenon, <1>4 DEF WhiteListStep
<1>5. \/ HandleUpdateWhiteListUrls \/ InitConfigMgr \/ Die \/ ConnectService
      \/ UNCHANGED whiteListVars
  BY Zenon DEF Next, vars, Call, Begin, Serve, IsServiceAvailable, ConnectFails,
     DropRequest, RefuseRequest, HandleIsAtomicServiceUrl, Handle, SendRequestFails,
     Receive, Start, OnRemoteSaDied
<1> QED
  BY <1>1, <1>2, <1>3, <1>4, <1>5

LEMMA InitWhiteListInv == Init => WhiteListInv
<1> SUFFICES ASSUME Init PROVE WhiteListInv
  OBVIOUS
<1>1. last = {} /\ stored = {} /\ Pieces({}) = {}
  BY DEF Init, InitWhiteList, Pieces
<1>2. ~loaded /\ ~reloaded
  BY Zenon DEF Init, InitWhiteList
<1> QED
  BY Zenon, <1>1, <1>2 DEF WhiteListInv, SavedList, FirstList, GivenList, LoadedList

LEMMA StepWhiteListInv ==
    ASSUME WhiteListTypes, WhiteListInv, WhiteListStep
    PROVE  WhiteListInv'
<1> USE DEF WhiteListInv, SavedList, FirstList, GivenList, LoadedList
<1>1. CASE UNCHANGED whiteListVars
  BY Zenon, <1>1 DEF whiteListVars, Pieces, Split
<1>2. CASE EndWhiteList
  BY Zenon, <1>2 DEF EndWhiteList, Pieces
<1>3. CASE ~loaded /\ Load
  <2>1. UNCHANGED <<stored, last, saved, reloaded>> /\ loaded'
    BY Zenon, <1>3 DEF Load
  <2>2. \/ preferences' /\ whiteListSet' = Split(stored)
        \/ ~preferences' /\ whiteListSet' = {}
    <3>1. LoadDynamic
      BY Zenon, <1>3 DEF Load
    <3>2. \/ preferences' = TRUE /\ whiteListSet' = Split(stored)
          \/ preferences' = FALSE /\ whiteListSet' = {}
      BY Zenon, <3>1 DEF LoadDynamic
    <3> QED
      BY <3>2
  <2>3. Split({}) = {}
    BY DEF Split
  <2>4. SavedList' /\ FirstList' /\ Empty \notin last'
    BY Zenon, <2>1 DEF Pieces
  <2>5. GivenList'
    BY Zenon, <1>3, <2>1, <2>2, <2>3
  <2>6. LoadedList'
    BY Zenon, <2>1, <2>2 DEF Split
  <2> QED
    BY <2>4, <2>5, <2>6
<1>4. ASSUME loaded, NEW list \in SUBSET Seq(Piece), UpdateWhiteList(list)
      PROVE  WhiteListInv'
  <2>1. whiteListSet' = Filtered(list) /\ last' = Filtered(list) /\ ~reloaded' /\ loaded' = loaded
    BY Zenon, <1>4 DEF UpdateWhiteList, Replace
  <2>2. Empty \notin Filtered(list)
    BY DEF Filtered
  <2>3. \/ stored' = Pieces(Filtered(list))
        \/ ~saved'
    BY Zenon, <1>4 DEF UpdateWhiteList, Save, NotSaved
  <2>4. SavedList'
    BY Zenon, <2>1, <2>3 DEF Pieces
  <2>5. FirstList' /\ GivenList' /\ LoadedList'
    BY Zenon, <1>4, <2>1
  <2> QED
    BY Zenon, <2>1, <2>2, <2>4, <2>5
<1> QED
  BY <1>1, <1>2, <1>3, <1>4 DEF WhiteListStep

(* Patterns without a comma are what they are split into. *)
LEMMA SplitOfPieces ==
    ASSUME NEW list \in SUBSET Seq(Piece), Empty \notin list, \A p \in list : ~ (Len(p) > 1)
    PROVE  Split(Pieces(list)) = list
<1>1. ASSUME NEW p \in list PROVE Len(p) = 1 /\ DOMAIN p = {1} /\ p = <<p[1]>>
  <2>1. p \in Seq(Piece) /\ p # <<>> /\ ~ (Len(p) > 1)
    BY DEF Empty
  <2>2. Len(p) \in Nat /\ Len(p) # 0 /\ DOMAIN p = 1 .. Len(p)
    BY <2>1
  <2>3. Len(p) = 1 /\ DOMAIN p = {1}
    BY <2>1, <2>2
  <2>4. p = <<p[1]>>
    BY <2>1, <2>3
  <2> QED
    BY <2>3, <2>4
<1>2. ASSUME NEW x, x \in Split(Pieces(list)) PROVE x \in list
  <2>1. PICK y \in Pieces(list) : x = <<y>>
    BY <1>2 DEF Split
  <2>2. PICK p \in list : y \in {p[i] : i \in DOMAIN p}
    BY <2>1 DEF Pieces
  <2>3. y = p[1]
    BY <1>1, <2>2
  <2> QED
    BY <1>1, <2>1, <2>3
<1>3. ASSUME NEW x \in list PROVE x \in Split(Pieces(list))
  <2>1. x[1] \in Pieces(list)
    BY <1>1 DEF Pieces
  <2> QED
    BY <1>1, <2>1 DEF Split
<1> QED
  BY <1>2, <1>3

LEMMA WhiteListInvKeeps == WhiteListTypes /\ WhiteListInv => ListIsKept
<1> SUFFICES ASSUME WhiteListTypes, WhiteListInv, ~ ListIsKept PROVE FALSE
  OBVIOUS
<1>1. loaded /\ whiteListSet # last
  BY Zenon DEF ListIsKept
<1>2. reloaded
  BY Zenon, <1>1 DEF WhiteListInv, GivenList
<1>3. saved /\ preferences /\ ~ ((\E p \in last : Len(p) > 1) /\ whiteListSet = Split(Pieces(last)))
  BY Zenon, <1>1, <1>2 DEF ListIsKept
<1>4. whiteListSet = Split(Pieces(last))
  BY Zenon, <1>1, <1>2, <1>3 DEF WhiteListInv, SavedList, LoadedList
<1>5. \A p \in last : ~ (Len(p) > 1)
  BY Zenon, <1>3, <1>4
<1>6. Split(Pieces(last)) = last
  BY <1>5, SplitOfPieces DEF WhiteListTypes, WhiteListInv
<1> QED
  BY <1>1, <1>4, <1>6

(* The manager answers from the list last given to it, after any number of *)
(* restarts and for any patterns, but for the three cases named.           *)
THEOREM SpecListIsKept == Spec => []ListIsKept
<1>1. Init => IInv /\ WhiteListInv
  BY InitIInv, InitWhiteListInv
<1>2. IInv /\ WhiteListInv /\ [Next]_vars => (IInv /\ WhiteListInv)'
  BY NextIInv, NextWhiteListStep, StepWhiteListInv DEF IInv
<1>3. IInv /\ WhiteListInv => ListIsKept
  BY WhiteListInvKeeps DEF IInv
<1> QED
  BY <1>1, <1>2, <1>3, PTL DEF Spec
===============================================================================
