--------------------------- MODULE DeferredLinkMgr ---------------------------
(***************************************************************************)
(* DeferredLinkMgr: the links that were opened while no app was there for  *)
(* them, kept until the app is installed and asks, or until they are old.  *)
(* The list caches_ is guarded by cachesMutex_; each critical section is a *)
(* step.  Callers take the time stamp before the lock, and GetDeferredLink *)
(* releases the lock between looking and taking.  The age task runs on the *)
(* runner's own thread.                                                    *)
(*                                                                         *)
(* Time is relative: an entry has an age instead of a time stamp, and the  *)
(* timer counts down.  The unit stands for DELAY_TIME / Delay.             *)
(***************************************************************************)
EXTENDS Integers, SequencesExt

CONSTANTS
    Link,           \* links: domain and url
    Caller,         \* threads that call the manager
    DELAY_TIME,     \* from a post of the age task to its run
    MAX_CACHE_TIME, \* the age at which a link is removed
    MAX_CACHE_SIZE,
    None            \* no age task is posted

ASSUME DeferredLinkAssumption ==
    /\ DELAY_TIME \in Nat \ {0}
    /\ MAX_CACHE_TIME \in Nat \ {0}
    /\ MAX_CACHE_SIZE \in Nat \ {0}
    /\ None \notin Int

(* Ages beyond this one are not told apart. *)
AgeCap == MAX_CACHE_TIME + DELAY_TIME + 1

Older(age) == IF age < AgeCap THEN age + 1 ELSE AgeCap

VARIABLES
    ageHandler, \* the constructor got a runner and a handler
    caches,     \* caches_, with the history kept: time since the entry was put
    timer,      \* time until the posted age task is due
    aging,      \* the runner has dequeued the age task: it waits for the lock
    caller,     \* per caller, where it is in its call
    popped      \* history: per link, how often it was taken since it was put

vars == <<ageHandler, caches, timer, aging, caller, popped>>
-----------------------------------------------------------------------------
Entry(l, age, kept) == [link |-> l, age |-> age, kept |-> kept]

Idle == [pc |-> "idle"]

Init ==
    /\ ageHandler \in BOOLEAN
    /\ caches = <<>>
    /\ timer = None
    /\ aging = FALSE
    /\ caller = [c \in Caller |-> Idle]
    /\ popped = [l \in Link |-> 0]

\* mutant: one unit too late
PostAgeCacheTaskLate == timer' = IF ageHandler THEN DELAY_TIME + 1 ELSE timer

(* RemoveTask, PostTask: a posted task starts over. *)
PostAgeCacheTask == timer' = IF ageHandler THEN DELAY_TIME ELSE timer

(* The list after a loop that erases what is not at an index of keep. *)
Kept(s, keep) ==
    LET kept[n \in 0 .. Len(s)] ==
            IF n = 0 THEN <<>>
            ELSE IF n \in keep THEN Append(kept[n - 1], s[n]) ELSE kept[n - 1]
    IN  kept[Len(s)]

Without(l) == Kept(caches, {i \in DOMAIN caches : caches[i].link # l})

Matching(c) == {i \in DOMAIN caches : caches[i].link \in caller[c].match}

Young == {i \in DOMAIN caches : caches[i].age < MAX_CACHE_TIME}

\* mutant: nothing is evicted from a full cache
CheckNeverFull(s) == s

CheckFullUnlocked(s) == IF Len(s) = MAX_CACHE_SIZE THEN Front(s) ELSE s

(* FilterAbilities makes the DeferredLinkInfo, with the time of the call. *)
FilterAbilities(c, l) ==
    /\ caller[c] = Idle
    /\ caller' = [caller EXCEPT ![c] = [pc |-> "put", link |-> l, age |-> 0]]
    /\ UNCHANGED <<ageHandler, caches, timer, aging, popped>>

\* mutant: a new link goes to the back
PutDeferredLinkAtBack(c) ==
    /\ caller[c].pc = "put"
    /\ IF caches = <<>> THEN PostAgeCacheTask ELSE UNCHANGED timer
    /\ caches' = Append(CheckFullUnlocked(Without(caller[c].link)),
                        Entry(caller[c].link, caller[c].age, 0))
    /\ caller' = [caller EXCEPT ![c] = Idle]
    /\ popped' = [popped EXCEPT ![caller[c].link] = 0]
    /\ UNCHANGED <<ageHandler, aging>>

(* CheckStartTimerUnlocked, CheckRemoveExistedUnlocked, CheckFullUnlocked. *)
PutDeferredLink(c) ==
    /\ caller[c].pc = "put"
    /\ IF caches = <<>> THEN PostAgeCacheTask ELSE UNCHANGED timer
    /\ caches' = <<Entry(caller[c].link, caller[c].age, 0)>>
                    \o CheckFullUnlocked(Without(caller[c].link))
    /\ caller' = [caller EXCEPT ![c] = Idle]
    /\ popped' = [popped EXCEPT ![caller[c].link] = 0]
    /\ UNCHANGED <<ageHandler, aging>>

(* FilterAbilities found an app for the link. *)
RemoveDeferredLink(l) ==
    /\ caches' = Without(l)
    /\ UNCHANGED <<ageHandler, timer, aging, caller, popped>>

(* The first section: match stands for the links in the caller's domains   *)
(* that its abilities accept; an empty cache or no domain returns "".      *)
GetDeferredLink(c, match, resv) ==
    /\ caller[c] = Idle
    /\ caches # <<>>
    /\ caller' = [caller EXCEPT ![c] = [pc |-> "get", match |-> match, resv |-> resv]]
    /\ UNCHANGED <<ageHandler, caches, timer, aging, popped>>

\* mutant: the answered links stay in the cache
TakeDeferredLinkKeeps(c) ==
    LET found == Kept(caches, Matching(c)) IN
    /\ caller[c].pc = "get"
    /\ UNCHANGED caches
    /\ popped' = IF caller[c].resv \/ found = <<>> THEN popped
                 ELSE [popped EXCEPT ![Head(found).link] = @ + 1]
    /\ caller' = [caller EXCEPT ![c] = Idle]
    /\ UNCHANGED <<ageHandler, timer, aging>>

(* The second section: without resv every matching link is removed, and    *)
(* the one nearest to the front is the answer.                             *)
TakeDeferredLink(c) ==
    LET found == Kept(caches, Matching(c)) IN
    /\ caller[c].pc = "get"
    /\ caches' = IF caller[c].resv THEN caches
                 ELSE Kept(caches, DOMAIN caches \ Matching(c))
    /\ popped' = IF caller[c].resv \/ found = <<>> THEN popped
                 ELSE [popped EXCEPT ![Head(found).link] = @ + 1]
    /\ caller' = [caller EXCEPT ![c] = Idle]
    /\ UNCHANGED <<ageHandler, timer, aging>>

(* The runner dequeues the age task when it is due. *)
Fire ==
    /\ timer = 0
    /\ ~aging
    /\ timer' = None
    /\ aging' = TRUE
    /\ UNCHANGED <<ageHandler, caches, caller, popped>>

\* mutant: posts again only if nothing was removed
AgeCacheProcessStops ==
    /\ aging
    /\ aging' = FALSE
    /\ caches' = Kept(caches, Young)
    /\ IF caches' # <<>> /\ caches' = caches THEN PostAgeCacheTask ELSE UNCHANGED timer
    /\ UNCHANGED <<ageHandler, caller, popped>>

\* mutant: looks at the oldest entry only
AgeCacheProcessBack ==
    /\ aging
    /\ aging' = FALSE
    /\ caches' = IF caches # <<>> /\ Last(caches).age >= MAX_CACHE_TIME
                   THEN Front(caches) ELSE caches
    /\ IF caches' # <<>> THEN PostAgeCacheTask ELSE UNCHANGED timer
    /\ UNCHANGED <<ageHandler, caller, popped>>

AgeCacheProcess ==
    /\ aging
    /\ aging' = FALSE
    /\ caches' = Kept(caches, Young)
    /\ IF caches' # <<>> THEN PostAgeCacheTask ELSE UNCHANGED timer
    /\ UNCHANGED <<ageHandler, caller, popped>>

(* Time passes, but the runner is on time.  A caller may be slow. *)
Tick ==
    /\ timer # 0
    /\ ~aging
    /\ timer' = IF timer = None THEN None ELSE timer - 1
    /\ caches' = [i \in DOMAIN caches |->
        Entry(caches[i].link, Older(caches[i].age), Older(caches[i].kept))]
    /\ caller' = [c \in Caller |-> IF caller[c].pc = "put"
        THEN [caller[c] EXCEPT !.age = Older(@)] ELSE caller[c]]
    /\ UNCHANGED <<ageHandler, aging, popped>>

Next ==
    \/ \E c \in Caller :
        \/ \E l \in Link : FilterAbilities(c, l)
        \/ \E match \in SUBSET Link, resv \in BOOLEAN : GetDeferredLink(c, match, resv)
        \/ PutDeferredLink(c) \/ TakeDeferredLink(c)
    \/ \E l \in Link : RemoveDeferredLink(l)
    \/ Fire \/ AgeCacheProcess \/ Tick

Spec == Init /\ [][Next]_vars
-----------------------------------------------------------------------------
TypeOK ==
    /\ ageHandler \in BOOLEAN
    /\ caches \in Seq([link : Link, age : 0 .. AgeCap, kept : 0 .. AgeCap])
    /\ timer \in 0 .. DELAY_TIME \cup {None}
    /\ aging \in BOOLEAN
    /\ \A c \in Caller : caller[c].pc \in {"idle", "put", "get"}
    /\ popped \in [Link -> Nat]

(***************************************************************************)
(* The cache never exceeds its size, although the size is compared with    *)
(* == and the eviction comes before the insertion, and holds a link once.  *)
(***************************************************************************)
CacheIsBounded ==
    /\ Len(caches) <= MAX_CACHE_SIZE
    /\ \A i, j \in DOMAIN caches : caches[i].link = caches[j].link => i = j

(***************************************************************************)
(* While there is a link the age task is posted or running: it is not lost *)
(* when the cache empties and fills again around a run of it.              *)
(***************************************************************************)
AgeTaskIsAlive == ageHandler /\ caches # <<>> => timer # None \/ aging

(***************************************************************************)
(* No link stays beyond MAX_CACHE_TIME by as much as the period of the age *)
(* task, however the calls renew, remove and take other links.             *)
(***************************************************************************)
LinksAge ==
    ageHandler => \A i \in DOMAIN caches : caches[i].kept < MAX_CACHE_TIME + DELAY_TIME

(***************************************************************************)
(* "newly in front, older in back": the list is ordered by the time of the *)
(* put, so what is evicted is the oldest and what is answered the newest.  *)
(***************************************************************************)
NewestFirst ==
    \A i, j \in DOMAIN caches : i < j => caches[i].kept <= caches[j].kept

(***************************************************************************)
(* Of callers that take links without resv at the same time, only one gets *)
(* a given link, until it is put again.                                    *)
(***************************************************************************)
TakenOnce == \A l \in Link : popped[l] <= 1
==============================================================================
