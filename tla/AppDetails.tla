------------------------------ MODULE AppDetails ------------------------------
(***************************************************************************)
(* AppDetails: which bundle has a details page for a url.  The table is    *)
(* written by the vendor's library, in the agent process; the manager      *)
(* answers from it through a cache that is emptied every CACHE_TIME_S.     *)
(* Queries run on several threads: reading the clock, the look into the    *)
(* cache, the query of the table and the put are steps of their own.       *)
(***************************************************************************)
EXTENDS Integers, SequencesExt

CONSTANTS
    Url, Bundle, Thread,
    Prefix,         \* TABLE_EXT_INFO: what the uri of a want begins with
    MAX_CACHE_CNT, CACHE_TIME_S,
    MaxTime,        \* bound: seconds the clock counts
    Nothing

ASSUME AppDetailsAssumption ==
    /\ MAX_CACHE_CNT \in Nat \ {0}
    /\ CACHE_TIME_S \in Nat
    /\ MaxTime \in Nat
    /\ Nothing \notin Bundle \cup Prefix \cup Url

VARIABLES
    now,             \* the system clock, which is not set back
    details,         \* APP_DETAILS_TABLE: the bundle its rows give for a url, or
                     \* Nothing; or no table
    meta,            \* its row in META_DATA
    cache,           \* cache_ of the LRU cache; lruMap_ is its index
    cacheBeginTime,
    agWantUrl,
    query,           \* of each thread: time is what it read from the clock, age that
                     \* of an answer from the cache at this time (history)
    recency          \* history: urls used since the cache was emptied, last first

detailsVars == <<now, details, meta, cache, cacheBeginTime, agWantUrl, query, recency>>

NoTable == <<>>

Rows == [Url -> Bundle \cup {Nothing}]

IdleQuery == [pc |-> "idle", url |-> Nothing, bundleName |-> Nothing, time |-> 0, age |-> 0]

InitDetails ==
    /\ now = CACHE_TIME_S + 1  \* long after cacheBeginTime
    /\ details = NoTable
    /\ meta = Nothing
    /\ cache = <<>>
    /\ cacheBeginTime = 0
    /\ agWantUrl = Nothing
    /\ query = [t \in Thread |-> IdleQuery]
    /\ recency = <<>>
-----------------------------------------------------------------------------
(* LruCacheUtil; put is history, the time the value was put. *)
Keys == {cache[i].key : i \in DOMAIN cache}

At(url) == CHOOSE i \in DOMAIN cache : cache[i].key = url

ToFront(url) == <<cache[At(url)]>> \o RemoveAt(cache, At(url))

Used(url) == recency' = <<url>> \o RemoveFirst(recency, url)

\* mutant: a hit leaves the key where it is
GetKeepsPlace(url) ==
    /\ url \in Keys
    /\ UNCHANGED cache
    /\ Used(url)

Get(url) ==
    /\ url \in Keys
    /\ cache' = ToFront(url)
    /\ Used(url)

Full == Len(cache) = MAX_CACHE_CNT

(* A key that is there keeps its value. *)
Put(url, value) ==
    /\ cache' = IF url \in Keys THEN ToFront(url)
                ELSE <<[key |-> url, value |-> value, put |-> now]>>
                        \o (IF Full THEN Front(cache) ELSE cache)
    /\ Used(url)

\* mutant: the clock is restarted, the cache is not emptied
ClearKeeps(time) ==
    /\ cacheBeginTime' = time
    /\ UNCHANGED <<cache, recency>>

Clear(time) ==
    /\ cacheBeginTime' = time
    /\ cache' = <<>>
    /\ recency' = <<>>

Expired(time) == time - cacheBeginTime > CACHE_TIME_S

Step(t, q) == query' = [query EXCEPT ![t] = q]

(* The clock is read before cacheMutex_ is taken. *)
ReadClock(t, url) ==
    /\ query[t].pc = "idle"
    /\ Step(t, [IdleQuery EXCEPT !.pc = "cache", !.url = url, !.time = now])
    /\ UNCHANGED <<now, details, meta, cache, cacheBeginTime, agWantUrl, recency>>

(* Under cacheMutex_: the cache is emptied, or has the url, or has not. *)
QueryAppDetailsWantByCache(t) ==
    /\ query[t].pc = "cache"
    /\ UNCHANGED <<now, details, meta, agWantUrl>>
    /\ LET url == query[t].url
           time == query[t].time
           missed == [IdleQuery EXCEPT !.pc = "rdb", !.url = url]
       IN  \/ /\ Expired(time)
              /\ Clear(time)
              /\ Step(t, missed)
           \/ /\ ~Expired(time)
              /\ Get(url)
              /\ Step(t, [pc |-> "want", url |-> url, bundleName |-> cache[At(url)].value,
                          time |-> time, age |-> time - cache[At(url)].put])
              /\ UNCHANGED cacheBeginTime
           \/ /\ ~Expired(time)
              /\ url \notin Keys
              /\ Step(t, missed)
              /\ UNCHANGED <<cache, cacheBeginTime, recency>>

\* mutant: what the filter did not match is an answer too
QueryDataByDomainUnfiltered(t) ==
    /\ query[t].pc = "rdb"
    /\ LET q == query[t]
       IN  \/ Step(t, IdleQuery)
           \/ /\ details # NoTable
              /\ Step(t, [q EXCEPT !.pc = "put", !.bundleName = details[q.url]])
    /\ UNCHANGED <<now, details, meta, cache, cacheBeginTime, agWantUrl, recency>>

(* The store may not open or the query fail; the filter may match no row:  *)
(* all are QUERY_FAIL.                                                     *)
QueryDataByDomain(t) ==
    /\ query[t].pc = "rdb"
    /\ LET q == query[t]
       IN  \/ Step(t, IdleQuery)
           \/ /\ details # NoTable
              /\ details[q.url] # Nothing
              /\ Step(t, [q EXCEPT !.pc = "put", !.bundleName = details[q.url]])
    /\ UNCHANGED <<now, details, meta, cache, cacheBeginTime, agWantUrl, recency>>

(* Not under cacheMutex_: the cache may have been emptied meanwhile, or    *)
(* have another thread's value.                                            *)
PutBundleName(t) ==
    /\ query[t].pc = "put"
    /\ Put(query[t].url, query[t].bundleName)
    /\ Step(t, [query[t] EXCEPT !.pc = "want"])
    /\ UNCHANGED <<now, details, meta, cacheBeginTime, agWantUrl>>

(* The prefix is read until one is found, and never again; a want is made  *)
(* without it as well.  The manager refuses a bundle with a verify status. *)
AddInfoToWant(t) ==
    /\ query[t].pc = "want"
    /\ Step(t, IdleQuery)
    /\ agWantUrl' \in (IF agWantUrl # Nothing THEN {agWantUrl} ELSE {Nothing, meta})
    /\ UNCHANGED <<now, details, meta, cache, cacheBeginTime, recency>>
-----------------------------------------------------------------------------
(* What the vendor's callback does to the table, in a transaction or not,  *)
(* is not in the repository; Commit and RollBack may fail.  The manager    *)
(* finds any rows, or no table.                                            *)
ExecWithTrans(rows) ==
    /\ details' = rows
    /\ UNCHANGED <<now, meta, cache, cacheBeginTime, agWantUrl, query, recency>>

UpdateMetaData(prefix) ==
    /\ meta' = prefix
    /\ UNCHANGED <<now, details, cache, cacheBeginTime, agWantUrl, query, recency>>

TickClock ==
    /\ now < MaxTime
    /\ now' = now + 1
    /\ UNCHANGED <<details, meta, cache, cacheBeginTime, agWantUrl, query, recency>>

NextDetails ==
    \/ \E t \in Thread :
        \/ \E url \in Url : ReadClock(t, url)
        \/ QueryAppDetailsWantByCache(t)
        \/ QueryDataByDomain(t) \/ PutBundleName(t) \/ AddInfoToWant(t)
    \/ \E rows \in Rows \cup {NoTable} : ExecWithTrans(rows)
    \/ \E prefix \in Prefix : UpdateMetaData(prefix)
    \/ TickClock

SpecDetails == InitDetails /\ [][NextDetails]_detailsVars
-----------------------------------------------------------------------------
DetailsTypeOK ==
    /\ now \in Nat
    /\ details \in Rows \cup {NoTable}
    /\ meta \in Prefix \cup {Nothing}
    /\ cache \in Seq([key : Url, value : Bundle, put : Nat])
    /\ cacheBeginTime \in 0 .. now
    /\ agWantUrl \in Prefix \cup {Nothing}
    /\ query \in [Thread -> [pc : {"idle", "cache", "rdb", "put", "want"},
                             url : Url \cup {Nothing}, bundleName : Bundle \cup {Nothing},
                             time : Nat, age : Int]]
    /\ recency \in Seq(Url)

(***************************************************************************)
(* The cache has no url twice, and the urls it has are the last used ones, *)
(* in their order, as many as fit: what threads put after the cache was    *)
(* emptied under them counts as used.                                      *)
(***************************************************************************)
LastUsedStay ==
    /\ Len(cache) = IF Len(recency) < MAX_CACHE_CNT THEN Len(recency) ELSE MAX_CACHE_CNT
    /\ \A i \in DOMAIN cache : cache[i].key = recency[i]

(***************************************************************************)
(* An answer from the cache was put there at most CACHE_TIME_S before its  *)
(* query read the clock, however long it then waited for cacheMutex_ and   *)
(* whoever emptied the cache meanwhile, with an earlier or a later time of *)
(* its own.  The wait comes on top, as does that of the query that put it. *)
(***************************************************************************)
AnswerIsRecent == \A t \in Thread : query[t].age <= CACHE_TIME_S
===============================================================================
