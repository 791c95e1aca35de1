----------------------------- MODULE CachesProofs -----------------------------
(***************************************************************************)
(* Proofs about the manager's two caches: the deferred links, of           *)
(* DeferredLinkMgr, and the details of apps, of AppDetails; for any links, *)
(* urls, callers and threads, and any sizes and times.                     *)
(***************************************************************************)
EXTENDS DeferredLinkMgr, AppDetails, WellFoundedInduction, TLAPS

(* A set of naturals that is not empty has a least element. *)
LEMMA LeastNat ==
    ASSUME NEW S \in SUBSET Nat, S # {}
    PROVE  \E m \in S : \A i \in S : m <= i
<1>1. PICK m \in S : \A i \in S : ~ (<<i, m>> \in OpToRel(<, Nat))
  BY WFMin, NatLessThanWellFounded
<1>2. OpToRel(<, Nat) = {ss \in Nat \X Nat : ss[1] < ss[2]}
  BY DEF OpToRel
<1>3. ASSUME NEW i \in S PROVE m <= i
  <2>1. ~ (<<i, m>> \in {ss \in Nat \X Nat : ss[1] < ss[2]})
    BY <1>1, <1>2
  <2>. QED
    BY <2>1
<1>. QED
  BY <1>3

(* f is the recursive function of Kept up to n. *)
IsKept(f, s, keep, n) ==
    f = [k \in 0 .. n |->
            IF k = 0 THEN <<>>
            ELSE IF k \in keep THEN Append(f[k - 1], s[k]) ELSE f[k - 1]]

(* There is such a function, for any list: there is no least n without.    *)
LEMMA KeptExists ==
    ASSUME NEW s, NEW keep
    PROVE  \A n \in Nat : \E f : IsKept(f, s, keep, n)
<1>. DEFINE bad == {n \in Nat : ~ \E f : IsKept(f, s, keep, n)}
<1>1. SUFFICES ASSUME bad # {} PROVE FALSE
  OBVIOUS
<1>2. PICK m \in bad : \A i \in bad : m <= i
  <2>. HIDE DEF bad
  <2>1. bad \in SUBSET Nat
    BY DEF bad
  <2>. QED
    BY <1>1, <2>1, LeastNat
<1>3. m \in Nat /\ ~ \E f : IsKept(f, s, keep, m)
  BY <1>2
<1>4. CASE m = 0
  <2>1. IsKept([k \in 0 .. 0 |-> <<>>], s, keep, 0)
    BY DEF IsKept
  <2>. QED
    BY <1>3, <1>4, <2>1
<1>5. CASE m # 0
  <2>1. PICK f : IsKept(f, s, keep, m - 1)
    BY <1>2, <1>5
  <2>. DEFINE g == [k \in 0 .. m |->
            IF k = m THEN IF m \in keep THEN Append(f[m - 1], s[m]) ELSE f[m - 1]
            ELSE f[k]]
  <2>2. \A k \in 0 .. m - 1 : g[k] = f[k]
    BY <1>3
  <2>3. ASSUME NEW k \in 0 .. m
        PROVE  g[k] = IF k = 0 THEN <<>>
                      ELSE IF k \in keep THEN Append(g[k - 1], s[k]) ELSE g[k - 1]
    <3>1. CASE k = m
      BY <1>3, <1>5, <2>2, <3>1
    <3>2. CASE k # m
      <4>1. k \in 0 .. m - 1
        BY <1>3, <3>2
      <4>2. f[k] = IF k = 0 THEN <<>>
                   ELSE IF k \in keep THEN Append(f[k - 1], s[k]) ELSE f[k - 1]
        BY <2>1, <4>1 DEF IsKept
      <4>3. k # 0 => g[k - 1] = f[k - 1]
        BY <1>3, <2>2, <4>1
      <4>. QED
        BY <2>2, <4>1, <4>2, <4>3
    <3>. QED
      BY <3>1, <3>2
  <2>4. IsKept(g, s, keep, m)
    BY <2>3 DEF IsKept
  <2>. QED
    BY <1>3, <2>4
<1>. QED
  BY <1>4, <1>5

(* So the list that Kept returns is the last value of such a function.     *)
LEMMA KeptUnfolds ==
    ASSUME NEW s, Len(s) \in Nat, NEW keep
    PROVE  \E f : IsKept(f, s, keep, Len(s)) /\ Kept(s, keep) = f[Len(s)]
<1>. DEFINE g == CHOOSE f : IsKept(f, s, keep, Len(s))
<1>1. IsKept(g, s, keep, Len(s))
  BY KeptExists
<1>2. Kept(s, keep) = g[Len(s)]
  BY DEF Kept, IsKept
<1>. QED
  BY <1>1, <1>2

(* t has the entries of s at the indices of at, in their order. *)
Selects(t, s, at) ==
    /\ \A i \in DOMAIN t : \E a \in at : t[i] = s[a]
    /\ \A i, j \in DOMAIN t : i < j => \E a, b \in at : a < b /\ t[i] = s[a] /\ t[j] = s[b]
    /\ \A a \in at : \E i \in DOMAIN t : t[i] = s[a]

LEMMA SelectsOneMore ==
    ASSUME NEW R, NEW t \in Seq(R), NEW s, NEW at \in SUBSET Nat, NEW m \in Nat,
           \A a \in at : a < m, s[m] \in R, Selects(t, s, at)
    PROVE  Selects(Append(t, s[m]), s, at \cup {m})
<1>. DEFINE u == Append(t, s[m])
            n == Len(t) + 1
            more == at \cup {m}
<1>1. /\ DOMAIN u = DOMAIN t \cup {n}
      /\ u[n] = s[m]
      /\ \A i \in DOMAIN t : u[i] = t[i] /\ i < n /\ i \in Nat
      /\ n \in Nat
  OBVIOUS
<1>2. /\ \A i \in DOMAIN t : \E a \in at : t[i] = s[a]
      /\ \A i, j \in DOMAIN t : i < j => \E a, b \in at : a < b /\ t[i] = s[a] /\ t[j] = s[b]
      /\ \A a \in at : \E i \in DOMAIN t : t[i] = s[a]
  BY DEF Selects
<1> HIDE DEF u, n
<1>3. ASSUME NEW i \in DOMAIN u PROVE \E a \in more : u[i] = s[a]
  <2>1. CASE i \in DOMAIN t
    <3>1. PICK a \in at : t[i] = s[a]
      BY <1>2, <2>1
    <3>. QED
      BY <1>1, <2>1, <3>1
  <2>2. CASE i = n
    BY <1>1, <2>2
  <2>. QED
    BY <1>1, <2>1, <2>2
<1>4. ASSUME NEW i \in DOMAIN u, NEW j \in DOMAIN u, i < j
      PROVE  \E a, b \in more : a < b /\ u[i] = s[a] /\ u[j] = s[b]
  <2>1. i \in DOMAIN t
    BY <1>1, <1>4
  <2>2. CASE j \in DOMAIN t
    <3>1. PICK a \in at, b \in at : a < b /\ t[i] = s[a] /\ t[j] = s[b]
      BY <1>2, <1>4, <2>1, <2>2
    <3>. QED
      BY <1>1, <2>1, <2>2, <3>1
  <2>3. CASE j = n
    <3>1. PICK a \in at : t[i] = s[a]
      BY <1>2, <2>1
    <3>. QED
      BY <1>1, <2>1, <2>3, <3>1
  <2>. QED
    BY <1>1, <2>2, <2>3
<1>5. \A a \in more : \E i \in DOMAIN u : u[i] = s[a]
  BY <1>1, <1>2
<1>. QED
  BY <1>3, <1>4, <1>5 DEF Selects, u

(* What the loop of Kept makes of a list: a list of the entries at the     *)
(* kept indices, all of them, in their order.                              *)
LEMMA KeptSelects ==
    ASSUME NEW R, NEW s \in Seq(R), NEW keep \in SUBSET DOMAIN s
    PROVE  /\ Kept(s, keep) \in Seq(R)
           /\ Len(Kept(s, keep)) <= Len(s)
           /\ Selects(Kept(s, keep), s, keep)
<1>1. PICK f : IsKept(f, s, keep, Len(s)) /\ Kept(s, keep) = f[Len(s)]
  BY KeptUnfolds
<1>2. \A k \in 0 .. Len(s) :
        f[k] = IF k = 0 THEN <<>>
               ELSE IF k \in keep THEN Append(f[k - 1], s[k]) ELSE f[k - 1]
  BY <1>1 DEF IsKept
<1>. DEFINE Up(k) == keep \cap 1 .. k
            Good(k) == f[k] \in Seq(R) /\ Len(f[k]) <= k /\ Selects(f[k], s, Up(k))
            bad == {k \in 0 .. Len(s) : ~Good(k)}
<1>3. ASSUME bad # {} PROVE FALSE
  <2>1. PICK m \in bad : \A i \in bad : m <= i
    <3>. HIDE DEF bad
    <3>1. bad \in SUBSET Nat
      BY DEF bad
    <3>. QED
      BY <1>3, <3>1, LeastNat
  <2>2. m \in 0 .. Len(s) /\ ~Good(m)
    BY <2>1
  <2>3. CASE m = 0
    <3>1. f[0] = <<>> /\ Up(0) = {}
      BY <1>2
    <3>2. Good(0)
      BY <3>1 DEF Selects
    <3>. QED
      BY <2>2, <2>3, <3>2
  <2>4. CASE m # 0
    <3>1. m - 1 \in 0 .. Len(s) /\ m \in 1 .. Len(s) /\ Good(m - 1)
      <4>1. m - 1 \in 0 .. Len(s) /\ m \in 1 .. Len(s) /\ ~ (m <= m - 1)
        BY <2>2, <2>4
      <4> HIDE DEF Good
      <4>2. m - 1 \notin bad
        BY <2>1, <4>1
      <4>. QED
        BY <4>1, <4>2
    <3>2. f[m] = IF m \in keep THEN Append(f[m - 1], s[m]) ELSE f[m - 1]
      BY <1>2, <3>1
    <3>3. Up(m) = IF m \in keep THEN Up(m - 1) \cup {m} ELSE Up(m - 1)
      BY <3>1
    <3>4. CASE m \notin keep
      <4> HIDE DEF Up
      <4>1. f[m] = f[m - 1] /\ Up(m) = Up(m - 1)
        BY <3>2, <3>3, <3>4
      <4>2. f[m] \in Seq(R) /\ Len(f[m]) <= m
        BY <3>1, <4>1
      <4>3. Selects(f[m], s, Up(m))
        BY <3>1, <4>1
      <4>. QED
        BY <2>2, <4>2, <4>3
    <3>5. CASE m \in keep
      <4>1. s[m] \in R
        BY <3>1
      <4>2. Up(m - 1) \in SUBSET Nat /\ \A a \in Up(m - 1) : a < m
        BY <3>1
      <4> HIDE DEF Up
      <4>3. f[m - 1] \in Seq(R) /\ Selects(f[m - 1], s, Up(m - 1)) /\ Len(f[m - 1]) <= m - 1
        BY <3>1
      <4>4. Selects(Append(f[m - 1], s[m]), s, Up(m - 1) \cup {m})
        <5>. DEFINE t == f[m - 1]
                    at == Up(m - 1)
        <5> HIDE DEF t, at
        <5>1. /\ t \in Seq(R) /\ at \in SUBSET Nat /\ m \in Nat
              /\ \A a \in at : a < m
              /\ s[m] \in R
              /\ Selects(t, s, at)
          BY <3>1, <4>1, <4>2, <4>3 DEF t, at
        <5>2. Selects(Append(t, s[m]), s, at \cup {m})
          BY <5>1, SelectsOneMore
        <5>. QED
          BY <5>2 DEF t, at
      <4>5. f[m] = Append(f[m - 1], s[m]) /\ Up(m) = Up(m - 1) \cup {m}
        BY <3>2, <3>3, <3>5
      <4>6. Selects(f[m], s, Up(m))
        BY <4>4, <4>5
      <4>7. f[m] \in Seq(R) /\ Len(f[m]) <= m
        BY <3>1, <4>1, <4>3, <4>5
      <4>. QED
        BY <2>2, <4>6, <4>7
    <3>. QED
      BY <3>4, <3>5
  <2>. QED
    BY <2>3, <2>4
<1>4. Good(Len(s))
  <2> HIDE DEF Good
  <2>1. Len(s) \in 0 .. Len(s)
    OBVIOUS
  <2>. QED
    BY <1>3, <2>1
<1>5. Up(Len(s)) = keep
  OBVIOUS
<1>. QED
  BY <1>1, <1>4, <1>5
-----------------------------------------------------------------------------
Calls ==
    {Idle} \cup [pc : {"put"}, link : Link, age : 0 .. AgeCap]
           \cup [pc : {"get"}, match : SUBSET Link, resv : BOOLEAN]

Entries == [link : Link, age : 0 .. AgeCap, kept : 0 .. AgeCap]

Types ==
    /\ caches \in Seq(Entries)
    /\ timer \in 0 .. DELAY_TIME \cup {None}
    /\ caller \in [Caller -> Calls]
    /\ popped \in [Link -> {0, 1}]

Flags == ageHandler \in BOOLEAN /\ aging \in BOOLEAN

(* A link is not younger than it says, and what the timer still has to run *)
(* does not take it beyond the bound.                                      *)
Ages ==
    \A i \in DOMAIN caches :
        /\ caches[i].kept <= caches[i].age
        /\ ageHandler => /\ caches[i].kept < MAX_CACHE_TIME + DELAY_TIME
                         /\ timer # None =>
                                caches[i].kept + timer < MAX_CACHE_TIME + DELAY_TIME

(* What is in the cache has not been taken. *)
NotTaken == \A i \in DOMAIN caches : popped[caches[i].link] = 0

IInv == Types /\ Flags /\ CacheIsBounded /\ AgeTaskIsAlive /\ Ages /\ NewestFirst /\ NotTaken

Distinct(s) == \A i, j \in DOMAIN s : s[i].link = s[j].link => i = j

Ordered(s) == \A i, j \in DOMAIN s : i < j => s[i].kept <= s[j].kept

(* What is kept of a list has a link at most once and stays in its order.  *)
LEMMA KeptEntries ==
    ASSUME NEW s \in Seq(Entries), NEW keep \in SUBSET DOMAIN s, Distinct(s), Ordered(s)
    PROVE  /\ Kept(s, keep) \in Seq(Entries)
           /\ Len(Kept(s, keep)) <= Len(s)
           /\ \A i \in DOMAIN Kept(s, keep) : \E a \in keep : Kept(s, keep)[i] = s[a]
           /\ Distinct(Kept(s, keep))
           /\ Ordered(Kept(s, keep))
<1>. DEFINE t == Kept(s, keep)
<1>1. /\ t \in Seq(Entries)
      /\ Len(t) <= Len(s)
      /\ \A i \in DOMAIN t : \E a \in keep : t[i] = s[a]
      /\ \A i, j \in DOMAIN t : i < j => \E a, b \in keep : a < b /\ t[i] = s[a] /\ t[j] = s[b]
  BY KeptSelects DEF Selects
<1> HIDE DEF t
<1>2. Ordered(t)
  <2> SUFFICES ASSUME NEW i \in DOMAIN t, NEW j \in DOMAIN t, i < j
               PROVE  t[i].kept <= t[j].kept
    BY DEF Ordered
  <2>1. PICK a \in keep, b \in keep : a < b /\ t[i] = s[a] /\ t[j] = s[b]
    BY <1>1
  <2> QED
    BY <2>1 DEF Ordered
<1>3. ASSUME NEW i \in DOMAIN t, NEW j \in DOMAIN t, i < j PROVE t[i].link # t[j].link
  <2>1. PICK a \in keep, b \in keep : a < b /\ t[i] = s[a] /\ t[j] = s[b]
    BY <1>1, <1>3
  <2>2. a \in DOMAIN s /\ b \in DOMAIN s /\ a # b
    BY <2>1
  <2> QED
    BY <2>1, <2>2 DEF Distinct
<1>4. Distinct(t)
  <2> SUFFICES ASSUME NEW i \in DOMAIN t, NEW j \in DOMAIN t, t[i].link = t[j].link
               PROVE  i = j
    BY DEF Distinct
  <2>1. ~ (i < j) /\ ~ (j < i)
    BY <1>3
  <2>2. i \in Nat /\ j \in Nat
    BY <1>1
  <2> QED
    BY <2>1, <2>2
<1> QED
  BY <1>1, <1>2, <1>4 DEF t

(* An entry in front of a list. *)
LEMMA InFront ==
    ASSUME NEW R, NEW x \in R, NEW q \in Seq(R)
    PROVE  /\ <<x>> \o q \in Seq(R)
           /\ <<x>> \o q # <<>>
           /\ Len(<<x>> \o q) = Len(q) + 1
           /\ (<<x>> \o q)[1] = x
           /\ \A i \in DOMAIN (<<x>> \o q) :
                    i # 1 => i - 1 \in DOMAIN q /\ (<<x>> \o q)[i] = q[i - 1]
<1>. DEFINE u == <<x>> \o q
<1>1. <<x>> \in Seq(R) /\ Len(<<x>>) = 1 /\ <<x>>[1] = x
  OBVIOUS
<1>2. u \in Seq(R) /\ Len(u) = Len(q) + 1
  BY <1>1
<1>3. u[1] = x /\ u # <<>>
  BY <1>1, <1>2
<1>4. ASSUME NEW i \in DOMAIN u, i # 1 PROVE i - 1 \in DOMAIN q /\ u[i] = q[i - 1]
  BY <1>1, <1>2, <1>4
<1> QED
  BY <1>2, <1>3, <1>4

(* The fields of an entry of a list. *)
LEMMA FieldsOf ==
    ASSUME NEW s \in Seq(Entries), NEW i \in DOMAIN s
    PROVE  s[i].link \in Link /\ s[i].age \in 0 .. AgeCap /\ s[i].kept \in 0 .. AgeCap
<1>1. s[i] \in Entries
  OBVIOUS
<1> QED
  BY <1>1 DEF Entries

(* The list after a put: the new link in front of the others, of which the *)
(* last may have gone.                                                     *)
LEMMA PutEntries ==
    ASSUME NEW others \in Seq(Entries), NEW new \in Link, NEW since \in 0 .. AgeCap,
           Len(others) <= MAX_CACHE_SIZE, Distinct(others), Ordered(others),
           \A i \in DOMAIN others : others[i].link # new
    PROVE  LET put == <<Entry(new, since, 0)>> \o CheckFullUnlocked(others) IN
           /\ put \in Seq(Entries)
           /\ put # <<>>
           /\ Len(put) <= MAX_CACHE_SIZE
           /\ Distinct(put)
           /\ Ordered(put)
           /\ \A i \in DOMAIN put :
                put[i] = Entry(new, since, 0) \/ \E a \in DOMAIN others : put[i] = others[a]
<1>. DEFINE put == <<Entry(new, since, 0)>> \o CheckFullUnlocked(others)
            e == Entry(new, since, 0)
            c == CheckFullUnlocked(others)
<1>1. MAX_CACHE_SIZE \in Nat \ {0} /\ AgeCap \in Nat
  BY DeferredLinkAssumption DEF AgeCap
<1>2. e \in Entries /\ e.link = new /\ e.kept = 0
  BY <1>1 DEF Entry, Entries
<1>3. /\ c \in Seq(Entries)
      /\ Len(c) <= Len(others) /\ Len(c) + 1 <= MAX_CACHE_SIZE
      /\ \A i \in DOMAIN c : i \in DOMAIN others /\ c[i] = others[i]
  BY <1>1 DEF CheckFullUnlocked, Front
<1> HIDE DEF e, c, put
<1>4. /\ put = <<e>> \o c
      /\ put \in Seq(Entries)
      /\ put # <<>>
      /\ Len(put) = Len(c) + 1
      /\ put[1] = e
      /\ \A i \in DOMAIN put : i # 1 => i - 1 \in DOMAIN c /\ put[i] = c[i - 1]
  <2>1. put = <<e>> \o c
    BY DEF e, c, put
  <2>2. e \in Entries /\ c \in Seq(Entries)
    BY <1>2, <1>3
  <2> DEFINE v == <<e>> \o c
  <2>3. /\ v \in Seq(Entries)
        /\ v # <<>>
        /\ Len(v) = Len(c) + 1
        /\ v[1] = e
        /\ \A i \in DOMAIN v : i # 1 => i - 1 \in DOMAIN c /\ v[i] = c[i - 1]
    BY <2>2, InFront
  <2> HIDE DEF v
  <2>4. put = v
    BY <2>1 DEF v
  <2> QED
    BY <2>1, <2>3, <2>4
<1>5. \A i \in DOMAIN put : i # 1 => i - 1 \in DOMAIN others /\ put[i] = others[i - 1]
  BY <1>3, <1>4
<1>6. Distinct(put)
  <2> SUFFICES ASSUME NEW i \in DOMAIN put, NEW j \in DOMAIN put, put[i].link = put[j].link
               PROVE  i = j
    BY DEF Distinct
  <2>1. i \in Nat /\ j \in Nat
    BY <1>4
  <2>2. CASE i # 1 /\ j # 1
    <3>1. i - 1 = j - 1
      BY <1>5, <2>2 DEF Distinct
    <3> QED
      BY <2>1, <3>1
  <2>3. CASE i = 1 /\ j # 1
    BY <1>2, <1>4, <1>5, <2>3
  <2>4. CASE i # 1 /\ j = 1
    BY <1>2, <1>4, <1>5, <2>4
  <2> QED
    BY <2>2, <2>3, <2>4
<1>7. Ordered(put)
  <2> SUFFICES ASSUME NEW i \in DOMAIN put, NEW j \in DOMAIN put, i < j
               PROVE  put[i].kept <= put[j].kept
    BY DEF Ordered
  <2>1. i \in Nat /\ j \in Nat /\ j # 1
    BY <1>4
  <2>2. put[j] = others[j - 1] /\ j - 1 \in DOMAIN others
    BY <1>5, <2>1
  <2>3. CASE i = 1
    <3>1. others[j - 1].kept \in 0 .. AgeCap
      <4>1. others[j - 1] \in Entries
        BY <2>2
      <4> QED
        BY <4>1 DEF Entries
    <3>2. put[i].kept = 0
      BY <1>2, <1>4, <2>3
    <3> QED
      BY <1>1, <2>2, <3>1, <3>2
  <2>4. CASE i # 1
    <3>1. i - 1 \in DOMAIN others /\ put[i] = others[i - 1] /\ i - 1 < j - 1
      BY <1>5, <2>1, <2>4
    <3> QED
      BY <2>2, <3>1 DEF Ordered
  <2> QED
    BY <2>3, <2>4
<1>8. \A i \in DOMAIN put : put[i] = e \/ \E a \in DOMAIN others : put[i] = others[a]
  BY <1>4, <1>5
<1> QED
  BY <1>1, <1>3, <1>4, <1>6, <1>7, <1>8 DEF e, put

LEMMA InitIInv == Init => IInv
<1> SUFFICES ASSUME Init PROVE IInv
  OBVIOUS
<1> USE DEF Init
<1>1. Types
  BY DeferredLinkAssumption DEF Types, Calls
<1>2. Flags
  BY Zenon DEF Flags
<1>3. CacheIsBounded /\ AgeTaskIsAlive /\ Ages /\ NewestFirst /\ NotTaken
  BY DeferredLinkAssumption DEF CacheIsBounded, AgeTaskIsAlive, Ages, NewestFirst, NotTaken
<1> QED
  BY <1>1, <1>2, <1>3 DEF IInv

(* Nothing but a caller's place changes.                                   *)
LEMMA CallerIInv ==
    ASSUME IInv, caller' \in [Caller -> Calls],
           UNCHANGED <<ageHandler, caches, timer, aging, popped>>
    PROVE  IInv'
<1> USE DEF IInv
<1>1. Types' /\ Flags'
  BY DEF Types, Flags
<1>2. CacheIsBounded' /\ AgeTaskIsAlive' /\ Ages' /\ NewestFirst' /\ NotTaken'
  BY DEF CacheIsBounded, AgeTaskIsAlive, Ages, NewestFirst, NotTaken
<1> QED
  BY <1>1, <1>2

(* Entries go, and nothing is taken that stays.                            *)
LEMMA EraseIInv ==
    ASSUME IInv, NEW keep \in SUBSET DOMAIN caches,
           caches' = Kept(caches, keep),
           caller' \in [Caller -> Calls],
           popped' \in [Link -> {0, 1}],
           \A i \in keep : popped'[caches[i].link] = 0,
           UNCHANGED <<ageHandler, timer, aging>>
    PROVE  IInv'
<1>1. caches \in Seq(Entries) /\ Distinct(caches) /\ Ordered(caches)
  BY DEF IInv, Types, CacheIsBounded, Distinct, NewestFirst, Ordered
<1>2. /\ caches' \in Seq(Entries)
      /\ Len(caches') <= Len(caches)
      /\ \A i \in DOMAIN caches' : \E a \in keep : caches'[i] = caches[a]
      /\ Distinct(caches')
      /\ Ordered(caches')
  BY <1>1, KeptEntries
<1>3. caches' # <<>> => caches # <<>>
  BY <1>1, <1>2
<1> USE DEF IInv
<1>4. Types' /\ Flags'
  BY <1>2 DEF Types, Flags
<1>5. CacheIsBounded'
  BY <1>1, <1>2, DeferredLinkAssumption DEF CacheIsBounded, Distinct
<1>6. AgeTaskIsAlive'
  BY <1>3 DEF AgeTaskIsAlive
<1>7. Ages'
  BY <1>2 DEF Ages
<1>8. NewestFirst'
  BY <1>2 DEF NewestFirst, Ordered
<1>9. NotTaken'
  BY <1>2 DEF NotTaken
<1> QED
  BY <1>4, <1>5, <1>6, <1>7, <1>8, <1>9

LEMMA RemoveIInv == ASSUME IInv, NEW l \in Link, RemoveDeferredLink(l) PROVE IInv'
  BY EraseIInv DEF RemoveDeferredLink, Without, IInv, Types, NotTaken

LEMMA TakeIInv == ASSUME IInv, NEW c \in Caller, TakeDeferredLink(c) PROVE IInv'
<1>. DEFINE found == Kept(caches, Matching(c))
            rest == DOMAIN caches \ Matching(c)
<1>1. /\ caller' = [caller EXCEPT ![c] = Idle]
      /\ UNCHANGED <<ageHandler, timer, aging>>
      /\ caches' = IF caller[c].resv THEN caches ELSE Kept(caches, rest)
      /\ popped' = IF caller[c].resv \/ found = <<>> THEN popped
                   ELSE [popped EXCEPT ![Head(found).link] = @ + 1]
  BY DEF TakeDeferredLink
<1>2. caller' \in [Caller -> Calls]
  BY <1>1 DEF IInv, Types, Calls
<1>3. CASE caller[c].resv
  BY <1>1, <1>2, <1>3, CallerIInv
<1>4. CASE ~caller[c].resv
  <2>1. caches' = Kept(caches, rest) /\ rest \in SUBSET DOMAIN caches
    BY <1>1, <1>4
  <2>2. CASE found = <<>>
    <3>1. popped' = popped
      BY <1>1, <2>2
    <3> QED
      BY <1>1, <1>2, <2>1, <3>1, EraseIInv DEF IInv, Types, NotTaken
  <2>3. CASE found # <<>>
    <3>1. caches \in Seq(Entries) /\ Distinct(caches) /\ Ordered(caches)
      BY DEF IInv, Types, CacheIsBounded, Distinct, NewestFirst, Ordered
    <3>2. /\ found \in Seq(Entries)
          /\ \A i \in DOMAIN found : \E a \in Matching(c) : found[i] = caches[a]
      <4>1. Matching(c) \in SUBSET DOMAIN caches
        BY DEF Matching
      <4> QED
        BY <3>1, <4>1, KeptEntries
    <3>3. PICK a \in Matching(c) : Head(found) = caches[a]
      BY <2>3, <3>2
    <3>. DEFINE l == caches[a].link
    <3>4. a \in DOMAIN caches /\ l \in caller[c].match /\ l \in Link /\ popped[l] = 0
      BY <3>1, <3>3, FieldsOf DEF Matching, IInv, NotTaken
    <3>5. popped' = [popped EXCEPT ![l] = 1]
      <4>1. popped' = [popped EXCEPT ![Head(found).link] = @ + 1] /\ Head(found).link = l
        BY <1>1, <1>4, <2>3, <3>3
      <4> HIDE DEF l, found
      <4>2. popped' = [popped EXCEPT ![l] = popped[l] + 1]
        BY <4>1
      <4> QED
        BY <3>4, <4>2
    <3>6. popped' \in [Link -> {0, 1}]
      BY <3>5 DEF IInv, Types
    <3>7. ASSUME NEW i \in rest PROVE popped'[caches[i].link] = 0
      <4>1. caches[i].link # l /\ caches[i].link \in Link /\ popped[caches[i].link] = 0
        BY <3>1, <3>4, FieldsOf DEF Matching, IInv, NotTaken
      <4> QED
        BY <3>5, <4>1 DEF IInv, Types
    <3> QED
      BY <1>1, <1>2, <2>1, <3>6, <3>7, EraseIInv
  <2> QED
    BY <2>2, <2>3
<1> QED
  BY <1>3, <1>4

LEMMA PutIInv == ASSUME IInv, NEW c \in Caller, PutDeferredLink(c) PROVE IInv'
<1>. DEFINE l == caller[c].link
            age == caller[c].age
            w == Without(l)
            keep == {i \in DOMAIN caches : caches[i].link # l}
<1>1. /\ l \in Link /\ age \in 0 .. AgeCap
      /\ caller' \in [Caller -> Calls]
  BY DEF PutDeferredLink, IInv, Types, Calls, Idle
<1>2. /\ caches' = <<Entry(l, age, 0)>> \o CheckFullUnlocked(w)
      /\ popped' = [popped EXCEPT ![l] = 0]
      /\ UNCHANGED <<ageHandler, aging>>
      /\ timer' = IF caches = <<>> /\ ageHandler THEN DELAY_TIME ELSE timer
  BY DEF PutDeferredLink, PostAgeCacheTask
<1>3. caches \in Seq(Entries) /\ Distinct(caches) /\ Ordered(caches) /\ Len(caches) <= MAX_CACHE_SIZE
  BY DEF IInv, Types, CacheIsBounded, Distinct, NewestFirst, Ordered
<1>4. /\ w \in Seq(Entries)
      /\ Len(w) <= Len(caches)
      /\ \A i \in DOMAIN w : \E a \in keep : w[i] = caches[a]
      /\ Distinct(w)
      /\ Ordered(w)
  <2>1. keep \in SUBSET DOMAIN caches /\ w = Kept(caches, keep)
    BY DEF Without
  <2> HIDE DEF w, keep
  <2> QED
    BY <1>3, <2>1, KeptEntries
<1>5. DELAY_TIME \in Nat \ {0} /\ MAX_CACHE_TIME \in Nat \ {0} /\ MAX_CACHE_SIZE \in Nat /\ None \notin Int
  BY DeferredLinkAssumption
<1>6. Len(w) <= MAX_CACHE_SIZE /\ \A i \in DOMAIN w : w[i].link # l
  BY <1>3, <1>4, <1>5
<1>7. /\ caches' \in Seq(Entries)
      /\ caches' # <<>>
      /\ Len(caches') <= MAX_CACHE_SIZE
      /\ Distinct(caches')
      /\ Ordered(caches')
      /\ \A i \in DOMAIN caches' : caches'[i] = Entry(l, age, 0) \/ \E a \in DOMAIN w : caches'[i] = w[a]
  <2> HIDE DEF w, l, age
  <2>1. /\ caches' \in Seq(Entries) /\ caches' # <<>> /\ Len(caches') <= MAX_CACHE_SIZE
        /\ Distinct(caches') /\ Ordered(caches')
    BY <1>1, <1>2, <1>4, <1>6, PutEntries
  <2>2. \A i \in DOMAIN caches' :
            caches'[i] = Entry(l, age, 0) \/ \E a \in DOMAIN w : caches'[i] = w[a]
    BY <1>1, <1>2, <1>4, <1>6, PutEntries
  <2> QED
    BY <2>1, <2>2
<1>8. \A i \in DOMAIN caches' : caches'[i] = Entry(l, age, 0) \/ \E a \in keep : caches'[i] = caches[a]
  BY <1>4, <1>7
<1> HIDE DEF w
<1>9. Types'
  BY <1>1, <1>2, <1>5, <1>7 DEF IInv, Types
<1>10. Flags'
  BY <1>2 DEF IInv, Flags
<1>11. CacheIsBounded' /\ NewestFirst'
  BY <1>7 DEF CacheIsBounded, Distinct, NewestFirst, Ordered
<1>12. AgeTaskIsAlive'
  BY <1>2, <1>5 DEF IInv, AgeTaskIsAlive
<1>13. Ages'
  <2> SUFFICES ASSUME NEW i \in DOMAIN caches'
               PROVE  /\ caches'[i].kept <= caches'[i].age
                      /\ ageHandler => /\ caches'[i].kept < MAX_CACHE_TIME + DELAY_TIME
                                       /\ timer' # None =>
                                            caches'[i].kept + timer' < MAX_CACHE_TIME + DELAY_TIME
    BY <1>2 DEF Ages
  <2>1. CASE caches'[i] = Entry(l, age, 0)
    BY <1>1, <1>2, <1>5, <2>1 DEF Entry, IInv, Types
  <2>2. CASE \E a \in keep : caches'[i] = caches[a]
    <3>1. caches # <<>> /\ timer' = timer
      BY <1>2, <1>3, <2>2
    <3> QED
      BY <2>2, <3>1 DEF IInv, Ages
  <2> QED
    BY <1>8, <2>1, <2>2
<1>14. NotTaken'
  <2> SUFFICES ASSUME NEW i \in DOMAIN caches' PROVE popped'[caches'[i].link] = 0
    BY DEF NotTaken
  <2>1. CASE caches'[i] = Entry(l, age, 0)
    BY <1>1, <1>2, <2>1 DEF Entry, IInv, Types
  <2>2. CASE \E a \in keep : caches'[i] = caches[a]
    <3>1. PICK a \in keep : caches'[i] = caches[a]
      BY <2>2
    <3>2. caches[a].link \in Link /\ caches[a].link # l /\ popped[caches[a].link] = 0
      BY <1>3, FieldsOf DEF IInv, NotTaken
    <3> QED
      BY <1>2, <3>1, <3>2 DEF IInv, Types
  <2> QED
    BY <1>8, <2>1, <2>2
<1> QED
  BY <1>9, <1>10, <1>11, <1>12, <1>13, <1>14 DEF IInv

LEMMA FireIInv == ASSUME IInv, Fire PROVE IInv'
<1> USE DEF IInv, Fire
<1>1. Types' /\ Flags'
  BY DEF Types, Flags
<1>2. CacheIsBounded' /\ AgeTaskIsAlive' /\ NewestFirst' /\ NotTaken'
  BY DEF CacheIsBounded, AgeTaskIsAlive, NewestFirst, NotTaken
<1>3. Ages'
  BY DEF Ages
<1> QED
  BY <1>1, <1>2, <1>3

(* What the age task leaves is younger than the bound, by its own age and  *)
(* so by the time it was kept; the timer runs anew.                        *)
LEMMA AgeIInv == ASSUME IInv, AgeCacheProcess PROVE IInv'
<1>1. /\ caches' = Kept(caches, Young)
      /\ aging' = FALSE
      /\ timer' = IF caches' # <<>> /\ ageHandler THEN DELAY_TIME ELSE timer
      /\ UNCHANGED <<ageHandler, caller, popped>>
  BY DEF AgeCacheProcess, PostAgeCacheTask
<1>2. caches \in Seq(Entries) /\ Distinct(caches) /\ Ordered(caches)
  BY DEF IInv, Types, CacheIsBounded, Distinct, NewestFirst, Ordered
<1>3. DELAY_TIME \in Nat \ {0} /\ MAX_CACHE_TIME \in Nat \ {0} /\ MAX_CACHE_SIZE \in Nat /\ None \notin Int
  BY DeferredLinkAssumption
<1>4. /\ caches' \in Seq(Entries)
      /\ Len(caches') <= Len(caches)
      /\ \A i \in DOMAIN caches' : \E a \in Young : caches'[i] = caches[a]
      /\ Distinct(caches')
      /\ Ordered(caches')
  <2>1. Young \in SUBSET DOMAIN caches
    BY DEF Young
  <2> QED
    BY <1>1, <1>2, <2>1, KeptEntries
<1>5. Types'
  BY <1>1, <1>3, <1>4 DEF IInv, Types
<1>6. Flags'
  BY <1>1 DEF IInv, Flags
<1>7. CacheIsBounded' /\ NewestFirst'
  BY <1>2, <1>3, <1>4 DEF IInv, CacheIsBounded, Distinct, NewestFirst, Ordered
<1>8. AgeTaskIsAlive'
  BY <1>1, <1>3 DEF AgeTaskIsAlive
<1>9. ASSUME NEW i \in DOMAIN caches'
      PROVE  /\ caches'[i].kept <= caches'[i].age
             /\ caches'[i].kept < MAX_CACHE_TIME
             /\ popped[caches'[i].link] = 0
  <2>1. PICK a \in Young : caches'[i] = caches[a]
    BY <1>4
  <2>2. a \in DOMAIN caches /\ caches[a].age < MAX_CACHE_TIME
    BY DEF Young
  <2>3. caches[a].age \in Int /\ caches[a].kept \in Int
    BY <1>2, <1>3, <2>2, FieldsOf DEF AgeCap
  <2> QED
    BY <1>3, <2>1, <2>2, <2>3 DEF IInv, Ages, NotTaken
<1>10. Ages'
  <2> SUFFICES ASSUME NEW i \in DOMAIN caches'
               PROVE  /\ caches'[i].kept <= caches'[i].age
                      /\ ageHandler => /\ caches'[i].kept < MAX_CACHE_TIME + DELAY_TIME
                                       /\ timer' # None =>
                                            caches'[i].kept + timer' < MAX_CACHE_TIME + DELAY_TIME
    BY <1>1 DEF Ages
  <2>1. caches' # <<>> /\ caches'[i].kept \in Int
    BY <1>3, <1>4, FieldsOf DEF AgeCap
  <2> QED
    BY <1>1, <1>3, <1>9, <2>1
<1>11. NotTaken'
  BY <1>1, <1>9 DEF NotTaken
<1> QED
  BY <1>5, <1>6, <1>7, <1>8, <1>10, <1>11 DEF IInv

LEMMA OlderIs ==
    ASSUME NEW a \in 0 .. AgeCap
    PROVE  Older(a) \in 0 .. AgeCap /\ a <= Older(a) /\ Older(a) <= a + 1
  BY DeferredLinkAssumption DEF Older, AgeCap

LEMMA OlderKeepsOrder ==
    ASSUME NEW a \in 0 .. AgeCap, NEW b \in 0 .. AgeCap, a <= b
    PROVE  Older(a) <= Older(b)
  BY DeferredLinkAssumption DEF Older, AgeCap

LEMMA TickIInv == ASSUME IInv, Tick PROVE IInv'
<1>1. /\ timer # 0
      /\ ~aging
      /\ timer' = IF timer = None THEN None ELSE timer - 1
      /\ caches' = [i \in DOMAIN caches |->
            Entry(caches[i].link, Older(caches[i].age), Older(caches[i].kept))]
      /\ caller' = [c \in Caller |-> IF caller[c].pc = "put"
            THEN [caller[c] EXCEPT !.age = Older(@)] ELSE caller[c]]
      /\ UNCHANGED <<ageHandler, aging, popped>>
  BY DEF Tick
<1>2. DELAY_TIME \in Nat \ {0} /\ MAX_CACHE_TIME \in Nat \ {0} /\ AgeCap \in Nat /\ None \notin Int
  BY DeferredLinkAssumption DEF AgeCap
<1>3. caches \in Seq(Entries) /\ timer \in 0 .. DELAY_TIME \cup {None} /\ caller \in [Caller -> Calls]
  BY DEF IInv, Types
<1>4. ASSUME NEW i \in DOMAIN caches
      PROVE  /\ caches'[i].link = caches[i].link
             /\ caches'[i].age = Older(caches[i].age)
             /\ caches'[i].kept = Older(caches[i].kept)
             /\ caches'[i] \in Entries
             /\ caches[i].age \in 0 .. AgeCap
             /\ caches[i].kept \in 0 .. AgeCap
             /\ caches[i].link \in Link
  BY <1>1, <1>3, FieldsOf, OlderIs DEF Entry, Entries
<1>5. caches' \in Seq(Entries) /\ DOMAIN caches' = DOMAIN caches /\ Len(caches') = Len(caches)
  BY <1>1, <1>3, <1>4
<1>6. caller' \in [Caller -> Calls]
  <2> SUFFICES ASSUME NEW c \in Caller PROVE caller'[c] \in Calls
    BY <1>1
  <2>1. caller[c] \in Calls
    BY <1>3
  <2>2. CASE caller[c].pc = "put"
    <3>1. caller[c] \in [pc : {"put"}, link : Link, age : 0 .. AgeCap]
      BY <2>1, <2>2 DEF Calls, Idle
    <3>2. Older(caller[c].age) \in 0 .. AgeCap
      BY <3>1, OlderIs
    <3>3. caller'[c] = [caller[c] EXCEPT !.age = Older(@)]
      BY <1>1, <2>2
    <3>4. caller'[c] \in [pc : {"put"}, link : Link, age : 0 .. AgeCap]
      BY <3>1, <3>2, <3>3
    <3> QED
      BY <3>4 DEF Calls
  <2>3. CASE caller[c].pc # "put"
    BY <1>1, <2>1, <2>3
  <2> QED
    BY <2>2, <2>3
<1>7. Types'
  BY <1>1, <1>2, <1>3, <1>5, <1>6 DEF IInv, Types
<1>8. Flags'
  BY <1>1 DEF IInv, Flags
<1>9. CacheIsBounded' /\ NotTaken'
  BY <1>1, <1>4, <1>5 DEF IInv, CacheIsBounded, NotTaken
<1>10. NewestFirst'
  <2> SUFFICES ASSUME NEW i \in DOMAIN caches, NEW j \in DOMAIN caches, i < j
               PROVE  caches'[i].kept <= caches'[j].kept
    BY <1>5 DEF NewestFirst
  <2>1. caches[i].kept <= caches[j].kept
    BY DEF IInv, NewestFirst
  <2> QED
    BY <1>4, <2>1, OlderKeepsOrder
<1>11. AgeTaskIsAlive'
  <2>1. caches' # <<>> => caches # <<>>
    BY <1>3, <1>5
  <2> QED
    BY <1>1, <1>2, <1>3, <2>1 DEF IInv, AgeTaskIsAlive
<1>12. Ages'
  <2> SUFFICES ASSUME NEW i \in DOMAIN caches
               PROVE  /\ caches'[i].kept <= caches'[i].age
                      /\ ageHandler => /\ caches'[i].kept < MAX_CACHE_TIME + DELAY_TIME
                                       /\ timer' # None =>
                                            caches'[i].kept + timer' < MAX_CACHE_TIME + DELAY_TIME
    BY <1>1, <1>5 DEF Ages
  <2>1. caches[i].kept <= caches[i].age
    BY DEF IInv, Ages
  <2>2. caches'[i].kept <= caches'[i].age
    BY <1>4, <2>1, OlderKeepsOrder
  <2>3. caches'[i].kept \in Nat /\ caches[i].kept \in Nat /\ caches'[i].kept <= caches[i].kept + 1
    BY <1>2, <1>4, OlderIs
  <2>4. ASSUME ageHandler
        PROVE  timer \in 1 .. DELAY_TIME /\ caches[i].kept + timer < MAX_CACHE_TIME + DELAY_TIME
    <3>1. caches # <<>>
      BY <1>3
    <3>2. timer # None
      BY <1>1, <2>4, <3>1 DEF IInv, AgeTaskIsAlive
    <3> QED
      BY <1>1, <1>3, <2>4, <3>2 DEF IInv, Ages
  <2> QED
    BY <1>1, <1>2, <2>2, <2>3, <2>4
<1> QED
  BY <1>7, <1>8, <1>9, <1>10, <1>11, <1>12 DEF IInv

LEMMA NextIInv == IInv /\ [Next]_vars => IInv'
<1> SUFFICES ASSUME IInv, [Next]_vars PROVE IInv'
  OBVIOUS
<1>1. ASSUME NEW c \in Caller, NEW l \in Link, FilterAbilities(c, l) PROVE IInv'
  <2>1. caller' = [caller EXCEPT ![c] = [pc |-> "put", link |-> l, age |-> 0]]
    BY <1>1 DEF FilterAbilities
  <2>2. [pc |-> "put", link |-> l, age |-> 0] \in Calls
    BY DeferredLinkAssumption DEF Calls, AgeCap
  <2>3. caller' \in [Caller -> Calls]
    BY <2>1, <2>2 DEF IInv, Types
  <2> QED
    BY <1>1, <2>3, CallerIInv DEF FilterAbilities
<1>2. ASSUME NEW c \in Caller, NEW match \in SUBSET Link, NEW resv \in BOOLEAN,
             GetDeferredLink(c, match, resv)
      PROVE  IInv'
  <2>1. [pc |-> "get", match |-> match, resv |-> resv] \in Calls
    BY DEF Calls
  <2>2. caller' \in [Caller -> Calls]
    BY <1>2, <2>1 DEF IInv, Types, GetDeferredLink
  <2> QED
    BY <1>2, <2>2, CallerIInv DEF GetDeferredLink
<1>3. ASSUME UNCHANGED vars PROVE IInv'
  BY <1>3, CallerIInv DEF vars, IInv, Types
<1> QED
  BY <1>1, <1>2, <1>3, PutIInv, TakeIInv, RemoveIInv, FireIInv, AgeIInv, TickIInv DEF Next
-----------------------------------------------------------------------------
(* The invariant: the list is short, without doubles and in order, none of *)
(* it was taken, and the age task is on its way in time for all of it.     *)
THEOREM SpecIInv == Spec => []IInv
  BY InitIInv, NextIInv, PTL DEF Spec

(* Type correctness for any links, callers, sizes and times.               *)
THEOREM SpecTypeOK == Spec => []TypeOK
<1>1. IInv => TypeOK
  <2> SUFFICES ASSUME IInv PROVE TypeOK
    OBVIOUS
  <2>1. ageHandler \in BOOLEAN /\ aging \in BOOLEAN
    BY Zenon DEF IInv, Flags
  <2>2. /\ caches \in Seq([link : Link, age : 0 .. AgeCap, kept : 0 .. AgeCap])
        /\ timer \in 0 .. DELAY_TIME \cup {None}
        /\ popped \in [Link -> Nat]
    BY DEF IInv, Types, Entries
  <2>3. \A c \in Caller : caller[c].pc \in {"idle", "put", "get"}
    BY DEF IInv, Types, Calls, Idle
  <2> QED
    BY <2>1, <2>2, <2>3, Zenon DEF TypeOK
<1> QED
  BY <1>1, SpecIInv, PTL

(* The cache never exceeds its size and holds a link once: the eviction    *)
(* compares with ==, and the list is never longer.                         *)
THEOREM SpecCacheIsBounded == Spec => []CacheIsBounded
<1>1. IInv => CacheIsBounded
  BY DEF IInv
<1> QED
  BY <1>1, SpecIInv, PTL

(* While there is a link the age task is posted or running.                *)
THEOREM SpecAgeTaskIsAlive == Spec => []AgeTaskIsAlive
<1>1. IInv => AgeTaskIsAlive
  BY DEF IInv
<1> QED
  BY <1>1, SpecIInv, PTL

(* No link stays beyond MAX_CACHE_TIME by DELAY_TIME, for any of both.     *)
THEOREM SpecLinksAge == Spec => []LinksAge
<1>1. IInv => LinksAge
  BY DEF IInv, Ages, LinksAge
<1> QED
  BY <1>1, SpecIInv, PTL

(* The list is ordered by the time of the put, whoever is slow.            *)
THEOREM SpecNewestFirst == Spec => []NewestFirst
<1>1. IInv => NewestFirst
  BY DEF IInv
<1> QED
  BY <1>1, SpecIInv, PTL

(* Only one of any number of callers takes a link, until it is put again.  *)
THEOREM SpecTakenOnce == Spec => []TakenOnce
<1>1. IInv => TakenOnce
  BY DEF IInv, Types, TakenOnce
<1> QED
  BY <1>1, SpecIInv, PTL
-----------------------------------------------------------------------------
(***************************************************************************)
(* What the moves in the LRU cache and in its history do to a sequence.    *)
(***************************************************************************)
(* The entries of two lists in a row. *)
LEMMA ConcatIs ==
    ASSUME NEW R, NEW p \in Seq(R), NEW q \in Seq(R)
    PROVE  /\ p \o q \in Seq(R)
           /\ Len(p \o q) = Len(p) + Len(q)
           /\ \A i \in 1 .. Len(p) + Len(q) :
                (p \o q)[i] = IF i <= Len(p) THEN p[i] ELSE q[i - Len(p)]
OBVIOUS

(* An entry moves from an index to the front. *)
LEMMA ToFrontIs ==
    ASSUME NEW R, NEW s \in Seq(R), NEW a \in DOMAIN s
    PROVE  LET moved == <<s[a]>> \o RemoveAt(s, a)
           IN  /\ moved \in Seq(R)
               /\ Len(moved) = Len(s)
               /\ \A i \in DOMAIN s :
                    moved[i] = IF i = 1 THEN s[a] ELSE IF i <= a THEN s[i - 1] ELSE s[i]
<1>. DEFINE before == SubSeq(s, 1, a - 1)
            after == SubSeq(s, a + 1, Len(s))
<1>1. /\ before \in Seq(R) /\ Len(before) = a - 1
      /\ \A i \in 1 .. a - 1 : before[i] = s[i]
  OBVIOUS
<1>2. /\ after \in Seq(R) /\ Len(after) = Len(s) - a
      /\ \A i \in 1 .. Len(s) - a : after[i] = s[a + i]
  OBVIOUS
<1>3. RemoveAt(s, a) = before \o after
  BY DEF RemoveAt
<1>4. s[a] \in R /\ a \in 1 .. Len(s) /\ Len(s) \in Nat /\ DOMAIN s = 1 .. Len(s)
  OBVIOUS
<1>. HIDE DEF before, after
<1>. DEFINE rest == before \o after
<1>5. /\ rest \in Seq(R) /\ Len(rest) = Len(s) - 1
      /\ \A i \in 1 .. Len(s) - 1 : rest[i] = IF i <= a - 1 THEN before[i] ELSE after[i - (a - 1)]
  <2>1. /\ rest \in Seq(R) /\ Len(rest) = Len(before) + Len(after)
        /\ \A i \in 1 .. Len(before) + Len(after) :
             rest[i] = IF i <= Len(before) THEN before[i] ELSE after[i - Len(before)]
    BY <1>1, <1>2, ConcatIs
  <2>2. Len(before) = a - 1 /\ Len(before) + Len(after) = Len(s) - 1
    BY <1>1, <1>2, <1>4
  <2>. HIDE DEF rest
  <2>. QED
    BY <2>1, <2>2
<1>6. \A i \in 1 .. Len(s) - 1 : rest[i] = IF i <= a - 1 THEN s[i] ELSE s[i + 1]
  <2>1. SUFFICES ASSUME NEW i \in 1 .. Len(s) - 1
                 PROVE  rest[i] = IF i <= a - 1 THEN s[i] ELSE s[i + 1]
    OBVIOUS
  <2>. HIDE DEF rest
  <2>2. CASE i <= a - 1
    <3>1. i \in 1 .. a - 1
      BY <1>4, <2>2
    <3>2. rest[i] = before[i]
      BY <1>5, <2>2
    <3>3. before[i] = s[i]
      BY <1>1, <3>1
    <3>. QED
      BY <2>2, <3>2, <3>3
  <2>3. CASE i > a - 1
    <3>1. i - (a - 1) \in 1 .. Len(s) - a /\ a + (i - (a - 1)) = i + 1
      BY <1>4, <2>3
    <3>2. after[i - (a - 1)] = s[a + (i - (a - 1))]
      BY <1>2, <3>1
    <3>3. ~ (i <= a - 1)
      BY <1>4, <2>3
    <3>. QED
      BY <1>5, <3>1, <3>2, <3>3
  <2>. QED
    BY <1>4, <2>2, <2>3
<1>. HIDE DEF rest
<1>. DEFINE moved == <<s[a]>> \o rest
<1>7. /\ moved \in Seq(R) /\ Len(moved) = Len(s) /\ moved[1] = s[a]
      /\ \A i \in 2 .. Len(s) : moved[i] = rest[i - 1]
  <2>1. /\ moved \in Seq(R) /\ Len(moved) = Len(rest) + 1 /\ moved[1] = s[a]
        /\ \A i \in DOMAIN moved : i # 1 => i - 1 \in DOMAIN rest /\ moved[i] = rest[i - 1]
    <3>1. rest \in Seq(R) /\ s[a] \in R
      BY <1>4, <1>5
    <3>. QED
      BY <3>1, InFront
  <2>2. Len(rest) + 1 = Len(s)
    BY <1>4, <1>5
  <2>. HIDE DEF moved
  <2>3. DOMAIN moved = 1 .. Len(s)
    BY <2>1, <2>2
  <2>. QED
    <3>1. SUFFICES ASSUME NEW i \in 2 .. Len(s) PROVE moved[i] = rest[i - 1]
      BY <2>1, <2>2
    <3>2. i \in 1 .. Len(s) /\ i # 1
      BY <1>4
    <3>. QED
      BY <2>1, <2>3, <3>2
<1>8. \A i \in DOMAIN s : moved[i] = IF i = 1 THEN s[a] ELSE IF i <= a THEN s[i - 1] ELSE s[i]
  <2>. HIDE DEF moved
  <2>. QED
    BY <1>4, <1>6, <1>7
<1>. QED
  BY <1>3, <1>7, <1>8 DEF rest

(* The url that is used anew is removed, wherever it is. *)
LEMMA RemoveFirstIs ==
    ASSUME NEW R, NEW s \in Seq(R), NEW e,
           \A i, j \in DOMAIN s : s[i] = s[j] => i = j
    PROVE  /\ \A a \in DOMAIN s : s[a] = e => RemoveFirst(s, e) = RemoveAt(s, a)
           /\ (\A a \in DOMAIN s : s[a] # e) => RemoveFirst(s, e) = s
<1>1. ASSUME NEW a \in DOMAIN s, s[a] = e
      PROVE  RemoveFirst(s, e) = RemoveAt(s, a)
  <2>. DEFINE I == {i \in 1 .. Len(s) : s[i] = e}
  <2>1. I = {a}
    BY <1>1
  <2>2. Min(I) = a
    BY <2>1 DEF Min
  <2>3. SelectInSeq(s, LAMBDA v : v = e) = a
    BY <2>1, <2>2 DEF SelectInSeq
  <2>. QED
    BY <1>1, <2>3 DEF RemoveFirst
<1>2. ASSUME \A a \in DOMAIN s : s[a] # e
      PROVE  RemoveFirst(s, e) = s
  BY <1>2 DEF RemoveFirst
<1>. QED
  BY <1>1, <1>2
-----------------------------------------------------------------------------
CacheEntries == [key : Url, value : Bundle, put : Nat]

(* The history has each url once. *)
UsedOnce == \A i, j \in DOMAIN recency : recency[i] = recency[j] => i = j

LEMMA UsedIs ==
    ASSUME recency \in Seq(Url), UsedOnce, NEW url \in Url, Used(url)
    PROVE  /\ recency' \in Seq(Url)
           /\ UsedOnce'
           /\ recency'[1] = url
           /\ \A a \in DOMAIN recency : recency[a] = url =>
                /\ Len(recency') = Len(recency)
                /\ \A i \in 2 .. Len(recency) :
                     recency'[i] = IF i <= a THEN recency[i - 1] ELSE recency[i]
           /\ (\A a \in DOMAIN recency : recency[a] # url) =>
                /\ Len(recency') = Len(recency) + 1
                /\ \A i \in DOMAIN recency : recency'[i + 1] = recency[i]
<1>1. /\ \A a \in DOMAIN recency : recency[a] = url => RemoveFirst(recency, url) = RemoveAt(recency, a)
      /\ (\A a \in DOMAIN recency : recency[a] # url) => RemoveFirst(recency, url) = recency
  BY RemoveFirstIs DEF UsedOnce
<1>2. Len(recency) \in Nat /\ DOMAIN recency = 1 .. Len(recency)
  OBVIOUS
<1>3. CASE \A a \in DOMAIN recency : recency[a] # url
  <2>1. recency' = <<url>> \o recency
    BY <1>1, <1>3 DEF Used
  <2>2. /\ recency' \in Seq(Url) /\ Len(recency') = Len(recency) + 1 /\ recency'[1] = url
        /\ DOMAIN recency' = 1 .. Len(recency) + 1
        /\ \A i \in 2 .. Len(recency) + 1 : recency'[i] = recency[i - 1]
    BY <2>1
  <2>3. UsedOnce'
    <3>1. SUFFICES ASSUME NEW i \in 1 .. Len(recency) + 1, NEW j \in 1 .. Len(recency) + 1,
                          recency'[i] = recency'[j]
                   PROVE  i = j
      BY <2>2 DEF UsedOnce
    <3>2. \A k \in 2 .. Len(recency) + 1 :
            k - 1 \in DOMAIN recency /\ recency'[k] = recency[k - 1] /\ recency'[k] # url
      <4>1. ASSUME NEW k \in 2 .. Len(recency) + 1
            PROVE  k - 1 \in DOMAIN recency /\ recency'[k] = recency[k - 1]
        BY <1>2, <2>2
      <4>. QED
        BY <1>3, <4>1
    <3>3. CASE i = 1 \/ j = 1
      BY <1>2, <2>2, <3>1, <3>2, <3>3
    <3>4. CASE i # 1 /\ j # 1
      <4>1. i \in 2 .. Len(recency) + 1 /\ j \in 2 .. Len(recency) + 1
        BY <1>2, <3>4
      <4>2. i - 1 = j - 1
        BY <3>1, <3>2, <4>1 DEF UsedOnce
      <4>. QED
        BY <4>1, <4>2
    <3>. QED
      BY <3>3, <3>4
  <2>4. \A i \in DOMAIN recency : recency'[i + 1] = recency[i]
    BY <1>2, <2>2
  <2>. QED
    BY <1>3, <2>2, <2>3, <2>4
<1>4. ASSUME NEW b \in DOMAIN recency, recency[b] = url
      PROVE  /\ recency' \in Seq(Url)
             /\ UsedOnce'
             /\ recency'[1] = url
             /\ Len(recency') = Len(recency)
             /\ \A i \in 2 .. Len(recency) :
                  recency'[i] = IF i <= b THEN recency[i - 1] ELSE recency[i]
  <2>1. recency' = <<recency[b]>> \o RemoveAt(recency, b)
    BY <1>1, <1>4 DEF Used
  <2>2. /\ recency' \in Seq(Url)
        /\ Len(recency') = Len(recency)
        /\ \A i \in DOMAIN recency :
             recency'[i] = IF i = 1 THEN recency[b] ELSE IF i <= b THEN recency[i - 1] ELSE recency[i]
    BY <2>1, ToFrontIs
  <2>3. DOMAIN recency' = DOMAIN recency
    BY <2>2
  <2>4. ASSUME NEW i \in DOMAIN recency, NEW j \in DOMAIN recency, recency'[i] = recency'[j]
        PROVE  i = j
    BY <1>2, <1>4, <2>2, <2>4 DEF UsedOnce
  <2>5. UsedOnce'
    BY <2>3, <2>4 DEF UsedOnce
  <2>6. recency'[1] = url
    BY <1>2, <1>4, <2>2
  <2>. QED
    BY <1>2, <2>2, <2>5, <2>6
<1>5. CASE \E a \in DOMAIN recency : recency[a] = url
  <2>1. PICK b \in DOMAIN recency : recency[b] = url
    BY <1>5
  <2>2. \A a \in DOMAIN recency : recency[a] = url => a = b
    BY <2>1 DEF UsedOnce
  <2>. QED
    BY <1>4, <2>1, <2>2
<1>. QED
  BY <1>3, <1>5

(* The url was cached: it moves to the front, of cache and history alike. *)
LEMMA HitIs ==
    ASSUME cache \in Seq(CacheEntries), recency \in Seq(Url), UsedOnce, LastUsedStay,
           MAX_CACHE_CNT \in Nat, NEW url \in Keys, cache' = ToFront(url), Used(url)
    PROVE  /\ cache' \in Seq(CacheEntries)
           /\ \A i \in DOMAIN cache' : \E j \in DOMAIN cache : cache'[i] = cache[j]
           /\ recency' \in Seq(Url)
           /\ UsedOnce'
           /\ LastUsedStay'
           /\ At(url) \in DOMAIN cache
<1>. DEFINE a == At(url)
<1>1. a \in DOMAIN cache /\ cache[a].key = url
  BY DEF Keys, At
<1>2. cache' = <<cache[a]>> \o RemoveAt(cache, a)
  BY DEF ToFront
<1>. HIDE DEF a
<1>3. /\ cache' \in Seq(CacheEntries)
      /\ Len(cache') = Len(cache)
      /\ \A i \in DOMAIN cache :
           cache'[i] = IF i = 1 THEN cache[a] ELSE IF i <= a THEN cache[i - 1] ELSE cache[i]
  BY <1>1, <1>2, ToFrontIs
<1>4. /\ Len(cache) \in Nat /\ DOMAIN cache = 1 .. Len(cache) /\ DOMAIN cache' = 1 .. Len(cache)
      /\ Len(recency) \in Nat /\ DOMAIN recency = 1 .. Len(recency)
      /\ Len(cache) <= Len(recency)
  BY <1>3 DEF LastUsedStay
<1>5. url \in Url
  <2>1. cache[a] \in CacheEntries
    BY <1>1
  <2>. QED
    BY <1>1, <2>1 DEF CacheEntries
<1>6. recency[a] = url /\ a \in DOMAIN recency
  BY <1>1, <1>4 DEF LastUsedStay
<1>7. /\ recency' \in Seq(Url) /\ UsedOnce' /\ recency'[1] = url
      /\ Len(recency') = Len(recency)
      /\ \A i \in 2 .. Len(recency) :
           recency'[i] = IF i <= a THEN recency[i - 1] ELSE recency[i]
  BY <1>5, <1>6, UsedIs
<1>8. \A i \in DOMAIN cache : cache'[i].key = recency'[i]
  <2>1. SUFFICES ASSUME NEW i \in DOMAIN cache PROVE cache'[i].key = recency'[i]
    OBVIOUS
  <2>2. CASE i = 1
    BY <1>1, <1>3, <1>7, <2>2
  <2>3. CASE i # 1
    <3>1. \A j \in DOMAIN cache : cache[j].key = recency[j]
      BY DEF LastUsedStay
    <3>2. i \in 2 .. Len(recency) /\ (i <= a => i - 1 \in DOMAIN cache)
      BY <1>1, <1>4, <2>3
    <3>. QED
      BY <1>3, <1>7, <2>3, <3>1, <3>2
  <2>. QED
    BY <2>2, <2>3
<1>9. LastUsedStay'
  BY <1>3, <1>4, <1>7, <1>8 DEF LastUsedStay
<1>10. \A i \in DOMAIN cache' : \E j \in DOMAIN cache : cache'[i] = cache[j]
  <2>1. SUFFICES ASSUME NEW i \in DOMAIN cache
                 PROVE  \E j \in DOMAIN cache : cache'[i] = cache[j]
    BY <1>4
  <2>. QED
    BY <1>1, <1>3, <1>4
<1>. QED
  BY <1>1, <1>3, <1>7, <1>9, <1>10 DEF a

(* The url was not cached: it is put in front, and if the cache was full,  *)
(* the last one of the cache leaves, but not of the history.               *)
Pushed(fresh) == cache' = <<fresh>> \o (IF Full THEN Front(cache) ELSE cache)

(* What stays of the cache, n of its entries. *)
Stays(stays, n) ==
    /\ Len(stays) = n
    /\ \A i \in 1 .. n : stays[i] = cache[i]
    /\ n <= Len(cache)
    /\ Len(cache) <= Len(recency)
    /\ \/ n = MAX_CACHE_CNT - 1 /\ MAX_CACHE_CNT <= Len(recency)
       \/ n < MAX_CACHE_CNT /\ n = Len(cache) /\ n = Len(recency)

LEMMA StaysIs ==
    ASSUME cache \in Seq(CacheEntries), recency \in Seq(Url), LastUsedStay,
           MAX_CACHE_CNT \in Nat \ {0}
    PROVE  \E n \in Nat :
             LET stays == IF Full THEN Front(cache) ELSE cache
             IN  stays \in Seq(CacheEntries) /\ Stays(stays, n)
<1>1. /\ Len(cache) \in Nat /\ Len(recency) \in Nat
      /\ Len(cache) = IF Len(recency) < MAX_CACHE_CNT THEN Len(recency) ELSE MAX_CACHE_CNT
      /\ MAX_CACHE_CNT \in Nat /\ MAX_CACHE_CNT >= 1
  BY DEF LastUsedStay
<1>2. CASE Len(cache) = MAX_CACHE_CNT
  <2>1. Len(cache) - 1 \in Nat /\ Len(recency) >= MAX_CACHE_CNT
    BY <1>1, <1>2
  <2>. DEFINE stays == SubSeq(cache, 1, Len(cache) - 1)
  <2>2. /\ stays \in Seq(CacheEntries) /\ Len(stays) = Len(cache) - 1
        /\ \A i \in 1 .. Len(cache) - 1 : stays[i] = cache[i]
    BY <1>1, <2>1
  <2>. HIDE DEF stays
  <2>3. Stays(stays, Len(cache) - 1)
    BY <1>1, <1>2, <2>1, <2>2 DEF Stays
  <2>4. Full /\ Front(cache) = stays
    BY <1>2 DEF Full, Front, stays
  <2>. QED
    BY <2>1, <2>2, <2>3, <2>4
<1>3. CASE Len(cache) # MAX_CACHE_CNT
  <2>1. Stays(cache, Len(cache))
    BY <1>1, <1>3 DEF Stays
  <2>2. ~Full
    BY <1>3 DEF Full
  <2>. QED
    BY <1>1, <2>1, <2>2
<1>. QED
  BY <1>2, <1>3

LEMMA MissIs ==
    ASSUME cache \in Seq(CacheEntries), recency \in Seq(Url), UsedOnce, LastUsedStay,
           MAX_CACHE_CNT \in Nat \ {0}, NEW url \in Url, url \notin Keys, Used(url),
           NEW fresh \in CacheEntries, fresh.key = url, Pushed(fresh)
    PROVE  /\ cache' \in Seq(CacheEntries)
           /\ \A i \in DOMAIN cache' :
                cache'[i] = fresh \/ \E j \in DOMAIN cache : cache'[i] = cache[j]
           /\ recency' \in Seq(Url)
           /\ UsedOnce'
           /\ LastUsedStay'
<1>1. PICK stays \in Seq(CacheEntries), n \in Nat : Stays(stays, n) /\ cache' = <<fresh>> \o stays
  BY StaysIs DEF Pushed
<1>2. Len(stays) = n /\ \A k \in 1 .. n : stays[k] = cache[k]
  BY <1>1 DEF Stays
<1>3. /\ n <= Len(cache)
      /\ Len(cache) <= Len(recency)
  BY <1>1 DEF Stays
<1>4. \/ n = MAX_CACHE_CNT - 1 /\ MAX_CACHE_CNT <= Len(recency)
      \/ n < MAX_CACHE_CNT /\ n = Len(cache) /\ n = Len(recency)
  BY <1>1 DEF Stays
<1>5. /\ Len(cache) \in Nat /\ DOMAIN cache = 1 .. Len(cache)
      /\ Len(recency) \in Nat /\ DOMAIN recency = 1 .. Len(recency)
      /\ MAX_CACHE_CNT \in Nat /\ n \in Nat
  BY <1>1
<1>6. /\ cache' \in Seq(CacheEntries) /\ Len(cache') = n + 1 /\ cache'[1] = fresh
      /\ \A i \in DOMAIN cache' : i # 1 => i - 1 \in DOMAIN stays /\ cache'[i] = stays[i - 1]
  BY <1>1, <1>2, InFront
<1>7. DOMAIN cache' = 1 .. n + 1 /\ DOMAIN stays = 1 .. n
  BY <1>2, <1>6
<1>8. \A k \in 2 .. n + 1 :
        cache'[k] = cache[k - 1] /\ k - 1 \in DOMAIN cache /\ k - 1 \in DOMAIN recency
  <2>1. SUFFICES ASSUME NEW i \in 2 .. n + 1
                 PROVE  cache'[i] = cache[i - 1] /\ i - 1 \in DOMAIN cache /\ i - 1 \in DOMAIN recency
    OBVIOUS
  <2>2. i \in 1 .. n + 1 /\ i # 1 /\ i - 1 \in 1 .. n
    BY <1>5
  <2>3. n <= Len(cache) /\ Len(cache) <= Len(recency)
    BY <1>3
  <2>4. i - 1 \in 1 .. Len(cache) /\ i - 1 \in 1 .. Len(recency)
    BY <1>5, <2>3
  <2>. QED
    BY <1>2, <1>5, <1>6, <1>7, <2>2, <2>4
<1>9. /\ recency' \in Seq(Url) /\ UsedOnce' /\ recency'[1] = url
      /\ \A a \in DOMAIN recency : recency[a] = url =>
           /\ Len(recency') = Len(recency)
           /\ \A i \in 2 .. Len(recency) :
                recency'[i] = IF i <= a THEN recency[i - 1] ELSE recency[i]
      /\ (\A a \in DOMAIN recency : recency[a] # url) =>
           /\ Len(recency') = Len(recency) + 1
           /\ \A i \in DOMAIN recency : recency'[i + 1] = recency[i]
  BY UsedIs
<1>10. \A j \in DOMAIN cache : cache[j].key = recency[j] /\ recency[j] # url
  BY DEF LastUsedStay, Keys
<1>11. /\ \A k \in 2 .. n + 1 : recency'[k] = recency[k - 1]
      /\ n + 1 = IF Len(recency') < MAX_CACHE_CNT THEN Len(recency') ELSE MAX_CACHE_CNT
  <2>1. CASE \A a \in DOMAIN recency : recency[a] # url
    <3>1. /\ Len(recency') = Len(recency) + 1
          /\ \A i \in DOMAIN recency : recency'[i + 1] = recency[i]
      BY <1>9, <2>1
    <3>2. ASSUME NEW k \in 2 .. n + 1 PROVE recency'[k] = recency[k - 1]
      <4>1. k - 1 \in DOMAIN recency /\ (k - 1) + 1 = k
        BY <1>8
      <4>. QED
        BY <3>1, <4>1
    <3>3. n + 1 = IF Len(recency') < MAX_CACHE_CNT THEN Len(recency') ELSE MAX_CACHE_CNT
      <4>1. CASE n = MAX_CACHE_CNT - 1 /\ MAX_CACHE_CNT <= Len(recency)
        BY <1>5, <3>1, <4>1
      <4>2. CASE n < MAX_CACHE_CNT /\ n = Len(cache) /\ n = Len(recency)
        BY <1>5, <3>1, <4>2
      <4>. QED
        BY <1>4, <4>1, <4>2
    <3>. QED
      BY <3>2, <3>3
  <2>2. ASSUME NEW a \in DOMAIN recency, recency[a] = url
        PROVE  /\ \A k \in 2 .. n + 1 : recency'[k] = recency[k - 1]
               /\ n + 1 = IF Len(recency') < MAX_CACHE_CNT THEN Len(recency') ELSE MAX_CACHE_CNT
    <3>1. a \notin DOMAIN cache
      BY <1>10, <2>2
    <3>2. a \in Nat /\ a > Len(cache) /\ a <= Len(recency)
      BY <1>5, <2>2, <3>1
    <3>3. n = MAX_CACHE_CNT - 1 /\ MAX_CACHE_CNT <= Len(recency)
      <4>1. Len(cache) # Len(recency)
        <5>1. Len(cache) \in Nat /\ Len(recency) \in Nat
          BY <1>5
        <5>. QED
          BY <3>2, <5>1
      <4>. QED
        BY <1>4, <4>1
    <3>7. n + 1 = MAX_CACHE_CNT /\ n + 1 <= Len(recency) /\ n + 1 <= a
      <4>1. n <= Len(cache)
        BY <1>3
      <4>. QED
        BY <1>5, <3>2, <3>3, <4>1
    <3>4. /\ Len(recency') = Len(recency)
          /\ \A i \in 2 .. Len(recency) :
               recency'[i] = IF i <= a THEN recency[i - 1] ELSE recency[i]
      BY <1>9, <2>2
    <3>5. ASSUME NEW k \in 2 .. n + 1 PROVE recency'[k] = recency[k - 1]
      <4>1. k \in 2 .. Len(recency) /\ k <= a
        BY <1>5, <3>2, <3>7
      <4>. QED
        BY <3>4, <4>1
    <3>6. ~ (Len(recency') < MAX_CACHE_CNT)
      BY <1>5, <3>3, <3>4
    <3>. QED
      BY <3>7, <3>5, <3>6
  <2>3. CASE \E a \in DOMAIN recency : recency[a] = url
    BY <2>2, <2>3
  <2>. QED
    BY <2>1, <2>3
<1>12. \A i \in DOMAIN cache' : cache'[i].key = recency'[i]
  <2>1. SUFFICES ASSUME NEW i \in DOMAIN cache' PROVE cache'[i].key = recency'[i]
    OBVIOUS
  <2>2. CASE i = 1
    BY <1>6, <1>9, <2>2
  <2>3. CASE i # 1
    <3>1. i \in 2 .. n + 1
      BY <1>7, <2>3
    <3>. QED
      BY <1>8, <1>10, <1>11, <3>1
  <2>. QED
    BY <2>2, <2>3
<1>13. Len(cache') = IF Len(recency') < MAX_CACHE_CNT THEN Len(recency') ELSE MAX_CACHE_CNT
  <2>1. Len(recency') \in Nat
    BY <1>9
  <2>. QED
    BY <1>5, <1>6, <1>11, <2>1
<1>14. LastUsedStay'
  BY <1>12, <1>13 DEF LastUsedStay
<1>15. ASSUME NEW i \in DOMAIN cache'
       PROVE  cache'[i] = fresh \/ \E j \in DOMAIN cache : cache'[i] = cache[j]
  <2>1. CASE i = 1
    BY <1>6, <2>1
  <2>2. CASE i # 1
    <3>1. i \in 2 .. n + 1
      BY <1>7, <2>2
    <3>. QED
      BY <1>8, <3>1
  <2>. QED
    BY <2>1, <2>2
<1>. QED
  BY <1>6, <1>9, <1>14, <1>15
-----------------------------------------------------------------------------
(***************************************************************************)
(* The inductive invariant of the details.  That an answer is recent needs *)
(* that no entry is older than the cache; an entry put by a query that was *)
(* slow is not: it is put, with the time of the put, after the emptying.   *)
(***************************************************************************)
QueriesHaveUrls ==
    \A t \in Thread :
        /\ query[t].pc \in {"cache", "rdb", "put"} => query[t].url \in Url
        /\ query[t].pc = "put" => query[t].bundleName \in Bundle

TimesAreRead == \A t \in Thread : query[t].time <= now

PutsAreRecent == \A i \in DOMAIN cache : cache[i].put \in cacheBeginTime .. now

CacheInv == UsedOnce /\ LastUsedStay /\ PutsAreRecent

DetailsIInv == DetailsTypeOK /\ CacheInv /\ QueriesHaveUrls /\ TimesAreRead /\ AnswerIsRecent

QueryRecords ==
    [pc : {"idle", "cache", "rdb", "put", "want"}, url : Url \cup {Nothing},
     bundleName : Bundle \cup {Nothing}, time : Nat, age : Int]

(* What the invariant says of the queries. *)
QueriesAreFine ==
    /\ query \in [Thread -> QueryRecords]
    /\ QueriesHaveUrls /\ TimesAreRead /\ AnswerIsRecent

LEMMA InitDetailsIInv == InitDetails => DetailsIInv
<1>. SUFFICES ASSUME InitDetails PROVE DetailsIInv
  OBVIOUS
<1>. USE AppDetailsAssumption DEF InitDetails
<1>1. /\ IdleQuery \in QueryRecords /\ IdleQuery.pc = "idle" /\ IdleQuery.age = 0
      /\ IdleQuery.time = 0
  BY DEF IdleQuery, QueryRecords
<1>2. DetailsTypeOK
  <2>1. cache \in Seq([key : Url, value : Bundle, put : Nat]) /\ recency \in Seq(Url)
    OBVIOUS
  <2>2. query \in [Thread -> QueryRecords]
    BY <1>1
  <2>. QED
    BY <2>1, <2>2 DEF DetailsTypeOK, QueryRecords, NoTable
<1>3. CacheInv
  BY DEF CacheInv, UsedOnce, LastUsedStay, PutsAreRecent
<1>4. QueriesHaveUrls /\ TimesAreRead /\ AnswerIsRecent
  BY <1>1 DEF QueriesHaveUrls, TimesAreRead, AnswerIsRecent
<1>. QED
  BY <1>2, <1>3, <1>4 DEF DetailsIInv

(* What the steps of a query have in common. *)
LEMMA StepOfQuery ==
    ASSUME DetailsIInv, NEW t \in Thread, NEW q \in QueryRecords, Step(t, q),
           q.pc \in {"cache", "rdb", "put"} => q.url \in Url,
           q.pc = "put" => q.bundleName \in Bundle,
           q.time <= now, q.age <= CACHE_TIME_S, now' = now
    PROVE  QueriesAreFine'
<1>1. query \in [Thread -> QueryRecords] /\ query' = [query EXCEPT ![t] = q]
  BY DEF DetailsIInv, DetailsTypeOK, QueryRecords, Step
<1>2. query' \in [Thread -> QueryRecords]
  BY <1>1
<1>3. \A u \in Thread : query'[u] = IF u = t THEN q ELSE query[u]
  BY <1>1
<1>4. QueriesHaveUrls'
  BY <1>3 DEF DetailsIInv, QueriesHaveUrls
<1>5. AnswerIsRecent'
  BY <1>3 DEF DetailsIInv, AnswerIsRecent
<1>6. TimesAreRead'
  BY <1>3 DEF DetailsIInv, TimesAreRead
<1>. QED
  BY <1>2, <1>4, <1>5, <1>6 DEF QueriesAreFine

(* What the caches of the invariant are to a step that leaves them alone. *)
LEMMA SameCache ==
    ASSUME CacheInv, UNCHANGED <<now, cache, cacheBeginTime, recency>>
    PROVE  CacheInv'
BY DEF CacheInv, UsedOnce, LastUsedStay, PutsAreRecent

LEMMA CacheTypes ==
    ASSUME DetailsIInv
    PROVE  /\ cache \in Seq(CacheEntries) /\ recency \in Seq(Url)
           /\ UsedOnce /\ LastUsedStay /\ PutsAreRecent
           /\ MAX_CACHE_CNT \in Nat \ {0}
           /\ now \in Nat /\ cacheBeginTime \in 0 .. now
           /\ query \in [Thread -> QueryRecords]
BY AppDetailsAssumption DEF DetailsIInv, DetailsTypeOK, CacheInv, CacheEntries, QueryRecords

(* Any use of a cached url. *)
LEMMA HitIInv ==
    ASSUME DetailsIInv, NEW url \in Keys, cache' = ToFront(url), Used(url),
           UNCHANGED <<now, cacheBeginTime>>
    PROVE  /\ cache' \in Seq(CacheEntries) /\ recency' \in Seq(Url) /\ CacheInv'
           /\ At(url) \in DOMAIN cache
<1>1. /\ cache' \in Seq(CacheEntries)
      /\ \A i \in DOMAIN cache' : \E j \in DOMAIN cache : cache'[i] = cache[j]
      /\ recency' \in Seq(Url) /\ UsedOnce' /\ LastUsedStay'
      /\ At(url) \in DOMAIN cache
  BY CacheTypes, HitIs
<1>2. PutsAreRecent'
  <2>1. \A j \in DOMAIN cache : cache[j].put \in cacheBeginTime .. now
    BY CacheTypes DEF PutsAreRecent
  <2>2. cacheBeginTime' = cacheBeginTime /\ now' = now
    OBVIOUS
  <2>. QED
    BY <1>1, <2>1, <2>2 DEF PutsAreRecent
<1>. QED
  BY <1>1, <1>2 DEF CacheInv

LEMMA IdleIs ==
    /\ IdleQuery \in QueryRecords /\ IdleQuery.pc = "idle" /\ IdleQuery.age = 0
    /\ IdleQuery.time = 0
    /\ CACHE_TIME_S \in Nat
BY AppDetailsAssumption DEF IdleQuery, QueryRecords

(* A query that starts, and one that has missed the cache. *)
LEMMA AskedIs ==
    ASSUME NEW url \in Url, NEW time \in Nat
    PROVE  LET q == [IdleQuery EXCEPT !.pc = "cache", !.url = url, !.time = time]
           IN  /\ q \in QueryRecords /\ q.pc = "cache" /\ q.url = url /\ q.time = time
               /\ q.age = 0
<1>1. ASSUME NEW x \in QueryRecords
      PROVE  LET q == [x EXCEPT !.pc = "cache", !.url = url, !.time = time]
             IN  /\ q \in QueryRecords /\ q.pc = "cache" /\ q.url = url /\ q.time = time
                 /\ q.age = x.age
  BY DEF QueryRecords
<1>. QED
  BY <1>1, IdleIs

LEMMA MissedIs ==
    ASSUME NEW url \in Url
    PROVE  LET q == [IdleQuery EXCEPT !.pc = "rdb", !.url = url]
           IN  /\ q \in QueryRecords /\ q.pc = "rdb" /\ q.url = url /\ q.time = 0
               /\ q.age = 0
<1>1. ASSUME NEW x \in QueryRecords
      PROVE  LET q == [x EXCEPT !.pc = "rdb", !.url = url]
             IN  /\ q \in QueryRecords /\ q.pc = "rdb" /\ q.url = url
                 /\ q.time = x.time /\ q.age = x.age
  BY DEF QueryRecords
<1>. QED
  BY <1>1, IdleIs

LEMMA QueryByCacheIInv ==
    ASSUME DetailsIInv, NEW t \in Thread, QueryAppDetailsWantByCache(t)
    PROVE  DetailsIInv'
<1>. DEFINE url == query[t].url
            time == query[t].time
            missed == [IdleQuery EXCEPT !.pc = "rdb", !.url = url]
<1>1. query[t].pc = "cache" /\ UNCHANGED <<now, details, meta, agWantUrl>>
  BY DEF QueryAppDetailsWantByCache
<1>2. url \in Url /\ time \in 0 .. now
  BY <1>1, CacheTypes DEF DetailsIInv, QueriesHaveUrls, TimesAreRead, QueryRecords
<1>3. CACHE_TIME_S \in Nat /\ now \in Nat /\ cacheBeginTime \in 0 .. now
  BY AppDetailsAssumption, CacheTypes
<1>4. /\ missed \in QueryRecords /\ missed.pc = "rdb" /\ missed.url = url
      /\ missed.time <= now /\ missed.age <= CACHE_TIME_S
  <2>. HIDE DEF url
  <2>1. /\ missed \in QueryRecords /\ missed.pc = "rdb" /\ missed.url = url
        /\ missed.time = 0 /\ missed.age = 0
    BY <1>2, MissedIs
  <2>. HIDE DEF missed
  <2>. QED
    BY <1>3, <2>1
<1>5. SUFFICES /\ cache' \in Seq(CacheEntries) /\ recency' \in Seq(Url)
               /\ cacheBeginTime' \in 0 .. now
               /\ CacheInv'
               /\ QueriesAreFine'
  BY <1>1 DEF DetailsIInv, DetailsTypeOK, CacheEntries, QueryRecords, QueriesAreFine
<1>6. CASE Expired(time) /\ Clear(time) /\ Step(t, missed)
  <2>. HIDE DEF url, time, missed
  <2>1. cacheBeginTime' = time /\ cache' = <<>> /\ recency' = <<>>
    BY <1>6 DEF Clear
  <2>2. CacheInv'
    BY <2>1, CacheTypes DEF CacheInv, UsedOnce, LastUsedStay, PutsAreRecent
  <2>3. cache' \in Seq(CacheEntries) /\ recency' \in Seq(Url) /\ cacheBeginTime' \in 0 .. now
    BY <1>2, <2>1, CacheTypes
  <2>4. QueriesAreFine'
    BY <1>1, <1>2, <1>4, <1>6, StepOfQuery
  <2>. QED
    BY <2>2, <2>3, <2>4
<1>7. CASE /\ ~Expired(time)
           /\ Get(url)
           /\ Step(t, [pc |-> "want", url |-> url, bundleName |-> cache[At(url)].value,
                       time |-> time, age |-> time - cache[At(url)].put])
           /\ UNCHANGED cacheBeginTime
  <2>. DEFINE found == cache[At(url)]
              q == [pc |-> "want", url |-> url, bundleName |-> found.value,
                    time |-> time, age |-> time - found.put]
  <2>. HIDE DEF url, time, missed
  <2>1. url \in Keys /\ cache' = ToFront(url) /\ Used(url) /\ UNCHANGED <<now, cacheBeginTime>>
    BY <1>1, <1>7 DEF Get
  <2>2. /\ cache' \in Seq(CacheEntries) /\ recency' \in Seq(Url) /\ CacheInv'
        /\ At(url) \in DOMAIN cache
    BY <2>1, HitIInv
  <2>3. found \in CacheEntries /\ found.put \in cacheBeginTime .. now
    BY <2>2, CacheTypes DEF PutsAreRecent
  <2>4. found.value \in Bundle /\ found.put \in Nat
    BY <2>3 DEF CacheEntries
  <2>5. time - cacheBeginTime <= CACHE_TIME_S
    BY <1>2, <1>3, <1>7 DEF Expired
  <2>6. time - found.put \in Int /\ time - found.put <= CACHE_TIME_S
    <3>. HIDE DEF found
    <3>. QED
      BY <1>2, <1>3, <2>3, <2>4, <2>5
  <2>7. Step(t, q)
    BY <1>7
  <2>8. /\ q \in QueryRecords /\ q.pc = "want" /\ q.time = time
        /\ q.age = time - found.put
    <3>. HIDE DEF found
    <3>. QED
      BY <1>2, <2>4, <2>6 DEF QueryRecords
  <2>9. QueriesAreFine'
    <3>. HIDE DEF q
    <3>1. q.age <= CACHE_TIME_S /\ q.time <= now
      BY <1>2, <2>6, <2>8
    <3>. QED
      BY <1>1, <2>7, <2>8, <3>1, StepOfQuery
  <2>. QED
    BY <1>3, <2>1, <2>2, <2>9
<1>8. CASE /\ ~Expired(time)
           /\ url \notin Keys
           /\ Step(t, missed)
           /\ UNCHANGED <<cache, cacheBeginTime, recency>>
  <2>. HIDE DEF url, time, missed
  <2>1. CacheInv /\ UNCHANGED <<now, cache, cacheBeginTime, recency>>
    BY <1>1, <1>8 DEF DetailsIInv
  <2>2. CacheInv'
    BY <2>1, SameCache
  <2>3. QueriesAreFine'
    BY <1>1, <1>2, <1>4, <1>8, StepOfQuery
  <2>. QED
    BY <1>8, <2>2, <2>3, CacheTypes
<1>. QED
  BY <1>6, <1>7, <1>8 DEF QueryAppDetailsWantByCache

(* The steps of a query that leave the cache alone. *)
LEMMA OtherStepIInv ==
    ASSUME DetailsIInv, NEW t \in Thread, NEW q \in QueryRecords, Step(t, q),
           q.pc \in {"cache", "rdb", "put"} => q.url \in Url,
           q.pc = "put" => q.bundleName \in Bundle,
           q.time <= now, q.age <= CACHE_TIME_S,
           UNCHANGED <<now, details, meta, cache, cacheBeginTime, recency>>,
           agWantUrl' \in Prefix \cup {Nothing}
    PROVE  DetailsIInv'
<1>1. QueriesAreFine'
  BY StepOfQuery
<1>2. CacheInv'
  BY SameCache DEF DetailsIInv
<1>. QED
  BY <1>1, <1>2 DEF DetailsIInv, DetailsTypeOK, QueryRecords, QueriesAreFine

LEMMA ReadClockIInv ==
    ASSUME DetailsIInv, NEW t \in Thread, NEW url \in Url, ReadClock(t, url)
    PROVE  DetailsIInv'
<1>. DEFINE q == [IdleQuery EXCEPT !.pc = "cache", !.url = url, !.time = now]
<1>1. /\ Step(t, q)
      /\ UNCHANGED <<now, details, meta, cache, cacheBeginTime, agWantUrl, recency>>
  BY DEF ReadClock
<1>2. CACHE_TIME_S \in Nat /\ now \in Nat
  BY AppDetailsAssumption, CacheTypes
<1>3. /\ q \in QueryRecords /\ q.pc = "cache" /\ q.url = url /\ q.time = now
      /\ q.age = 0
  BY <1>2, AskedIs
<1>. HIDE DEF q
<1>4. agWantUrl' \in Prefix \cup {Nothing}
  BY <1>1 DEF DetailsIInv, DetailsTypeOK
<1>5. q.time <= now /\ q.age <= CACHE_TIME_S
  BY <1>2, <1>3
<1>. QED
  BY <1>1, <1>3, <1>4, <1>5, OtherStepIInv

LEMMA QueryByRdbIInv ==
    ASSUME DetailsIInv, NEW t \in Thread, QueryDataByDomain(t)
    PROVE  DetailsIInv'
<1>1. /\ query[t].pc = "rdb"
      /\ UNCHANGED <<now, details, meta, cache, cacheBeginTime, agWantUrl, recency>>
  BY DEF QueryDataByDomain
<1>2. agWantUrl' \in Prefix \cup {Nothing}
  BY <1>1 DEF DetailsIInv, DetailsTypeOK
<1>3. CASE Step(t, IdleQuery)
  <2>1. IdleQuery.age <= CACHE_TIME_S /\ IdleQuery.time <= now
    BY IdleIs, CacheTypes
  <2>. QED
    BY <1>1, <1>2, <1>3, <2>1, IdleIs, OtherStepIInv
<1>. DEFINE q == [query[t] EXCEPT !.pc = "put", !.bundleName = details[query[t].url]]
<1>4. CASE details # NoTable /\ details[query[t].url] # Nothing /\ Step(t, q)
  <2>1. details \in Rows
    BY <1>4 DEF DetailsIInv, DetailsTypeOK
  <2>2. /\ query[t].url \in Url /\ query[t] \in QueryRecords
        /\ query[t].time <= now /\ query[t].age <= CACHE_TIME_S
    BY <1>1, CacheTypes DEF DetailsIInv, QueriesHaveUrls, TimesAreRead, AnswerIsRecent
  <2>3. details[query[t].url] \in Bundle
    BY <1>4, <2>1, <2>2 DEF Rows
  <2>4. /\ q \in QueryRecords /\ q.pc = "put" /\ q.url = query[t].url
        /\ q.bundleName = details[query[t].url]
        /\ q.time = query[t].time /\ q.age = query[t].age
    BY <2>2, <2>3 DEF QueryRecords
  <2>. HIDE DEF q
  <2>. QED
    BY <1>1, <1>2, <1>4, <2>2, <2>3, <2>4, OtherStepIInv
<1>. QED
  BY <1>3, <1>4 DEF QueryDataByDomain

LEMMA AddInfoIInv ==
    ASSUME DetailsIInv, NEW t \in Thread, AddInfoToWant(t)
    PROVE  DetailsIInv'
<1>1. Step(t, IdleQuery) /\ UNCHANGED <<now, details, meta, cache, cacheBeginTime, recency>>
  BY DEF AddInfoToWant
<1>2. agWantUrl' \in Prefix \cup {Nothing}
  BY DEF AddInfoToWant, DetailsIInv, DetailsTypeOK
<1>3. IdleQuery.age <= CACHE_TIME_S /\ IdleQuery.time <= now
  BY IdleIs, CacheTypes
<1>. QED
  BY <1>1, <1>2, <1>3, IdleIs, OtherStepIInv

LEMMA PutIInvDetails ==
    ASSUME DetailsIInv, NEW t \in Thread, PutBundleName(t)
    PROVE  DetailsIInv'
<1>. DEFINE url == query[t].url
            value == query[t].bundleName
            q == [query[t] EXCEPT !.pc = "want"]
            fresh == [key |-> url, value |-> value, put |-> now]
<1>1. query[t].pc = "put" /\ Put(url, value) /\ Step(t, q)
  BY DEF PutBundleName
<1>2. UNCHANGED <<now, details, meta, cacheBeginTime, agWantUrl>>
  BY DEF PutBundleName
<1>3. /\ url \in Url /\ value \in Bundle /\ query[t] \in QueryRecords
      /\ query[t].time <= now /\ query[t].age <= CACHE_TIME_S
  BY <1>1, CacheTypes DEF DetailsIInv, QueriesHaveUrls, TimesAreRead, AnswerIsRecent
<1>4. /\ q \in QueryRecords /\ q.pc = "want"
      /\ q.time = query[t].time /\ q.age = query[t].age
  BY <1>3 DEF QueryRecords
<1>5. QueriesAreFine'
  <2>. HIDE DEF q
  <2>. QED
    BY <1>1, <1>2, <1>3, <1>4, StepOfQuery
<1>6. fresh \in CacheEntries /\ fresh.key = url /\ fresh.put = now
  BY <1>3, CacheTypes DEF CacheEntries
<1>7. Used(url) /\ (url \in Keys => cache' = ToFront(url)) /\ (url \notin Keys => Pushed(fresh))
  BY <1>1 DEF Put, Pushed
<1>. HIDE DEF url, value, q, fresh
<1>8. cache' \in Seq(CacheEntries) /\ recency' \in Seq(Url) /\ CacheInv'
  <2>1. CASE url \in Keys
    BY <1>2, <1>7, <2>1, HitIInv
  <2>2. CASE url \notin Keys
    <3>1. /\ cache' \in Seq(CacheEntries)
          /\ \A i \in DOMAIN cache' :
               cache'[i] = fresh \/ \E j \in DOMAIN cache : cache'[i] = cache[j]
          /\ recency' \in Seq(Url)
          /\ UsedOnce'
          /\ LastUsedStay'
      BY <1>3, <1>6, <1>7, <2>2, CacheTypes, MissIs
    <3>2. \A j \in DOMAIN cache : cache[j].put \in cacheBeginTime .. now
      BY CacheTypes DEF PutsAreRecent
    <3>3. fresh.put \in cacheBeginTime .. now
      BY <1>6, CacheTypes
    <3>4. PutsAreRecent'
      BY <1>2, <3>1, <3>2, <3>3 DEF PutsAreRecent
    <3>. QED
      BY <3>1, <3>4 DEF CacheInv
  <2>. QED
    BY <2>1, <2>2
<1>. QED
  BY <1>2, <1>5, <1>8 DEF DetailsIInv, DetailsTypeOK, CacheEntries, QueryRecords, QueriesAreFine

LEMMA ExecIInv ==
    ASSUME DetailsIInv, NEW rows \in Rows \cup {NoTable}, ExecWithTrans(rows)
    PROVE  DetailsIInv'
<1>1. details' = rows /\ UNCHANGED <<now, meta, cache, cacheBeginTime, agWantUrl, query, recency>>
  BY DEF ExecWithTrans
<1>2. CacheInv'
  BY <1>1, SameCache DEF DetailsIInv
<1>. QED
  BY <1>1, <1>2
     DEF DetailsIInv, DetailsTypeOK, QueriesHaveUrls, TimesAreRead, AnswerIsRecent

LEMMA NextDetailsIInv == DetailsIInv /\ [NextDetails]_detailsVars => DetailsIInv'
<1>. SUFFICES ASSUME DetailsIInv, [NextDetails]_detailsVars PROVE DetailsIInv'
  OBVIOUS
<1>1. CASE \/ \E t \in Thread, url \in Url : ReadClock(t, url)
           \/ \E t \in Thread : QueryAppDetailsWantByCache(t)
  BY <1>1, ReadClockIInv, QueryByCacheIInv
<1>2. CASE \E t \in Thread : QueryDataByDomain(t) \/ PutBundleName(t) \/ AddInfoToWant(t)
  BY <1>2, QueryByRdbIInv, PutIInvDetails, AddInfoIInv
<1>3. CASE \E rows \in Rows \cup {NoTable} : ExecWithTrans(rows)
  BY <1>3, ExecIInv
<1>4. CASE \E prefix \in Prefix : UpdateMetaData(prefix)
  <2>1. CacheInv'
    BY <1>4, SameCache DEF DetailsIInv, UpdateMetaData
  <2>. QED
    BY <1>4, <2>1 DEF UpdateMetaData, DetailsIInv, DetailsTypeOK, QueriesHaveUrls, TimesAreRead, AnswerIsRecent
<1>5. CASE TickClock
  <2>1. now' = now + 1 /\ UNCHANGED <<details, meta, cache, cacheBeginTime, agWantUrl, query, recency>>
    BY <1>5 DEF TickClock
  <2>2. now \in Nat /\ cacheBeginTime \in 0 .. now
    BY CacheTypes
  <2>3. PutsAreRecent'
    <3>1. \A j \in DOMAIN cache : cache[j].put \in cacheBeginTime .. now
      BY CacheTypes DEF PutsAreRecent
    <3>. QED
      BY <2>1, <2>2, <3>1 DEF PutsAreRecent
  <2>4. CacheInv'
    BY <2>1, <2>3 DEF DetailsIInv, CacheInv, UsedOnce, LastUsedStay
  <2>5. now' \in Nat /\ cacheBeginTime' \in 0 .. now'
    BY <2>1, <2>2
  <2>6. TimesAreRead'
    <3>1. \A t \in Thread : query[t].time \in Nat /\ query[t].time <= now
      BY CacheTypes DEF DetailsIInv, TimesAreRead, QueryRecords
    <3>. QED
      BY <2>1, <2>2, <3>1 DEF TimesAreRead
  <2>. QED
    BY <2>1, <2>4, <2>5, <2>6 DEF DetailsIInv, DetailsTypeOK, QueriesHaveUrls, AnswerIsRecent
<1>6. CASE UNCHANGED detailsVars
  <2>1. UNCHANGED <<now, details, meta, cache, cacheBeginTime, agWantUrl, query, recency>>
    BY <1>6 DEF detailsVars
  <2>2. CacheInv'
    BY <2>1, SameCache DEF DetailsIInv
  <2>. QED
    BY <2>1, <2>2 DEF DetailsIInv, DetailsTypeOK, QueriesHaveUrls, TimesAreRead, AnswerIsRecent
<1>. QED
  BY <1>1, <1>2, <1>3, <1>4, <1>5, <1>6 DEF NextDetails

(* The invariant of the details holds in every behaviour of their readers  *)
(* and the vendor: a cache and its history that agree.                     *)
THEOREM SpecDetailsIInv == SpecDetails => []DetailsIInv
<1>. QED
  BY InitDetailsIInv, NextDetailsIInv, PTL DEF SpecDetails

(* The state of the app details has its types. *)
THEOREM SpecDetailsTypeOK == SpecDetails => []DetailsTypeOK
<1>1. DetailsIInv => DetailsTypeOK
  BY DEF DetailsIInv
<1>. QED
  BY <1>1, SpecDetailsIInv, PTL

(* The LRU cache has the last used urls in their order, whatever threads   *)
(* put into it after it was emptied under them.                            *)
THEOREM SpecLastUsedStay == SpecDetails => []LastUsedStay
<1>1. DetailsIInv => LastUsedStay
  BY DEF DetailsIInv, CacheInv
<1>. QED
  BY <1>1, SpecDetailsIInv, PTL

(* An answer from the cache was put at most CACHE_TIME_S before its query  *)
(* read the clock, whatever happened while it waited for the lock.         *)
THEOREM SpecAnswerIsRecent == SpecDetails => []AnswerIsRecent
<1>1. DetailsIInv => AnswerIsRecent
  BY DEF DetailsIInv
<1>. QED
  BY <1>1, SpecDetailsIInv, PTL
===============================================================================
