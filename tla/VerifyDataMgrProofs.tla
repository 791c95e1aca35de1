------------------------- MODULE VerifyDataMgrProofs -------------------------
(***************************************************************************)
(* Proofs about VerifyDataMgr, for any number of bundles, hosts, apps and  *)
(* statuses and any bound on the rows.                                     *)
(*                                                                         *)
(* None of the safety invariants is inductive: what the table holds while  *)
(* a writer is between DeleteData and its last InsertData has to be said   *)
(* as well.  Filling says it: the rows written so far are those of the     *)
(* entry in memory, less the hosts still pending.                          *)
(***************************************************************************)
EXTENDS VerifyDataMgr, WellFoundedInduction, TLAPS

(* The rows of b are those of entry e, less the hosts in pending. *)
RowsShow(b, e, pending) ==
    /\ \A r \in RowsOf(b) :
        /\ r.appIdentifier = e.appIdentifier
        /\ r.status = e.hosts[r.domain]
        /\ r.domain \notin pending
    /\ \A h \in Hosts(e.hosts) \ pending : \E r \in RowsOf(b) : r.domain = h

(* Where the writer stands. *)
Writer ==
    /\ op.step = "idle" <=> op.bundle = NoName
    /\ op.step # "idle" => running /\ acked[op.bundle] = Unknown
    /\ op.step \in {"wipe", "fill"} =>
        /\ verifyMap[op.bundle] # None
        /\ op.pending \subseteq Hosts(verifyMap[op.bundle].hosts)
    /\ op.step = "wipe" => op.pending = Hosts(verifyMap[op.bundle].hosts)
    /\ op.step = "erase" => verifyMap[op.bundle] = None

Filling ==
    op.step = "fill" /\ op.bundle \notin tainted =>
        RowsShow(op.bundle, verifyMap[op.bundle], op.pending)

Down == ~running => op = Idle /\ verifyMap = [b \in Bundle |-> None]

(* The inductive invariant. *)
IInv ==
    /\ TypeOK
    /\ OneRowPerHost
    /\ TableMatchesMemory
    /\ AckedSurvives
    /\ Writer
    /\ Filling
    /\ Down
-----------------------------------------------------------------------------
(* A bundle with rows has a first one: IDs are natural numbers. *)
LEMMA FirstInSet ==
    ASSUME NEW S, S # {}, \A r \in S : r.id \in Nat
    PROVE  First(S) \in S /\ \A q \in S : First(S).id <= q.id
<1> DEFINE Ids == {r.id : r \in S}
           R == OpToRel(<, Nat)
<1>1. IsWellFoundedOn(R, Nat)
  BY NatLessThanWellFounded
<1>2. Ids \subseteq Nat /\ Ids # {}
  OBVIOUS
<1>2a. \A m, n \in Nat : m < n => <<m, n>> \in R
  BY DEF OpToRel
<1> HIDE DEF Ids, R
<1>3. PICK n \in Ids : \A m \in Ids : ~(<<m, n>> \in R)
  BY <1>1, <1>2, WFMin
<1>4. ASSUME NEW m \in Ids PROVE n <= m
  <2>1. m \in Nat /\ n \in Nat
    BY <1>2, <1>3
  <2>2. ~(m < n)
    BY <1>2a, <1>3, <2>1, Zenon
  <2> QED
    BY <2>1, <2>2
<1>5. PICK r \in S : r.id = n
  BY <1>3 DEF Ids
<1>6. \E s \in S : \A q \in S : s.id <= q.id
  BY <1>4, <1>5 DEF Ids
<1> QED
  BY <1>6 DEF First

(* A table that shows an entry, one row per host, loads as that entry. *)
LEMMA LoadedShown ==
    ASSUME NEW b \in Bundle, NEW e \in VerifyResultInfo,
           table \subseteq RdbDataItem,
           RowsShow(b, e, {}),
           \A r, q \in RowsOf(b) : r.domain = q.domain => r = q
    PROVE  Loaded(b) = Persisted(e)
<1>1. e # None /\ e # Unknown
  BY SentinelAssumption
<1>2. \A r \in RowsOf(b) : r \in RdbDataItem /\ r.id \in Nat
  BY DataMgrAssumption DEF RowsOf, RdbDataItem
<1>3. CASE RowsOf(b) = {}
  BY <1>1, <1>3 DEF RowsShow, Loaded, Persisted
<1>4. CASE RowsOf(b) # {}
  <2>1. First(RowsOf(b)) \in RowsOf(b)
    BY <1>2, <1>4, FirstInSet
  <2>2. First(RowsOf(b)).appIdentifier = e.appIdentifier
    BY <2>1 DEF RowsShow
  <2> DEFINE ofHost(h) == {r \in RowsOf(b) : r.domain = h}
  <2>3. ASSUME NEW h \in Host
        PROVE  (IF ofHost(h) = {} THEN None ELSE First(ofHost(h)).status) = e.hosts[h]
    <3>1. CASE ofHost(h) = {}
      BY <3>1 DEF RowsShow, Hosts
    <3>2. CASE ofHost(h) # {}
      <4>1. First(ofHost(h)) \in ofHost(h)
        BY <1>2, <3>2, FirstInSet
      <4> QED
        BY <3>2, <4>1 DEF RowsShow
    <3> QED
      BY <3>1, <3>2
  <2>4. [h \in Host |-> IF ofHost(h) = {} THEN None ELSE First(ofHost(h)).status]
          = e.hosts
    BY <2>3 DEF VerifyResultInfo, HostVerifyStatusMap
  <2>5. Hosts(e.hosts) # {}
    <3>1. PICK r \in RowsOf(b) : TRUE
      BY <1>4
    <3>2. r.domain \in Host /\ e.hosts[r.domain] \in Status
      BY <1>2 DEF RowsShow, RdbDataItem
    <3> QED
      BY <3>2, DataMgrAssumption DEF Hosts
  <2>6. DBToVerifyResultInfo(RowsOf(b)) = e
    BY <2>2, <2>4 DEF DBToVerifyResultInfo, VerifyResultInfo
  <2> QED
    BY <1>1, <1>4, <2>5, <2>6 DEF Loaded, Persisted
<1> QED
  BY <1>3, <1>4

(* Whatever the table holds, LoadData makes entries of it that have rows. *)
LEMMA LoadedType ==
    ASSUME NEW b \in Bundle, table \subseteq RdbDataItem
    PROVE  /\ Loaded(b) \in VerifyResultInfo \cup {None}
           /\ Persisted(Loaded(b)) = Loaded(b)
           /\ RowsOf(b) # {} => Loaded(b) # None
<1>1. CASE RowsOf(b) = {}
  BY <1>1 DEF Loaded, Persisted
<1>2. CASE RowsOf(b) # {}
  <2>1. \A r \in RowsOf(b) : r \in RdbDataItem /\ r.id \in Nat
    BY DataMgrAssumption DEF RowsOf, RdbDataItem
  <2>2. First(RowsOf(b)) \in RowsOf(b)
    BY <1>2, <2>1, FirstInSet
  <2> DEFINE ofHost(h) == {r \in RowsOf(b) : r.domain = h}
             m == [h \in Host |->
                    IF ofHost(h) = {} THEN None ELSE First(ofHost(h)).status]
  <2>3. ASSUME NEW h \in Host, ofHost(h) # {}
        PROVE  m[h] \in Status
    <3>1. First(ofHost(h)) \in ofHost(h)
      BY <2>1, <2>3, FirstInSet
    <3> QED
      BY <2>1, <2>3, <3>1 DEF RdbDataItem
  <2>4. m \in HostVerifyStatusMap
    BY <2>3 DEF HostVerifyStatusMap
  <2>5. Loaded(b) = [appIdentifier |-> First(RowsOf(b)).appIdentifier, hosts |-> m]
    BY <1>2 DEF Loaded, DBToVerifyResultInfo
  <2>6. First(RowsOf(b)).appIdentifier \in App
    BY <2>1, <2>2 DEF RdbDataItem
  <2>7. First(RowsOf(b)).domain \in Host /\ ofHost(First(RowsOf(b)).domain) # {}
    BY <2>1, <2>2 DEF RdbDataItem
  <2>8. First(RowsOf(b)).domain \in Hosts(m)
    BY <2>3, <2>7, DataMgrAssumption DEF Hosts
  <2> HIDE DEF m
  <2>9. Loaded(b) \in VerifyResultInfo
    BY <2>4, <2>5, <2>6 DEF VerifyResultInfo
  <2>10. Loaded(b).hosts = m
    BY <2>5
  <2> QED
    BY <2>8, <2>9, <2>10, SentinelAssumption DEF Persisted
<1> QED
  BY <1>1, <1>2

(* Loaded(b) depends on nothing but the rows of b. *)
LEMMA LoadedLocal ==
    ASSUME NEW b \in Bundle, RowsOf(b)' = RowsOf(b)
    PROVE  Loaded(b)' = Loaded(b)
  BY DEF Loaded, DBToVerifyResultInfo, First

(* A step that leaves the table alone leaves what it loads alone. *)
LEMMA TableKept ==
    ASSUME table' = table, NEW b \in Bundle
    PROVE  RowsOf(b)' = RowsOf(b) /\ Loaded(b)' = Loaded(b)
<1>1. RowsOf(b)' = RowsOf(b)
  BY DEF RowsOf
<1> QED
  BY <1>1, LoadedLocal

(* DeleteData of one bundle leaves the rows of the others. *)
LEMMA RowsDeleted ==
    ASSUME NEW c \in Bundle, table' = table \ RowsOf(c), NEW b \in Bundle
    PROVE  /\ b = c => RowsOf(b)' = {} /\ Loaded(b)' = None
           /\ b # c => RowsOf(b)' = RowsOf(b) /\ Loaded(b)' = Loaded(b)
<1>1. b = c => RowsOf(b)' = {}
  BY DEF RowsOf
<1>2. b # c => RowsOf(b)' = RowsOf(b)
  BY DEF RowsOf
<1>3. b = c => Loaded(b)' = None
  BY <1>1 DEF Loaded
<1> QED
  BY <1>1, <1>2, <1>3, LoadedLocal

(* A writer holds the lock on a bundle that has a name. *)
LEMMA WriterBundle ==
    ASSUME IInv, op.step # "idle"
    PROVE  op.bundle \in Bundle
  BY DEF IInv, Writer, TypeOK
-----------------------------------------------------------------------------
LEMMA InitIInv == Init => IInv
<1> SUFFICES ASSUME Init PROVE IInv
  OBVIOUS
<1>1. TypeOK
  BY DEF Init, TypeOK, Idle
<1>2. \A b \in Bundle : RowsOf(b) = {} /\ Loaded(b) = None
  BY DEF Init, RowsOf, Loaded
<1>3. TableMatchesMemory /\ AckedSurvives
  BY <1>2 DEF Init, TableMatchesMemory, AckedSurvives, Persisted
<1> QED
  BY <1>1, <1>3 DEF Init, IInv, OneRowPerHost, Writer, Filling, Down, Idle

(* The three calls: the memory changes, the writer takes the lock. *)
LEMMA LockStep ==
    ASSUME IInv, NEW b \in Bundle \cup {NoName}, NEW info \in VerifyResultInfo,
           \/ InsertVerifyStatus(b, info)
           \/ UpdateVerifyStatus(b, info)
           \/ DeleteVerifyStatus(b)
    PROVE  IInv'
<1> USE DEF IInv
<1>1. b \in Bundle /\ b # NoName /\ running /\ op = Idle
  BY DataMgrAssumption DEF InsertVerifyStatus, UpdateVerifyStatus, DeleteVerifyStatus, Lock,
     GetParamKey
<1>2. table' = table /\ tainted' = tainted /\ behind' = behind /\ running' = running
  BY DEF InsertVerifyStatus, UpdateVerifyStatus, DeleteVerifyStatus, Lock
<1>3. acked' = [acked EXCEPT ![b] = Unknown]
  BY DEF InsertVerifyStatus, UpdateVerifyStatus, DeleteVerifyStatus, Lock
<1>4. \A c \in Bundle : Loaded(c)' = Loaded(c)
  BY <1>2, TableKept
<1>5. \/ /\ op' = [step |-> "wipe", bundle |-> b,
                   pending |-> Hosts(verifyMap'[b].hosts)]
         /\ verifyMap'[b] \in VerifyResultInfo
      \/ /\ op' = [step |-> "erase", bundle |-> b, pending |-> {}]
         /\ verifyMap'[b] = None
  <2>1. CASE InsertVerifyStatus(b, info)
    BY <2>1, <1>1 DEF InsertVerifyStatus, Lock, TypeOK
  <2>2. CASE UpdateVerifyStatus(b, info)
    <3> DEFINE old == verifyMap[b]
               new == UpdateVerifyMap(old, info)
    <3>1. verifyMap'[b] = new /\ old \in VerifyResultInfo
      BY <2>2, <1>1 DEF UpdateVerifyStatus, TypeOK
    <3>2. new \in VerifyResultInfo
      BY <3>1 DEF UpdateVerifyMap, VerifyResultInfo, HostVerifyStatusMap
    <3>3. Hosts(new.hosts) = Hosts(old.hosts)
      BY <3>1, DataMgrAssumption
      DEF UpdateVerifyMap, VerifyResultInfo, HostVerifyStatusMap, Hosts
    <3> HIDE DEF new
    <3> QED
      BY <2>2, <3>1, <3>2, <3>3 DEF UpdateVerifyStatus, Lock
  <2>3. CASE DeleteVerifyStatus(b)
    BY <2>3, <1>1 DEF DeleteVerifyStatus, Lock, TypeOK
  <2> QED
    BY <2>1, <2>2, <2>3
<1>6. \A c \in Bundle \ {b} : verifyMap'[c] = verifyMap[c]
  BY DEF InsertVerifyStatus, UpdateVerifyStatus, DeleteVerifyStatus, TypeOK
<1>7. TypeOK'
  <2>1. verifyMap' \in [Bundle -> VerifyResultInfo \cup {None}]
    <3>1. verifyMap' = [verifyMap EXCEPT ![b] = verifyMap'[b]]
      BY <1>1 DEF InsertVerifyStatus, UpdateVerifyStatus, DeleteVerifyStatus, TypeOK
    <3> QED
      BY <1>1, <1>5, <3>1 DEF TypeOK
  <2>2. op' \in [step : {"idle", "wipe", "fill", "erase"},
                 bundle : Bundle \cup {NoName}, pending : SUBSET Host]
    BY <1>1, <1>5 DEF Hosts
  <2>3. acked' \in [Bundle -> VerifyResultInfo \cup {None, Unknown}]
    BY <1>1, <1>3 DEF TypeOK
  <2> QED
    BY <1>2, <2>1, <2>2, <2>3 DEF TypeOK
<1>8. OneRowPerHost'
  BY <1>2 DEF OneRowPerHost
<1>9. TableMatchesMemory'
  <2>1. ASSUME NEW c \in Bundle, Settled(c)' PROVE Settled(c) /\ c # b
    BY <2>1, <1>1, <1>2, <1>5, DataMgrAssumption DEF Settled, Idle
  <2> QED
    BY <2>1, <1>4, <1>6 DEF TableMatchesMemory
<1>10. AckedSurvives'
  BY <1>1, <1>2, <1>3, <1>4 DEF AckedSurvives, TypeOK
<1>11. Writer'
  <2>1. verifyMap'[b] \in VerifyResultInfo => verifyMap'[b] # None
    BY SentinelAssumption
  <2> QED
    BY <2>1, <1>1, <1>2, <1>3, <1>5 DEF Writer, TypeOK
<1>12. Filling' /\ Down'
  BY <1>1, <1>2, <1>5 DEF Filling, Down
<1> QED
  BY <1>7, <1>8, <1>9, <1>10, <1>11, <1>12

(* DeleteData before the inserts, done or failed. *)
LEMMA WipeStep ==
    ASSUME IInv, WipeRows \/ WipeFails
    PROVE  IInv'
<1> USE DEF IInv
<1>0. PICK b \in Bundle : b = op.bundle
  BY WriterBundle DEF WipeRows, WipeFails
<1>1. op.step = "wipe" /\ running
  BY DEF WipeRows, WipeFails, Writer
<1>2. op' = [step |-> "fill", bundle |-> b, pending |-> op.pending]
  BY <1>0 DEF WipeRows, WipeFails, TypeOK
<1>3. UNCHANGED <<running, verifyMap, acked, behind>>
  BY DEF WipeRows, WipeFails
<1>4. ASSUME NEW c \in Bundle, c # b
      PROVE  /\ RowsOf(c)' = RowsOf(c)
             /\ Loaded(c)' = Loaded(c)
             /\ c \in tainted' <=> c \in tainted
  BY <1>0, <1>4, RowsDeleted, TableKept DEF WipeRows, WipeFails
<1>5. b \notin tainted' => RowsOf(b)' = {}
  BY <1>0, RowsDeleted, TableKept DEF WipeRows, WipeFails
<1>6. table' \subseteq table /\ tainted' \subseteq Bundle
  BY <1>0 DEF WipeRows, WipeFails, TypeOK
<1>7. TypeOK'
  BY <1>1, <1>2, <1>3, <1>6 DEF TypeOK
<1>8. OneRowPerHost'
  <2> SUFFICES ASSUME NEW r \in table', NEW q \in table',
                      r.bundleName = q.bundleName, r.bundleName \notin tainted'
               PROVE  /\ r.appIdentifier = q.appIdentifier
                      /\ r.domain = q.domain => r = q
    BY DEF OneRowPerHost
  <2>1. r.bundleName # b
    BY <1>5 DEF RowsOf
  <2>2. r \in table /\ q \in table /\ r.bundleName \in Bundle
    BY <1>6 DEF TypeOK, RdbDataItem
  <2> QED
    BY <1>4, <2>1, <2>2 DEF OneRowPerHost
<1>9. TableMatchesMemory'
  <2> SUFFICES ASSUME NEW c \in Bundle, Settled(c)'
               PROVE  Loaded(c)' = Persisted(verifyMap[c])'
    BY DEF TableMatchesMemory
  <2>1. Settled(c) /\ c # b
    BY <1>0, <1>2, <1>3, <1>4 DEF Settled
  <2>2. Loaded(c)' = Loaded(c) /\ verifyMap' = verifyMap
    BY <1>3, <1>4, <2>1
  <2> QED
    BY <2>1, <2>2 DEF TableMatchesMemory, Persisted, Hosts
<1>10. AckedSurvives'
  <2> SUFFICES ASSUME NEW c \in Bundle \ tainted', acked[c] # Unknown
               PROVE  Loaded(c)' = Persisted(acked[c])
    BY <1>3 DEF AckedSurvives, Persisted, Hosts
  <2>1. c # b
    BY <1>0, <1>1 DEF Writer
  <2> QED
    BY <1>4, <2>1 DEF AckedSurvives
<1>11. Writer'
  BY <1>0, <1>1, <1>2, <1>3, DataMgrAssumption DEF Writer, TypeOK
<1>12. Filling'
  <2>1. verifyMap[b] \in VerifyResultInfo /\ op.pending = Hosts(verifyMap[b].hosts)
    BY <1>0, <1>1, SentinelAssumption DEF Writer, TypeOK
  <2> QED
    BY <1>2, <1>3, <1>5, <2>1 DEF Filling, RowsShow
<1>13. Down'
  BY <1>1, <1>3 DEF Down
<1> QED
  BY <1>7, <1>8, <1>9, <1>10, <1>11, <1>12, <1>13

(* One row more: the host was pending, so it had none. *)
LEMMA FillRowStep ==
    ASSUME IInv, NEW h \in Host, FillRow(h)
    PROVE  IInv'
<1> USE DEF IInv
<1>0. PICK b \in Bundle : b = op.bundle
  BY WriterBundle DEF FillRow
<1>1. op.step = "fill" /\ h \in op.pending
  BY DEF FillRow
<1>e. PICK e : e = verifyMap[b]
  OBVIOUS
<1>2. /\ e \in VerifyResultInfo /\ op.pending \subseteq Hosts(e.hosts)
      /\ running /\ acked[b] = Unknown
  BY <1>0, <1>1, <1>e DEF Writer, TypeOK
<1>3. UNCHANGED <<running, verifyMap, acked, tainted, behind>>
  BY DEF FillRow
<1>4. op' = [step |-> "fill", bundle |-> b, pending |-> op.pending \ {h}]
  BY <1>0, <1>1 DEF FillRow, TypeOK
<1>5. PICK id \in 1 .. MaxRows : InsertData(b, h, id)
  BY <1>0 DEF FillRow
<1> DEFINE row == [bundleName |-> b, appIdentifier |-> e.appIdentifier, domain |-> h,
                   status |-> e.hosts[h], id |-> id]
<1>6. table' = table \cup {row}
  BY <1>5, <1>e DEF InsertData
<1>7. row \in RdbDataItem
  BY <1>1, <1>2, <1>5 DEF RdbDataItem, VerifyResultInfo, HostVerifyStatusMap, Hosts
<1>8. row.bundleName = b /\ row.appIdentifier = e.appIdentifier /\ row.domain = h
        /\ row.status = e.hosts[h]
  OBVIOUS
<1> HIDE DEF row
<1>9. RowsOf(b)' = RowsOf(b) \cup {row}
  BY <1>6, <1>8 DEF RowsOf
<1>10. ASSUME NEW c \in Bundle, c # b
       PROVE  RowsOf(c)' = RowsOf(c) /\ Loaded(c)' = Loaded(c)
  <2>1. RowsOf(c)' = RowsOf(c)
    BY <1>6, <1>8, <1>10 DEF RowsOf
  <2> QED
    BY <2>1, LoadedLocal
<1>11. TypeOK'
  BY <1>3, <1>4, <1>6, <1>7, <1>1 DEF TypeOK
<1>12. OneRowPerHost'
  <2>1. ASSUME b \notin tainted, NEW r \in table, r.bundleName = b
        PROVE  r.appIdentifier = e.appIdentifier /\ r.domain # h
    BY <2>1, <1>0, <1>1, <1>e DEF Filling, RowsShow, RowsOf
  <2> QED
    BY <2>1, <1>3, <1>6, <1>8 DEF OneRowPerHost
<1>13. TableMatchesMemory'
  <2>1. ASSUME NEW c \in Bundle, Settled(c)' PROVE Settled(c) /\ c # b
    BY <2>1, <1>0, <1>3, <1>4 DEF Settled
  <2> QED
    BY <2>1, <1>3, <1>10 DEF TableMatchesMemory
<1>14. AckedSurvives'
  BY <1>0, <1>2, <1>3, <1>10 DEF AckedSurvives
<1>15. Writer'
  BY <1>0, <1>1, <1>2, <1>3, <1>4, <1>e DEF Writer
<1>16. Filling'
  <2> SUFFICES ASSUME b \notin tainted
               PROVE  RowsShow(b, e, op.pending)'
    BY <1>3, <1>4, <1>e DEF Filling
  <2>1. RowsShow(b, e, op.pending)
    BY <1>0, <1>1, <1>e DEF Filling
  <2>2. ASSUME NEW r \in RowsOf(b)'
        PROVE  /\ r.appIdentifier = e.appIdentifier
               /\ r.status = e.hosts[r.domain]
               /\ r.domain \notin op.pending \ {h}
    BY <2>1, <1>8, <1>9 DEF RowsShow
  <2>3. ASSUME NEW g \in Hosts(e.hosts) \ (op.pending \ {h})
        PROVE  \E r \in RowsOf(b)' : r.domain = g
    BY <2>1, <1>8, <1>9 DEF RowsShow
  <2> QED
    BY <2>2, <2>3, <1>3, <1>4 DEF RowsShow
<1>17. Down'
  BY <1>2, <1>3 DEF Down
<1> QED
  BY <1>11, <1>12, <1>13, <1>14, <1>15, <1>16, <1>17

(* The call ends and the table is left as it is. *)
LEMMA ReleaseStep ==
    ASSUME IInv, FillFails \/ FillDone \/ EraseFails
    PROVE  IInv'
<1> USE DEF IInv
<1>0. PICK b \in Bundle : b = op.bundle
  BY WriterBundle DEF FillFails, FillDone, EraseFails
<1>1. running /\ op' = Idle
  BY DEF FillFails, FillDone, EraseFails, Writer
<1>2. UNCHANGED <<running, verifyMap, table, tainted>>
  BY DEF FillFails, FillDone, EraseFails
<1>3. \A c \in Bundle : Loaded(c)' = Loaded(c)
  BY <1>2, TableKept
<1>4. TypeOK'
  BY <1>0, <1>1, <1>2 DEF FillFails, FillDone, EraseFails, TypeOK, Idle
<1>5. OneRowPerHost' /\ Down'
  BY <1>1, <1>2 DEF OneRowPerHost, Down
<1>6. Writer' /\ Filling'
  BY <1>1 DEF Writer, Filling, Idle
<1>7. FillDone /\ b \notin tainted => Loaded(b) = Persisted(verifyMap[b])
  <2> SUFFICES ASSUME FillDone, b \notin tainted
               PROVE  Loaded(b) = Persisted(verifyMap[b])
    OBVIOUS
  <2>1. verifyMap[b] \in VerifyResultInfo /\ op.step = "fill" /\ op.pending = {}
    BY <1>0 DEF FillDone, Writer, TypeOK
  <2>2. RowsShow(b, verifyMap[b], {})
    BY <1>0, <2>1 DEF Filling
  <2>3. \A r, q \in RowsOf(b) : r.domain = q.domain => r = q
    BY DEF OneRowPerHost, RowsOf
  <2> QED
    BY <2>1, <2>2, <2>3, LoadedShown DEF TypeOK
<1>8. ASSUME NEW c \in Bundle, c # b
      PROVE  /\ acked'[c] = acked[c]
             /\ c \in behind' <=> c \in behind
  BY <1>0, <1>8 DEF FillFails, FillDone, EraseFails, TypeOK
<1>9. TableMatchesMemory'
  <2> SUFFICES ASSUME NEW c \in Bundle, Settled(c)'
               PROVE  Loaded(c) = Persisted(verifyMap[c])
    BY <1>2, <1>3 DEF TableMatchesMemory, Persisted, Hosts
  <2>1. CASE c = b
    BY <2>1, <1>0, <1>2, <1>7 DEF Settled, FillFails, FillDone, EraseFails
  <2>2. CASE c # b
    BY <2>2, <1>0, <1>2, <1>8 DEF Settled, TableMatchesMemory
  <2> QED
    BY <2>1, <2>2
<1>10. AckedSurvives'
  <2> SUFFICES ASSUME NEW c \in Bundle, c \notin tainted, acked'[c] # Unknown
               PROVE  Loaded(c) = Persisted(acked'[c])
    BY <1>2, <1>3 DEF AckedSurvives, Persisted, Hosts
  <2>1. CASE c = b /\ FillDone
    BY <2>1, <1>0, <1>7 DEF FillDone, TypeOK
  <2>2. CASE c = b /\ (FillFails \/ EraseFails)
    BY <2>2, <1>0 DEF FillFails, EraseFails, Writer
  <2>3. CASE c # b
    <3>1. acked'[c] = acked[c]
      BY <2>3, <1>8
    <3> QED
      BY <3>1 DEF AckedSurvives
  <2> QED
    BY <2>1, <2>2, <2>3
<1> QED
  BY <1>4, <1>5, <1>6, <1>9, <1>10

(* DeleteVerifyStatus with its DeleteData done. *)
LEMMA EraseStep ==
    ASSUME IInv, EraseRows
    PROVE  IInv'
<1> USE DEF IInv
<1>0. PICK b \in Bundle : b = op.bundle
  BY WriterBundle DEF EraseRows
<1>1. running /\ op' = Idle /\ verifyMap[b] = None
  BY <1>0 DEF EraseRows, Writer
<1>2. UNCHANGED <<running, verifyMap>> /\ tainted' = tainted \ {b}
        /\ behind' = behind \ {b} /\ acked' = [acked EXCEPT ![b] = None]
  BY <1>0 DEF EraseRows
<1>3. ASSUME NEW c \in Bundle
      PROVE  IF c = b THEN Loaded(c)' = None ELSE Loaded(c)' = Loaded(c)
  BY <1>0, RowsDeleted DEF EraseRows
<1>4. table' \subseteq table /\ \A r \in table' : r.bundleName # b
  BY <1>0 DEF EraseRows, RowsOf
<1>5. TypeOK'
  BY <1>0, <1>1, <1>2, <1>4 DEF TypeOK, Idle
<1>6. OneRowPerHost'
  BY <1>2, <1>4 DEF OneRowPerHost
<1>7. TableMatchesMemory'
  <2> SUFFICES ASSUME NEW c \in Bundle, Settled(c)'
               PROVE  Loaded(c)' = Persisted(verifyMap[c])
    BY <1>2 DEF TableMatchesMemory, Persisted, Hosts
  <2>1. CASE c = b
    BY <2>1, <1>1, <1>3 DEF Persisted
  <2>2. CASE c # b
    BY <2>2, <1>0, <1>2, <1>3 DEF Settled, TableMatchesMemory
  <2> QED
    BY <2>1, <2>2
<1>8. AckedSurvives'
  <2> SUFFICES ASSUME NEW c \in Bundle, c \notin tainted', acked'[c] # Unknown
               PROVE  Loaded(c)' = Persisted(acked'[c])
    BY DEF AckedSurvives, Persisted, Hosts
  <2>1. CASE c = b
    BY <2>1, <1>2, <1>3 DEF Persisted, TypeOK
  <2>2. CASE c # b
    BY <2>2, <1>2, <1>3 DEF AckedSurvives, TypeOK
  <2> QED
    BY <2>1, <2>2
<1>9. Writer' /\ Filling' /\ Down'
  BY <1>1, <1>2 DEF Writer, Filling, Down, Idle
<1> QED
  BY <1>5, <1>6, <1>7, <1>8, <1>9

(* The process dies, and comes back in one of three ways. *)
LEMMA RestartStep ==
    ASSUME IInv, Crash \/ Restart \/ RestartUnloaded \/ RestartInaccessible
    PROVE  IInv'
<1> USE DEF IInv
<1>1. op' = Idle
  BY DEF Crash, Restart, RestartUnloaded, RestartInaccessible, Down
<1>2. Writer' /\ Filling'
  BY <1>1 DEF Writer, Filling, Idle
<1>3. Down'
  BY <1>1 DEF Crash, Restart, RestartUnloaded, RestartInaccessible, Down
<1>4. ASSUME NEW b \in Bundle
      PROVE  Loaded(b) \in VerifyResultInfo \cup {None} /\ Persisted(Loaded(b)) = Loaded(b)
  BY LoadedType DEF TypeOK
<1>5. TypeOK'
  <2>1. verifyMap' \in [Bundle -> VerifyResultInfo \cup {None}]
    BY <1>4 DEF Crash, Restart, RestartUnloaded, RestartInaccessible, TypeOK
  <2> QED
    BY <1>1, <2>1
    DEF Crash, Restart, RestartUnloaded, RestartInaccessible, TypeOK, Idle
<1>6. OneRowPerHost'
  BY DEF Crash, Restart, RestartUnloaded, RestartInaccessible, OneRowPerHost
<1>7. CASE table' = table
  <2>1. \A b \in Bundle : Loaded(b)' = Loaded(b)
    BY <1>7, TableKept
  <2>2. AckedSurvives'
    <3>1. \/ acked' = acked /\ tainted' = tainted
          \/ \A b \in Bundle : acked'[b] = Unknown
      BY DEF Crash, Restart, RestartUnloaded, RestartInaccessible
    <3> QED
      BY <2>1, <3>1 DEF AckedSurvives
  <2>3. TableMatchesMemory'
    <3> SUFFICES ASSUME NEW b \in Bundle, Settled(b)'
                 PROVE  Loaded(b)' = Persisted(verifyMap'[b])
      BY DEF TableMatchesMemory, Persisted, Hosts
    <3>1. CASE Crash
      BY <3>1 DEF Settled, Crash
    <3>2. CASE Restart
      BY <3>2, <1>4, <2>1 DEF Restart
    <3>3. CASE RestartUnloaded
      BY <3>3 DEF Settled, RestartUnloaded
    <3>4. CASE RestartInaccessible
      <4>1. Loaded(b)' = None
        BY <3>4 DEF RestartInaccessible, Loaded, RowsOf
      <4> QED
        BY <3>4, <4>1 DEF RestartInaccessible, Down, Persisted
    <3> QED
      BY <3>1, <3>2, <3>3, <3>4
  <2> QED
    BY <2>2, <2>3, <1>2, <1>3, <1>5, <1>6
<1>8. CASE RestartInaccessible
  <2>1. \A b \in Bundle : Loaded(b)' = None
    BY <1>8 DEF RestartInaccessible, Loaded, RowsOf
  <2>2. \A b \in Bundle : verifyMap'[b] = None /\ acked'[b] = Unknown
    BY <1>8 DEF RestartInaccessible, Down
  <2>3. TableMatchesMemory' /\ AckedSurvives'
    BY <2>1, <2>2 DEF TableMatchesMemory, AckedSurvives, Persisted
  <2> QED
    BY <2>3, <1>2, <1>3, <1>5, <1>6
<1> QED
  BY <1>7, <1>8 DEF Crash, Restart, RestartUnloaded

LEMMA NextIInv == IInv /\ [Next]_vars => IInv'
<1> SUFFICES ASSUME IInv, [Next]_vars PROVE IInv'
  OBVIOUS
<1>1. CASE \E b \in Bundle \cup {NoName}, info \in VerifyResultInfo :
             InsertVerifyStatus(b, info) \/ UpdateVerifyStatus(b, info)
  BY <1>1, LockStep
<1>2. ASSUME NEW b \in Bundle \cup {NoName}, DeleteVerifyStatus(b)
      PROVE  IInv'
  <2>1. PICK a \in App : TRUE
    BY DataMgrAssumption
  <2>2. [appIdentifier |-> a, hosts |-> [h \in Host |-> None]] \in VerifyResultInfo
    BY DEF VerifyResultInfo, HostVerifyStatusMap
  <2> QED
    BY <1>2, <2>2, LockStep
<1>3. CASE Store
  BY <1>3, WipeStep, FillRowStep, ReleaseStep, EraseStep DEF Store
<1>4. CASE Crash \/ Restart \/ RestartUnloaded \/ RestartInaccessible
  BY <1>4, RestartStep
<1>5. CASE UNCHANGED vars
  BY <1>5, TableKept
  DEF vars, IInv, TypeOK, OneRowPerHost, TableMatchesMemory, AckedSurvives, Writer, Filling,
      Down, Settled, RowsShow, RowsOf, Persisted, Hosts
<1> QED
  BY <1>1, <1>2, <1>3, <1>4, <1>5 DEF Next
-----------------------------------------------------------------------------
(* Every state of VerifyDataMgr satisfies the inductive invariant. *)
THEOREM SpecIInv == Spec => []IInv
<1>1. Init => IInv
  BY InitIInv
<1>2. IInv /\ [Next]_vars => IInv'
  BY NextIInv
<1> QED
  BY <1>1, <1>2, PTL DEF Spec

(* The state of the data manager keeps its types. *)
THEOREM SpecTypeOK == Spec => []TypeOK
<1>1. IInv => TypeOK
  BY DEF IInv
<1> QED
  BY <1>1, SpecIInv, PTL

(* Unless DeleteData failed, the table has one row per host and bundle. *)
THEOREM SpecOneRowPerHost == Spec => []OneRowPerHost
<1>1. IInv => OneRowPerHost
  BY DEF IInv
<1> QED
  BY <1>1, SpecIInv, PTL

(* A restart loads what a settled bundle has in memory. *)
THEOREM SpecTableMatchesMemory == Spec => []TableMatchesMemory
<1>1. IInv => TableMatchesMemory
  BY DEF IInv
<1> QED
  BY <1>1, SpecIInv, PTL

(* What a call acknowledged survives crashes, unless DeleteData failed. *)
THEOREM SpecAckedSurvives == Spec => []AckedSurvives
<1>1. IInv => AckedSurvives
  BY DEF IInv
<1> QED
  BY <1>1, SpecIInv, PTL

(* The queries on the table agree with the memory the filter reads. *)
THEOREM SpecAssociationsMatchMemory == Spec => []AssociationsMatchMemory
<1>1. IInv => AssociationsMatchMemory
  <2> SUFFICES ASSUME IInv, NEW b \in Bundle, Settled(b)
               PROVE  /\ \A h \in Host :
                          (\E r \in QueryDomainByBundleName(b) : r.domain = h)
                            <=> /\ verifyMap[b] # None
                                /\ verifyMap[b].hosts[h] = STATE_SUCCESS
                      /\ \A h \in Host : \A r, q \in QueryBundleNameByDomain(h) :
                            r.bundleName = b /\ q.bundleName = b => r = q
    BY DEF AssociationsMatchMemory
  <2> USE DEF IInv
  <2>1. Loaded(b) = Persisted(verifyMap[b]) /\ b \notin tainted
    BY DEF TableMatchesMemory, Settled
  <2>2. \A r, q \in RowsOf(b) : r.domain = q.domain => r = q
    BY <2>1 DEF OneRowPerHost, RowsOf
  <2>3. \A r \in RowsOf(b) : r \in RdbDataItem /\ r.id \in Nat
    BY DataMgrAssumption DEF RowsOf, RdbDataItem, TypeOK
  <2>4. ASSUME NEW h \in Host
        PROVE  (\E r \in QueryDomainByBundleName(b) : r.domain = h)
                 <=> /\ verifyMap[b] # None
                     /\ verifyMap[b].hosts[h] = STATE_SUCCESS
    <3> DEFINE ofHost == {r \in RowsOf(b) : r.domain = h}
    <3>1. CASE RowsOf(b) = {}
      <4>1. Persisted(verifyMap[b]) = None
        BY <2>1, <3>1 DEF Loaded
      <4>2. verifyMap[b] # None => verifyMap[b] \in VerifyResultInfo
        BY DEF TypeOK
      <4>3. verifyMap[b] # None => verifyMap[b].hosts[h] = None
        BY <4>1, <4>2, SentinelAssumption DEF Persisted, Hosts
      <4> QED
        BY <3>1, <4>3, DataMgrAssumption DEF QueryDomainByBundleName
    <3>2. CASE RowsOf(b) # {}
      <4>1. Loaded(b) = verifyMap[b] /\ verifyMap[b] # None
        <5>1. Loaded(b) # None
          BY <3>2, LoadedType DEF TypeOK
        <5> QED
          BY <2>1, <5>1 DEF Persisted
      <4>2. verifyMap[b].hosts[h] = IF ofHost = {} THEN None ELSE First(ofHost).status
        BY <3>2, <4>1 DEF Loaded, DBToVerifyResultInfo
      <4>3. CASE ofHost = {}
        BY <4>2, <4>3, DataMgrAssumption DEF QueryDomainByBundleName
      <4>4. CASE ofHost # {}
        <5>1. First(ofHost) \in ofHost
          BY <2>3, <4>4, FirstInSet
        <5>2. \A r \in ofHost : r = First(ofHost)
          BY <2>2, <5>1
        <5> QED
          BY <4>1, <4>2, <4>4, <5>1, <5>2 DEF QueryDomainByBundleName
      <4> QED
        BY <4>3, <4>4
    <3> QED
      BY <3>1, <3>2
  <2>5. \A h \in Host : \A r, q \in QueryBundleNameByDomain(h) :
          r.bundleName = b /\ q.bundleName = b => r = q
    BY <2>2 DEF QueryBundleNameByDomain, RowsOf
  <2> QED
    BY <2>4, <2>5
<1> QED
  BY <1>1, SpecIInv, PTL
=============================================================================
