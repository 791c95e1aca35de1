--------------------------- MODULE RdbMigrateProofs ---------------------------
(***************************************************************************)
(* Proofs about RdbMigrate, for any results and any number of failures.    *)
(*                                                                         *)
(* OpenIsWhole speaks of an opened store only; the invariant has to follow *)
(* the table through the upgrade: Shape lists what the table can look like *)
(* at all, Where what it looks like at each place of GetRdbStore, and      *)
(* Stored what a version says of it.                                       *)
(***************************************************************************)
EXTENDS RdbMigrate, TLAPS

Whole == \E k \in 2 .. 4 : domain = TableOf(2 .. k, held)
Emptied == \E k \in 2 .. 4 : domain = TableOf(2 .. k, {})
Unread == domain = TableOf({1, 3}, held) \/ domain = TableOf({1, 3, 4}, held)

Shape ==
    \/ domain = NoTable
    \/ domain = TableOf({1}, held)
    \/ Whole
    \/ broken /\ (Emptied \/ Unread)
    \/ pc = At(7) /\ domain = TableOf({2}, {})

Where ==
    /\ pc \in {At(i) : i \in 1 .. 5} => domain = TableOf({1}, held)
    /\ pc = At(4) => temp = TableOf({1}, held)
    /\ pc \in {At(i) : i \in 5 .. 7} => final = TableOf({2}, held)
    /\ pc = At(6) => domain = NoTable
    /\ pc = At(7) => domain = TableOf({2}, {})
    /\ pc = At(8) => domain = TableOf({2}, held)
    /\ pc = Upgrading(2) /\ domain = TableOf({1}, held) => broken
    /\ pc = Upgrading(3) => domain # NoTable /\ 3 \in domain.columns
    /\ pc = Stamp /\ version # 0 => domain # NoTable /\ {3, 4} \subseteq domain.columns

Stored ==
    /\ pc \in {At(i) : i \in Statements} \cup {Upgrading(1), Drop} => version = 1
    /\ pc = Upgrading(2) => version \in 1 .. 2
    /\ pc = Upgrading(3) => version \in 1 .. 3
    /\ pc = Stamp => version # 4
    /\ pc = Opened => version = 4
    /\ version = 0 => domain = NoTable /\ held = {} /\ pc \in {Closed, Stamp}
    /\ version = 2 => Whole
    /\ version = 3 => \E k \in 3 .. 4 : domain = TableOf(2 .. k, held)
    /\ version = 4 /\ domain # NoTable => {3, 4} \subseteq domain.columns
    /\ version = 4 /\ domain = NoTable => held = {}

(* The inductive invariant. *)
IInv == TypeOK /\ Shape /\ Where /\ Stored
-----------------------------------------------------------------------------
(* The places of GetRdbStore are different from each other. *)
LEMMA Places ==
    /\ Closed # Opened /\ Closed # Stamp /\ Closed # Drop
    /\ Opened # Stamp /\ Opened # Drop /\ Stamp # Drop
    /\ \A i \in Int : At(i) \notin {Closed, Opened, Stamp, Drop}
    /\ \A v \in Int : Upgrading(v) \notin {Closed, Opened, Stamp, Drop}
    /\ \A i, v \in Int : At(i) # Upgrading(v)
    /\ \A i, j \in Int : At(i) = At(j) => i = j
    /\ \A v, w \in Int : Upgrading(v) = Upgrading(w) => v = w
BY DEF Closed, Opened, Stamp, Drop, At, Upgrading

(* The columns of the versions, enumerated. *)
LEMMA Columns == 2 .. 2 = {2} /\ 2 .. 3 = {2, 3} /\ 2 .. 4 = {2, 3, 4}
OBVIOUS

(* Only a table of one column is of the inner version 1. *)
LEMMA InnerVersion ==
    ASSUME IInv, domain # NoTable, domain.columns = {1}
    PROVE  domain = TableOf({1}, held)
BY Columns DEF IInv, Shape, Where, Whole, Emptied, Unread, TableOf

(* A table is known by its columns and its rows. *)
LEMMA Tables ==
    /\ \A c, r : TableOf(c, r).columns = c /\ TableOf(c, r).rows = r
    /\ \A c, r, d, q : TableOf(c, r) = TableOf(d, q) => c = d /\ r = q
BY DEF TableOf

(* NoTable is not a table. *)
LEMMA NoTableIsNone ==
    \A c \in SUBSET (1 .. 4), r \in SUBSET Result : TableOf(c, r) # NoTable
<1> SUFFICES ASSUME NEW c \in SUBSET (1 .. 4), NEW r \in SUBSET Result
             PROVE  TableOf(c, r) # NoTable
  OBVIOUS
<1>1. TableOf(c, r) \in [columns : SUBSET (1 .. 4), rows : SUBSET Result]
  BY DEF TableOf
<1> QED
  BY <1>1, RdbMigrateAssumption

LEMMA InitIInv == Init => IInv
<1> SUFFICES ASSUME Init PROVE IInv
  OBVIOUS
<1> USE RdbMigrateAssumption DEF RDB_VERSION
<1>1. TypeOK
  <2>1. domain \in Table \cup {NoTable}
    <3>1. CASE version = 0
      BY <3>1 DEF Init
    <3>2. CASE version = 1
      BY <3>2 DEF Init, Table, TableOf
    <3>3. CASE version \in 2 .. RDB_VERSION
      BY <3>3, Columns DEF Init, Table, TableOf
    <3> QED
      BY <3>1, <3>2, <3>3 DEF Init
  <2>2. version \in 0 .. RDB_VERSION /\ held \in {{}, Result}
    BY DEF Init
  <2>3. pc \in TypePc
    BY DEF Init, TypePc
  <2>4. temp \in Table \cup {NoTable} /\ final \in Table \cup {NoTable}
    BY DEF Init
  <2>5. init \in BOOLEAN /\ broken \in BOOLEAN
    BY Zenon DEF Init
  <2>6. faults \in 0 .. MaxFaults
    BY DEF Init
  <2> QED
    BY <2>1, <2>2, <2>3, <2>4, <2>5, <2>6 DEF TypeOK
<1>2. Shape
  BY DEF Init, Shape, Whole, TableOf
<1>3. Where
  BY Places DEF Init, Where, Statements
<1>4. Stored
  BY Places, Columns DEF Init, Stored, Whole, TableOf, Statements
<1> QED
  BY <1>1, <1>2, <1>3, <1>4 DEF IInv

(* Every step keeps the types. *)
LEMMA NextTypeOK == IInv /\ [Next]_vars => TypeOK'
<1> SUFFICES ASSUME IInv, [Next]_vars PROVE TypeOK'
  OBVIOUS
<1> USE DEF IInv, TypeOK, RDB_VERSION
<1>1. CASE GetRdbStore
  <2>1. pc' \in TypePc
    BY <1>1 DEF TypePc, GetRdbStore, Go, Statements
  <2>2. /\ domain' \in Table \cup {NoTable}
        /\ temp' \in Table \cup {NoTable}
        /\ final' \in Table \cup {NoTable}
    BY <1>1 DEF GetRdbStore, Go
  <2>3. version' \in 0 .. RDB_VERSION /\ held' \in {{}, Result} /\ faults' \in 0 .. MaxFaults
    BY <1>1, RdbMigrateAssumption DEF GetRdbStore, Go
  <2>4. init' \in BOOLEAN /\ broken' \in BOOLEAN
    BY Zenon, <1>1 DEF GetRdbStore, Go
  <2> QED
    BY <2>1, <2>2, <2>3, <2>4
<1>2. CASE UpgradeFromV1ToV2
  <2>1. pc' \in TypePc
    BY <1>2 DEF TypePc, UpgradeFromV1ToV2, Go, Statements
  <2>2. /\ domain' \in Table \cup {NoTable}
        /\ temp' \in Table \cup {NoTable}
        /\ final' \in Table \cup {NoTable}
    BY <1>2 DEF UpgradeFromV1ToV2, Go
  <2>3. version' \in 0 .. RDB_VERSION /\ held' \in {{}, Result} /\ faults' \in 0 .. MaxFaults
    BY <1>2, RdbMigrateAssumption DEF UpgradeFromV1ToV2, Go
  <2>4. init' \in BOOLEAN /\ broken' \in BOOLEAN
    BY Zenon, <1>2 DEF UpgradeFromV1ToV2, Go
  <2> QED
    BY <2>1, <2>2, <2>3, <2>4
<1>3. CASE QueryInnerVersionFails
  <2>1. pc' \in TypePc
    BY <1>3 DEF TypePc, QueryInnerVersionFails, Statements
  <2>2. /\ domain' \in Table \cup {NoTable}
        /\ temp' \in Table \cup {NoTable}
        /\ final' \in Table \cup {NoTable}
    BY <1>3 DEF QueryInnerVersionFails
  <2>3. version' \in 0 .. RDB_VERSION /\ held' \in {{}, Result} /\ faults' \in 0 .. MaxFaults
    BY <1>3, RdbMigrateAssumption DEF QueryInnerVersionFails, Fault
  <2>4. init' \in BOOLEAN /\ broken' \in BOOLEAN
    BY Zenon, <1>3 DEF QueryInnerVersionFails
  <2> QED
    BY <2>1, <2>2, <2>3, <2>4
<1>4. ASSUME NEW i \in Statements, Statement(i) PROVE TypeOK'
  <2>1. pc' \in TypePc
    BY <1>4 DEF TypePc, Statement, Go, Statements
  <2>2. /\ domain' \in Table \cup {NoTable}
        /\ temp' \in Table \cup {NoTable}
        /\ final' \in Table \cup {NoTable}
    <3>1. CASE i \in {1, 2, 3, 5, 8}
      BY <1>4, <3>1 DEF Statement, Execute, Statements
    <3>2. CASE i = 4
      <4>1. temp \in Table
        BY <1>4, <3>2, RdbMigrateAssumption DEF Statement, Where, TableOf, Table
      <4> QED
        BY <1>4, <3>2, <4>1 DEF Statement, Execute, Table, TableOf
    <3>3. CASE i = 6
      BY <1>4, <3>3 DEF Statement, Execute, Table, TableOf
    <3>4. CASE i = 7
      <4>1. domain = TableOf({2}, {}) /\ final = TableOf({2}, held)
        BY <1>4, <3>4 DEF Statement, Where
      <4>2. domain' = [domain EXCEPT !.rows = @ \cup final.rows]
                /\ UNCHANGED <<temp, final>>
        BY <1>4, <3>4 DEF Statement, Execute
      <4>3. final.rows = held
        BY <4>1, Tables
      <4>5. domain' = [TableOf({2}, {}) EXCEPT !.rows = @ \cup held]
        BY <4>1, <4>2, <4>3
      <4>6. domain' = TableOf({2}, {} \cup held)
        BY <4>5 DEF TableOf
      <4>4. TableOf({2}, {} \cup held) \in Table
        BY DEF Table, TableOf
      <4> QED
        BY <4>2, <4>6, <4>4
    <3> QED
      BY <3>1, <3>2, <3>3, <3>4 DEF Statements
  <2>3. version' \in 0 .. RDB_VERSION /\ held' \in {{}, Result} /\ faults' \in 0 .. MaxFaults
    BY <1>4, RdbMigrateAssumption DEF Statement, Go
  <2>4. init' \in BOOLEAN /\ broken' \in BOOLEAN
    BY Zenon, <1>4 DEF Statement, Go
  <2> QED
    BY <2>1, <2>2, <2>3, <2>4
<1>5. ASSUME NEW i \in Statements, StatementFails(i) PROVE TypeOK'
  <2>1. pc' \in TypePc
    BY <1>5 DEF TypePc, StatementFails, Statements
  <2>2. /\ domain' \in Table \cup {NoTable}
        /\ temp' \in Table \cup {NoTable}
        /\ final' \in Table \cup {NoTable}
    BY <1>5 DEF StatementFails
  <2>3. version' \in 0 .. RDB_VERSION /\ held' \in {{}, Result} /\ faults' \in 0 .. MaxFaults
    BY <1>5, RdbMigrateAssumption DEF StatementFails, Fault
  <2>4. init' \in BOOLEAN /\ broken' \in BOOLEAN
    BY Zenon, <1>5 DEF StatementFails
  <2> QED
    BY <2>1, <2>2, <2>3, <2>4
<1>6. CASE DropTable
  <2>1. pc' \in TypePc
    BY <1>6 DEF TypePc, DropTable, Go, Statements
  <2>2. /\ domain' \in Table \cup {NoTable}
        /\ temp' \in Table \cup {NoTable}
        /\ final' \in Table \cup {NoTable}
    BY <1>6 DEF DropTable, Go
  <2>3. version' \in 0 .. RDB_VERSION /\ held' \in {{}, Result} /\ faults' \in 0 .. MaxFaults
    BY <1>6, RdbMigrateAssumption DEF DropTable, Go
  <2>4. init' \in BOOLEAN /\ broken' \in BOOLEAN
    BY Zenon, <1>6 DEF DropTable, Go
  <2> QED
    BY <2>1, <2>2, <2>3, <2>4
<1>7. CASE UpgradeFromV2ToV3
  <2>1. pc' \in TypePc
    BY <1>7 DEF TypePc, UpgradeFromV2ToV3, Go, Statements
  <2>2. /\ domain' \in Table \cup {NoTable}
        /\ temp' \in Table \cup {NoTable}
        /\ final' \in Table \cup {NoTable}
    <3>1. domain \in Table
      BY <1>7 DEF UpgradeFromV2ToV3, CanAddColumns
    <3>2. domain' \in Table
      BY <1>7, <3>1 DEF UpgradeFromV2ToV3, Table
    <3> QED
      BY <1>7, <3>2 DEF UpgradeFromV2ToV3, Go
  <2>3. version' \in 0 .. RDB_VERSION /\ held' \in {{}, Result} /\ faults' \in 0 .. MaxFaults
    BY <1>7, RdbMigrateAssumption DEF UpgradeFromV2ToV3, Go
  <2>4. init' \in BOOLEAN /\ broken' \in BOOLEAN
    BY Zenon, <1>7 DEF UpgradeFromV2ToV3, Go
  <2> QED
    BY <2>1, <2>2, <2>3, <2>4
<1>8. CASE UpgradeFromV3ToV4
  <2>1. pc' \in TypePc
    BY <1>8 DEF TypePc, UpgradeFromV3ToV4, Go, Statements
  <2>2. /\ domain' \in Table \cup {NoTable}
        /\ temp' \in Table \cup {NoTable}
        /\ final' \in Table \cup {NoTable}
    <3>1. domain \in Table
      BY <1>8 DEF UpgradeFromV3ToV4, CanAddColumns
    <3>2. domain' \in Table
      BY <1>8, <3>1 DEF UpgradeFromV3ToV4, Table
    <3> QED
      BY <1>8, <3>2 DEF UpgradeFromV3ToV4, Go
  <2>3. version' \in 0 .. RDB_VERSION /\ held' \in {{}, Result} /\ faults' \in 0 .. MaxFaults
    BY <1>8, RdbMigrateAssumption DEF UpgradeFromV3ToV4, Go
  <2>4. init' \in BOOLEAN /\ broken' \in BOOLEAN
    BY Zenon, <1>8 DEF UpgradeFromV3ToV4, Go
  <2> QED
    BY <2>1, <2>2, <2>3, <2>4
<1>9. CASE UpgradeFails
  <2>1. pc' \in TypePc
    BY <1>9 DEF TypePc, UpgradeFails, NotOpened, Statements
  <2>2. /\ domain' \in Table \cup {NoTable}
        /\ temp' \in Table \cup {NoTable}
        /\ final' \in Table \cup {NoTable}
    BY <1>9 DEF UpgradeFails, NotOpened
  <2>3. version' \in 0 .. RDB_VERSION /\ held' \in {{}, Result} /\ faults' \in 0 .. MaxFaults
    BY <1>9, RdbMigrateAssumption DEF UpgradeFails, NotOpened
  <2>4. init' \in BOOLEAN /\ broken' \in BOOLEAN
    BY Zenon, <1>9 DEF UpgradeFails, NotOpened
  <2> QED
    BY <2>1, <2>2, <2>3, <2>4
<1>10. CASE StoreFails
  <2>1. pc' \in TypePc
    BY <1>10 DEF TypePc, StoreFails, NotOpened, Statements
  <2>2. /\ domain' \in Table \cup {NoTable}
        /\ temp' \in Table \cup {NoTable}
        /\ final' \in Table \cup {NoTable}
    BY <1>10 DEF StoreFails, NotOpened
  <2>3. version' \in 0 .. RDB_VERSION /\ held' \in {{}, Result} /\ faults' \in 0 .. MaxFaults
    BY <1>10, RdbMigrateAssumption DEF StoreFails, NotOpened, Fault
  <2>4. init' \in BOOLEAN /\ broken' \in BOOLEAN
    BY Zenon, <1>10 DEF StoreFails, NotOpened
  <2> QED
    BY <2>1, <2>2, <2>3, <2>4
<1>11. CASE SetVersion
  <2>1. pc' \in TypePc
    BY <1>11 DEF TypePc, SetVersion, Go, Statements
  <2>2. /\ domain' \in Table \cup {NoTable}
        /\ temp' \in Table \cup {NoTable}
        /\ final' \in Table \cup {NoTable}
    BY <1>11 DEF SetVersion, Go
  <2>3. version' \in 0 .. RDB_VERSION /\ held' \in {{}, Result} /\ faults' \in 0 .. MaxFaults
    BY <1>11, RdbMigrateAssumption DEF SetVersion, Go
  <2>4. init' \in BOOLEAN /\ broken' \in BOOLEAN
    BY Zenon, <1>11 DEF SetVersion, Go
  <2> QED
    BY <2>1, <2>2, <2>3, <2>4
<1>12. CASE CreateTable
  <2>1. pc' \in TypePc
    BY <1>12 DEF TypePc, CreateTable, Statements
  <2>2. /\ domain' \in Table \cup {NoTable}
        /\ temp' \in Table \cup {NoTable}
        /\ final' \in Table \cup {NoTable}
    <3>1. TableOf(2 .. RDB_VERSION, {}) \in Table
      BY Columns DEF Table, TableOf
    <3> QED
      BY <1>12, <3>1 DEF CreateTable
  <2>3. version' \in 0 .. RDB_VERSION /\ held' \in {{}, Result} /\ faults' \in 0 .. MaxFaults
    BY <1>12, RdbMigrateAssumption DEF CreateTable
  <2>4. init' \in BOOLEAN /\ broken' \in BOOLEAN
    BY Zenon, <1>12 DEF CreateTable
  <2> QED
    BY <2>1, <2>2, <2>3, <2>4
<1>13. CASE CreateTableFails
  <2>1. pc' \in TypePc
    BY <1>13 DEF TypePc, CreateTableFails, Statements
  <2>2. /\ domain' \in Table \cup {NoTable}
        /\ temp' \in Table \cup {NoTable}
        /\ final' \in Table \cup {NoTable}
    BY <1>13 DEF CreateTableFails
  <2>3. version' \in 0 .. RDB_VERSION /\ held' \in {{}, Result} /\ faults' \in 0 .. MaxFaults
    BY <1>13, RdbMigrateAssumption DEF CreateTableFails, Fault
  <2>4. init' \in BOOLEAN /\ broken' \in BOOLEAN
    BY Zenon, <1>13 DEF CreateTableFails
  <2> QED
    BY <2>1, <2>2, <2>3, <2>4
<1>14. CASE DelayCloseRdbStore
  <2>1. pc' \in TypePc
    BY <1>14 DEF TypePc, DelayCloseRdbStore, Go, Statements
  <2>2. /\ domain' \in Table \cup {NoTable}
        /\ temp' \in Table \cup {NoTable}
        /\ final' \in Table \cup {NoTable}
    BY <1>14 DEF DelayCloseRdbStore, Go
  <2>3. version' \in 0 .. RDB_VERSION /\ held' \in {{}, Result} /\ faults' \in 0 .. MaxFaults
    BY <1>14, RdbMigrateAssumption DEF DelayCloseRdbStore, Go
  <2>4. init' \in BOOLEAN /\ broken' \in BOOLEAN
    BY Zenon, <1>14 DEF DelayCloseRdbStore, Go
  <2> QED
    BY <2>1, <2>2, <2>3, <2>4
<1>15. CASE Restart
  <2>1. pc' \in TypePc
    BY <1>15 DEF TypePc, Restart, Statements
  <2>2. /\ domain' \in Table \cup {NoTable}
        /\ temp' \in Table \cup {NoTable}
        /\ final' \in Table \cup {NoTable}
    BY <1>15 DEF Restart
  <2>3. version' \in 0 .. RDB_VERSION /\ held' \in {{}, Result} /\ faults' \in 0 .. MaxFaults
    BY <1>15, RdbMigrateAssumption DEF Restart, Fault
  <2>4. init' \in BOOLEAN /\ broken' \in BOOLEAN
    BY Zenon, <1>15 DEF Restart
  <2> QED
    BY <2>1, <2>2, <2>3, <2>4
<1>16. CASE UNCHANGED vars
  <2>1. pc' \in TypePc
    BY <1>16 DEF TypePc, vars, Statements
  <2>2. /\ domain' \in Table \cup {NoTable}
        /\ temp' \in Table \cup {NoTable}
        /\ final' \in Table \cup {NoTable}
    BY <1>16 DEF vars
  <2>3. version' \in 0 .. RDB_VERSION /\ held' \in {{}, Result} /\ faults' \in 0 .. MaxFaults
    BY <1>16, RdbMigrateAssumption DEF vars
  <2>4. init' \in BOOLEAN /\ broken' \in BOOLEAN
    BY Zenon, <1>16 DEF vars
  <2> QED
    BY <2>1, <2>2, <2>3, <2>4
<1> QED
  BY <1>1, <1>2, <1>3, <1>4, <1>5, <1>6, <1>7, <1>8, <1>9, <1>10, <1>11, <1>12, <1>13,
     <1>14, <1>15, <1>16 DEF Next, Upgrade
(* Every step keeps the shape of the table. *)
LEMMA NextIInv == IInv /\ [Next]_vars => IInv'
<1> SUFFICES ASSUME IInv, [Next]_vars PROVE Shape' /\ Where' /\ Stored'
  BY NextTypeOK DEF IInv
<1> USE DEF IInv, TypeOK, RDB_VERSION
<1>1. CASE GetRdbStore
  <2>1. version \in {0, 1, 2, 3, 4}
    OBVIOUS
  <2>2. \/ version = 4 /\ pc' = Opened
        \/ version = 0 /\ pc' = Stamp
        \/ version = 1 /\ pc' = Upgrading(1)
        \/ version = 2 /\ pc' = Upgrading(2)
        \/ version = 3 /\ pc' = Upgrading(3)
    BY <1>1, <2>1 DEF GetRdbStore, Go
  <2>3. Shape'
    BY <1>1, Places DEF GetRdbStore, Go, Shape, Whole, Emptied, Unread
  <2>4. version = 2 => domain # TableOf({1}, held)
    BY Tables, Columns DEF Stored, Whole
  <2>5. version = 3 => domain # NoTable /\ 3 \in domain.columns
    <3>1. SUFFICES ASSUME version = 3 PROVE domain # NoTable /\ 3 \in domain.columns
      OBVIOUS
    <3>2. PICK k \in 3 .. 4 : domain = TableOf(2 .. k, held)
      BY <3>1 DEF Stored
    <3> QED
      BY <3>2, Tables, NoTableIsNone
  <2>6. Where'
    BY <1>1, <2>2, <2>4, <2>5, Places DEF GetRdbStore, Go, Where, Statements
  <2>7. Stored'
    BY <1>1, <2>2, Places DEF GetRdbStore, Go, Stored, Whole, Statements
  <2> QED
    BY <2>3, <2>6, <2>7
<1>2. CASE UpgradeFromV1ToV2
  <2>1. Shape' /\ Stored'
    BY <1>2, Places, Columns
       DEF UpgradeFromV1ToV2, Go, Shape, Whole, Emptied, Unread, Stored, Statements
  <2>2. CASE QueryInnerVersion = INNER_VERSION_1_0
    <3>1. domain = TableOf({1}, held)
      BY <2>2, InnerVersion
         DEF QueryInnerVersion, INNER_VERSION_1_0, INNER_VERSION_UNKNOWN
    <3>2. pc' = At(1) /\ domain' = domain /\ held' = held
      BY <1>2, <2>2 DEF UpgradeFromV1ToV2, Go
    <3> QED
      BY <2>1, <3>1, <3>2, Places DEF Where, Statements
  <2>3. CASE QueryInnerVersion # INNER_VERSION_1_0
    <3>1. domain # TableOf({1}, held)
      BY <2>3, Tables, NoTableIsNone DEF QueryInnerVersion
    <3>2. pc' = Upgrading(2) /\ domain' = domain /\ held' = held
      BY <1>2, <2>3 DEF UpgradeFromV1ToV2, Go
    <3> QED
      BY <2>1, <3>1, <3>2, Places DEF Where, Statements
  <2> QED
    BY <2>2, <2>3
<1>3. CASE QueryInnerVersionFails
  <2>1. Shape'
    BY <1>3, Places, Columns, Tables
       DEF Shape, Where, Stored, Whole, Emptied, Unread, QueryInnerVersionFails, Fault,
           Statements
  <2>2. Where'
    BY <1>3, Places, Columns, Tables
       DEF Shape, Where, Stored, Whole, Emptied, Unread, QueryInnerVersionFails, Fault,
           Statements
  <2>3. Stored'
    BY <1>3, Places, Columns, Tables
       DEF Shape, Where, Stored, Whole, Emptied, Unread, QueryInnerVersionFails, Fault,
           Statements
  <2> QED
    BY <2>1, <2>2, <2>3
<1>4. ASSUME NEW i \in Statements, Statement(i) PROVE Shape' /\ Where' /\ Stored'
  <2>1. version = 1 /\ version' = version /\ broken' = broken /\ held' = held
    BY <1>4, Places DEF Statement, Go, Stored
  <2>2. i \in 1 .. 8 /\ pc = At(i) /\ pc' = IF i < 8 THEN At(i + 1) ELSE Upgrading(2)
    BY <1>4 DEF Statement, Go, Statements
  <2>3. Stored'
    <3>1. version # 4 /\ version # 2 /\ version # 3 /\ version # 0
      BY <2>1
    <3> QED
      BY <2>1, <2>2, <3>1, Places DEF Stored, Statements
  <2>4. CASE i \in 1 .. 4
    <3>1. domain = TableOf({1}, held) /\ domain' = domain /\ pc' = At(i + 1)
      BY <1>4, <2>2, <2>4 DEF Statement, Execute, Where
    <3>2. i = 3 => temp' = TableOf({1}, held)
      BY <1>4, <3>1 DEF Statement, Execute
    <3>3. i = 4 => final' = TableOf({2}, held)
      <4>1. SUFFICES ASSUME i = 4 PROVE final' = TableOf({2}, held)
        OBVIOUS
      <4>2. temp = TableOf({1}, held)
        BY <2>2, <4>1 DEF Where
      <4> QED
        BY <1>4, <4>1, <4>2, Tables DEF Statement, Execute
    <3>4. Shape'
      BY <2>1, <3>1 DEF Shape
    <3> QED
      BY <2>1, <2>3, <2>4, <3>1, <3>2, <3>3, <3>4, Places DEF Where
  <2>5. CASE i = 5
    <3>1. domain' = NoTable /\ final' = TableOf({2}, held)
      BY <1>4, <2>2, <2>5 DEF Statement, Execute, Where
    <3> QED
      BY <2>1, <2>2, <2>3, <2>5, <3>1, Places DEF Where, Shape
  <2>6. CASE i = 6
    <3>1. domain' = TableOf({2}, {}) /\ final' = TableOf({2}, held)
      BY <1>4, <2>2, <2>6 DEF Statement, Execute, Where
    <3> QED
      BY <2>1, <2>2, <2>3, <2>6, <3>1, Places DEF Where, Shape
  <2>7. CASE i = 7
    <3>1. domain = TableOf({2}, {}) /\ final = TableOf({2}, held)
      BY <2>2, <2>7 DEF Where
    <3>2. domain' = [domain EXCEPT !.rows = @ \cup final.rows]
      BY <1>4, <2>7 DEF Statement, Execute
    <3>3. final.rows = held
      BY <3>1, Tables
    <3>4. domain' = TableOf({2}, {} \cup held)
      BY <3>1, <3>2, <3>3 DEF TableOf
    <3>5. domain' = TableOf({2}, held')
      BY <2>1, <3>4
    <3> QED
      BY <2>1, <2>2, <2>3, <2>7, <3>5, Places, Columns DEF Where, Shape, Whole
  <2>8. CASE i = 8
    <3>1. domain = TableOf({2}, held) /\ domain' = domain /\ pc' = Upgrading(2)
      BY <1>4, <2>2, <2>8 DEF Statement, Execute, Where
    <3>2. domain' # TableOf({1}, held')
      BY <2>1, <3>1, Tables
    <3> QED
      BY <2>1, <2>3, <3>1, <3>2, Places, Columns DEF Where, Shape, Whole
  <2> QED
    BY <2>2, <2>4, <2>5, <2>6, <2>7, <2>8
<1>5. ASSUME NEW i \in Statements, StatementFails(i) PROVE Shape' /\ Where' /\ Stored'
  <2>1. Shape'
    BY <1>5, Places, Columns, Tables
       DEF Shape, Where, Stored, Whole, Emptied, Unread, StatementFails, Fault,
           Statements
  <2>2. Where'
    BY <1>5, Places, Columns, Tables
       DEF Shape, Where, Stored, Whole, Emptied, Unread, StatementFails, Fault,
           Statements
  <2>3. Stored'
    BY <1>5, Places, Columns, Tables
       DEF Shape, Where, Stored, Whole, Emptied, Unread, StatementFails, Fault,
           Statements
  <2> QED
    BY <2>1, <2>2, <2>3
<1>6. CASE DropTable
  <2>1. domain' = NoTable /\ pc' = Upgrading(2) /\ held' = held /\ version' = version
    BY <1>6 DEF DropTable, Go
  <2>2. version = 1
    BY <1>6 DEF DropTable, Stored
  <2>3. domain' # TableOf({1}, held')
    BY <2>1, NoTableIsNone
  <2> QED
    BY <2>1, <2>2, <2>3, Places DEF Shape, Where, Stored, Statements
<1>7. CASE UpgradeFromV2ToV3
  <2>1. domain' = [domain EXCEPT !.columns = @ \cup {3}] /\ pc' = Upgrading(3)
        /\ held' = held /\ version' = version /\ broken' = broken
    BY <1>7 DEF UpgradeFromV2ToV3, Go
  <2>2. domain # NoTable /\ 3 \notin domain.columns /\ pc = Upgrading(2)
    BY <1>7 DEF UpgradeFromV2ToV3, CanAddColumns
  <2>3. \/ domain = TableOf({2}, held)
        \/ broken /\ domain = TableOf({2}, {})
        \/ broken /\ domain = TableOf({1}, held)
    <3>1. CASE domain = TableOf({1}, held)
      BY <2>2, <3>1, Tables DEF Where
    <3>2. CASE Whole
      <4>1. PICK k \in 2 .. 4 : domain = TableOf(2 .. k, held)
        BY <3>2 DEF Whole
      <4>2. k = 2
        BY <2>2, <4>1, Tables DEF Where
      <4> QED
        BY <4>1, <4>2, Columns
    <3>3. CASE broken /\ Emptied
      <4>1. PICK k \in 2 .. 4 : domain = TableOf(2 .. k, {})
        BY <3>3 DEF Emptied
      <4>2. k = 2
        BY <2>2, <4>1, Tables DEF Where
      <4> QED
        BY <3>3, <4>1, <4>2, Columns
    <3>4. CASE broken /\ Unread
      BY <2>2, <3>4, Tables DEF Unread
    <3> QED
      BY <2>2, <3>1, <3>2, <3>3, <3>4, Places DEF Shape
  <2>4. \/ domain' = TableOf(2 .. 3, held')
        \/ broken' /\ domain' = TableOf(2 .. 3, {})
        \/ broken' /\ domain' = TableOf({1} \cup {3}, held')
    <3>1. ASSUME NEW c, NEW r, domain = TableOf(c, r)
          PROVE  domain' = TableOf(c \cup {3}, r)
      BY <2>1, <3>1 DEF TableOf
    <3>2. {2} \cup {3} = 2 .. 3
      BY Columns
    <3> QED
      BY <2>1, <2>3, <3>1, <3>2
  <2>5. domain' # NoTable /\ {3} \subseteq domain'.columns
    <3>1. ASSUME NEW c \in SUBSET (1 .. 4), NEW r \in SUBSET Result, domain' = TableOf(c, r),
                 {3} \subseteq c
          PROVE  domain' # NoTable /\ {3} \subseteq domain'.columns
      BY <3>1, Tables, NoTableIsNone
    <3>2. 2 .. 3 \in SUBSET (1 .. 4) /\ {1} \cup {3} \in SUBSET (1 .. 4)
      OBVIOUS
    <3>3. held' \in SUBSET Result /\ {} \in SUBSET Result
      BY <2>1
    <3> QED
      BY <2>4, <3>1, <3>2, <3>3
  <2>6. Shape'
    <3>1. {1} \cup {3} = {1, 3}
      OBVIOUS
    <3> QED
      BY <2>4, <3>1 DEF Shape, Whole, Emptied, Unread
  <2>7. Where'
    BY <2>1, <2>5, Places DEF Where, Statements
  <2>8. Stored'
    <3>1. version \in 1 .. 2 
      BY <2>2, Places DEF Stored
    <3>2. version = 2 => domain' = TableOf(2 .. 3, held')
      <4>1. SUFFICES ASSUME version = 2 PROVE domain' = TableOf(2 .. 3, held')
        OBVIOUS
      <4>2. PICK k \in 2 .. 4 : domain = TableOf(2 .. k, held)
        BY <4>1 DEF Stored, Whole
      <4>3. k = 2
        BY <2>2, <4>2, Tables
      <4>4. domain' = TableOf((2 .. 2) \cup {3}, held)
        BY <2>1, <4>2, <4>3 DEF TableOf
      <4> QED
        BY <2>1, <4>4, Columns
    <3> QED
      BY <2>1, <3>1, <3>2, Places DEF Stored, Whole, Statements
  <2> QED
    BY <2>6, <2>7, <2>8
<1>8. CASE UpgradeFromV3ToV4
  <2>1. domain' = [domain EXCEPT !.columns = @ \cup {4}] /\ pc' = Stamp
        /\ held' = held /\ version' = version /\ broken' = broken
    BY <1>8 DEF UpgradeFromV3ToV4, Go
  <2>2. domain # NoTable /\ 4 \notin domain.columns /\ pc = Upgrading(3)
    BY <1>8 DEF UpgradeFromV3ToV4, CanAddColumns
  <2>3. \/ domain = TableOf({2, 3}, held)
        \/ broken /\ domain = TableOf({2, 3}, {})
        \/ broken /\ domain = TableOf({1, 3}, held)
    <3>1. CASE domain = TableOf({1}, held)
      BY <2>2, <3>1, Tables DEF Where
    <3>2. CASE Whole
      <4>1. PICK k \in 2 .. 4 : domain = TableOf(2 .. k, held)
        BY <3>2 DEF Whole
      <4>2. k = 3
        BY <2>2, <4>1, Tables DEF Where
      <4> QED
        BY <4>1, <4>2, Columns
    <3>3. CASE broken /\ Emptied
      <4>1. PICK k \in 2 .. 4 : domain = TableOf(2 .. k, {})
        BY <3>3 DEF Emptied
      <4>2. k = 3
        BY <2>2, <4>1, Tables DEF Where
      <4> QED
        BY <3>3, <4>1, <4>2, Columns
    <3>4. CASE broken /\ Unread
      BY <2>2, <3>4, Tables DEF Unread
    <3> QED
      BY <2>2, <3>1, <3>2, <3>3, <3>4, Places DEF Shape
  <2>4. \/ domain' = TableOf(2 .. 4, held')
        \/ broken' /\ domain' = TableOf(2 .. 4, {})
        \/ broken' /\ domain' = TableOf({1, 3} \cup {4}, held')
    <3>1. ASSUME NEW c, NEW r, domain = TableOf(c, r)
          PROVE  domain' = TableOf(c \cup {4}, r)
      BY <2>1, <3>1 DEF TableOf
    <3>2. {2, 3} \cup {4} = 2 .. 4
      BY Columns
    <3> QED
      BY <2>1, <2>3, <3>1, <3>2
  <2>5. domain' # NoTable /\ {3, 4} \subseteq domain'.columns
    <3>1. ASSUME NEW c \in SUBSET (1 .. 4), NEW r \in SUBSET Result, domain' = TableOf(c, r),
                 {3, 4} \subseteq c
          PROVE  domain' # NoTable /\ {3, 4} \subseteq domain'.columns
      BY <3>1, Tables, NoTableIsNone
    <3>2. 2 .. 4 \in SUBSET (1 .. 4) /\ {1, 3} \cup {4} \in SUBSET (1 .. 4)
      OBVIOUS
    <3>3. held' \in SUBSET Result /\ {} \in SUBSET Result
      BY <2>1
    <3> QED
      BY <2>4, <3>1, <3>2, <3>3
  <2>6. Shape'
    <3>1. {1, 3} \cup {4} = {1, 3, 4}
      OBVIOUS
    <3> QED
      BY <2>4, <3>1 DEF Shape, Whole, Emptied, Unread
  <2>7. Where'
    BY <2>1, <2>5, Places DEF Where, Statements
  <2>8. Stored'
    <3>1. version \in 1 .. 3 
      BY <2>2, Places DEF Stored
    <3>2. version \in 2 .. 3 => domain' = TableOf(2 .. 4, held')
      <4>1. SUFFICES ASSUME version \in 2 .. 3 PROVE domain' = TableOf(2 .. 4, held')
        OBVIOUS
      <4>2. PICK k \in 2 .. 4 : domain = TableOf(2 .. k, held)
        BY <4>1 DEF Stored, Whole
      <4>3. k = 3
        BY <2>2, <4>2, Tables DEF Where
      <4>4. domain' = TableOf((2 .. 3) \cup {4}, held)
        BY <2>1, <4>2, <4>3 DEF TableOf
      <4> QED
        BY <2>1, <4>4, Columns
    <3> QED
      BY <2>1, <3>1, <3>2, Places DEF Stored, Whole, Statements
  <2> QED
    BY <2>6, <2>7, <2>8
<1>9. CASE UpgradeFails
  <2>1. Shape'
    BY <1>9, Places, Columns, Tables
       DEF Shape, Where, Stored, Whole, Emptied, Unread, UpgradeFails, NotOpened,
           CanAddColumns, Statements
  <2>2. Where'
    BY <1>9, Places, Columns, Tables
       DEF Shape, Where, Stored, Whole, Emptied, Unread, UpgradeFails, NotOpened,
           CanAddColumns, Statements
  <2>3. Stored'
    BY <1>9, Places, Columns, Tables
       DEF Shape, Where, Stored, Whole, Emptied, Unread, UpgradeFails, NotOpened,
           CanAddColumns, Statements
  <2> QED
    BY <2>1, <2>2, <2>3
<1>10. CASE StoreFails
  <2>1. Shape'
    BY <1>10, Places, Columns, Tables
       DEF Shape, Where, Stored, Whole, Emptied, Unread, StoreFails, Fault, NotOpened,
           Statements
  <2>2. Where'
    BY <1>10, Places, Columns, Tables
       DEF Shape, Where, Stored, Whole, Emptied, Unread, StoreFails, Fault, NotOpened,
           Statements
  <2>3. Stored'
    BY <1>10, Places, Columns, Tables
       DEF Shape, Where, Stored, Whole, Emptied, Unread, StoreFails, Fault, NotOpened,
           Statements
  <2> QED
    BY <2>1, <2>2, <2>3
<1>11. CASE SetVersion
  <2>1. Shape'
    BY <1>11, Places, Columns, Tables
       DEF Shape, Where, Stored, Whole, Emptied, Unread, SetVersion, Go, Statements
  <2>2. Where'
    BY <1>11, Places, Columns, Tables
       DEF Shape, Where, Stored, Whole, Emptied, Unread, SetVersion, Go, Statements
  <2>3. Stored'
    BY <1>11, Places, Columns, Tables
       DEF Shape, Where, Stored, Whole, Emptied, Unread, SetVersion, Go, Statements
  <2> QED
    BY <2>1, <2>2, <2>3
<1>12. CASE CreateTable
  <2>1. Shape'
    BY <1>12, Places, Columns, Tables
       DEF Shape, Where, Stored, Whole, Emptied, Unread, CreateTable, Statements
  <2>2. Where'
    BY <1>12, Places, Columns, Tables
       DEF Shape, Where, Stored, Whole, Emptied, Unread, CreateTable, Statements
  <2>3. Stored'
    BY <1>12, Places, Columns, Tables
       DEF Shape, Where, Stored, Whole, Emptied, Unread, CreateTable, Statements
  <2> QED
    BY <2>1, <2>2, <2>3
<1>13. CASE CreateTableFails
  <2>1. Shape'
    BY <1>13, Places, Columns, Tables
       DEF Shape, Where, Stored, Whole, Emptied, Unread, CreateTableFails, Fault,
           Statements
  <2>2. Where'
    BY <1>13, Places, Columns, Tables
       DEF Shape, Where, Stored, Whole, Emptied, Unread, CreateTableFails, Fault,
           Statements
  <2>3. Stored'
    BY <1>13, Places, Columns, Tables
       DEF Shape, Where, Stored, Whole, Emptied, Unread, CreateTableFails, Fault,
           Statements
  <2> QED
    BY <2>1, <2>2, <2>3
<1>14. CASE DelayCloseRdbStore
  <2>1. Shape'
    BY <1>14, Places, Columns, Tables
       DEF Shape, Where, Stored, Whole, Emptied, Unread, DelayCloseRdbStore, Go,
           Statements
  <2>2. Where'
    BY <1>14, Places, Columns, Tables
       DEF Shape, Where, Stored, Whole, Emptied, Unread, DelayCloseRdbStore, Go,
           Statements
  <2>3. Stored'
    BY <1>14, Places, Columns, Tables
       DEF Shape, Where, Stored, Whole, Emptied, Unread, DelayCloseRdbStore, Go,
           Statements
  <2> QED
    BY <2>1, <2>2, <2>3
<1>15. CASE Restart
  <2>1. domain' = domain /\ held' = held /\ pc' = Closed /\ version' = version
    BY <1>15 DEF Restart, Fault
  <2>0. broken \/ pc = At(7) => broken'
    BY <1>15, At(7) \in {At(i) : i \in Statements} DEF Restart, Statements
  <2>2. Shape'
    <3>1. CASE pc = At(7) /\ domain = TableOf({2}, {})
      BY <2>0, <2>1, <3>1, Columns DEF Shape, Emptied
    <3>2. CASE ~(pc = At(7) /\ domain = TableOf({2}, {}))
      BY <2>0, <2>1, <3>2 DEF Shape, Whole, Emptied, Unread
    <3> QED
      BY <3>1, <3>2
  <2>3. Where' /\ Stored'
    BY <2>1, Places DEF Where, Stored, Whole, Statements
  <2> QED
    BY <2>2, <2>3
<1>16. CASE UNCHANGED vars
  <2>1. Shape'
    BY <1>16, Places, Columns, Tables
       DEF Shape, Where, Stored, Whole, Emptied, Unread, vars, Statements
  <2>2. Where'
    BY <1>16, Places, Columns, Tables
       DEF Shape, Where, Stored, Whole, Emptied, Unread, vars, Statements
  <2>3. Stored'
    BY <1>16, Places, Columns, Tables
       DEF Shape, Where, Stored, Whole, Emptied, Unread, vars, Statements
  <2> QED
    BY <2>1, <2>2, <2>3
<1> QED
  BY <1>1, <1>2, <1>3, <1>4, <1>5, <1>6, <1>7, <1>8, <1>9, <1>10, <1>11, <1>12, <1>13,
     <1>14, <1>15, <1>16 DEF Next, Upgrade
-----------------------------------------------------------------------------
(* The inductive invariant is one. *)
THEOREM SpecIInv == Spec => []IInv
<1>1. IInv /\ UNCHANGED vars => IInv'
  BY NextIInv
<1> QED
  BY InitIInv, NextIInv, <1>1, PTL DEF Spec

(* The version, the tables and the place of GetRdbStore have their types,  *)
(* whatever the store held and however often it failed.                    *)
THEOREM SpecTypeOK == Spec => []TypeOK
<1>1. IInv => TypeOK
  BY DEF IInv
<1> QED
  BY <1>1, SpecIInv, PTL

(* GetRdbStore never hands out a store with a part of the old results, nor *)
(* without a column, unless UpgradeFromV1ToV2 was broken off or misled,    *)
(* and then it has all or none of them.                                    *)
THEOREM SpecOpenIsWhole == Spec => []OpenIsWhole
<1>1. IInv => OpenIsWhole
  <2> SUFFICES ASSUME IInv, pc = Opened, domain # NoTable
               PROVE  \/ domain = TableOf(2 .. RDB_VERSION, held)
                      \/ broken /\ domain = TableOf(2 .. RDB_VERSION, {})
                      \/ broken /\ domain = TableOf({1, 3, 4}, held)
    BY DEF OpenIsWhole
  <2>1. {3, 4} \subseteq domain.columns
    BY DEF IInv, Stored
  <2>2. ASSUME NEW k \in 2 .. 4, NEW rows, domain = TableOf(2 .. k, rows)
        PROVE  domain = TableOf(2 .. RDB_VERSION, rows)
    <3>1. 4 \in 2 .. k
      BY <2>1, <2>2, Tables
    <3>2. k = 4
      BY <3>1
    <3> QED
      BY <2>2, <3>2 DEF RDB_VERSION
  <2>3. domain # TableOf({1}, held) /\ domain # TableOf({1, 3}, held)
    BY <2>1, Tables
  <2> QED
    BY <2>2, <2>3, Places DEF IInv, Shape, Whole, Emptied, Unread
<1> QED
  BY <1>1, SpecIInv, PTL
=============================================================================
