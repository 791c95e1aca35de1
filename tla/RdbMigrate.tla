------------------------------ MODULE RdbMigrate ------------------------------
(***************************************************************************)
(* RdbMigrate: how the store of the verify results is opened.  A store of  *)
(* an older version is upgraded by RdbMigrateMgr before it is handed out:  *)
(* V1 to V2 statement by statement, the later steps in a transaction each; *)
(* the version is written after the last of them.  Any statement may fail, *)
(* and the process may die between any two.                                *)
(*                                                                         *)
(* The version of a store and the columns of its table are two different   *)
(* things.  Columns are named by the version that introduced them: 1 is    *)
(* KEY and VALUE, 2 is ID to VERIFY_STATUES, 3 is VERIFY_TIME and          *)
(* VERIFY_COUNT, 4 is VERIFY_PRIORITY.                                     *)
(***************************************************************************)
EXTENDS Integers

CONSTANTS
    Result,     \* the hosts of bundles a V1 store holds, with their status
    NoTable,
    MaxFaults   \* bound: statements that fail and deaths of the process

ASSUME RdbMigrateAssumption ==
    /\ Result # {}
    /\ MaxFaults \in Nat
    /\ NoTable \notin [columns : SUBSET (1 .. 4), rows : SUBSET Result]

RDB_VERSION == 4

INNER_VERSION_1_0 == 1
INNER_VERSION_UNKNOWN == 0

TableOf(columns, rows) == [columns |-> columns, rows |-> rows]

Table == [columns : SUBSET (1 .. RDB_VERSION), rows : SUBSET Result]

VARIABLES
    version,    \* of the store, 0 for a new file
    domain,     \* verified_domain
    temp,       \* temp_table, of this connection only
    final,      \* final_table
    pc,         \* where GetRdbStore is
    init,       \* the constructor's InitRdb has yet to create the table
    held,       \* history: the results the old store has
    broken,     \* history: UpgradeFromV1ToV2 was broken off, or misled
    faults      \* history: failures and deaths so far

vars == <<version, domain, temp, final, pc, init, held, broken, faults>>
-----------------------------------------------------------------------------
At(i) == <<"V1ToV2", i>>        \* before statement i of UpgradeFromV1ToV2
Statements == 1 .. 8

Closed == <<"closed">>
Opened == <<"open">>
Stamp == <<"setVersion">>
Drop == <<"dropTable">>         \* a statement of UpgradeFromV1ToV2 failed
Upgrading(v) == <<"upgrade", v>>  \* before the upgrade function of version v

TypePc == {Closed, Opened, Stamp, Drop} \cup {At(i) : i \in Statements}
            \cup {Upgrading(v) : v \in 1 .. 3}

(* Stores this code or an earlier one has written: a store of version 1    *)
(* may have the columns of version 1 or 2 (its "inner version").           *)
Init ==
    /\ \/ version = 0 /\ domain = NoTable
       \/ version = 1 /\ \E c \in {1, 2} : domain = TableOf({c}, Result)
       \/ version \in 2 .. RDB_VERSION /\ domain = TableOf(2 .. version, Result)
    /\ temp = NoTable
    /\ final = NoTable
    /\ pc = Closed
    /\ init = TRUE
    /\ held = IF version = 0 THEN {} ELSE Result
    /\ broken = FALSE
    /\ faults = 0

Go(next) == pc' = next /\ UNCHANGED <<init, held, faults>>

Fault == faults < MaxFaults /\ faults' = faults + 1 /\ UNCHANGED held

(* GetRdbStore calls OnCreate, OnUpgrade or neither. *)
GetRdbStore ==
    /\ pc = Closed
    /\ Go(IF version = RDB_VERSION THEN Opened
          ELSE IF version = 0 THEN Stamp ELSE Upgrading(version))
    /\ UNCHANGED <<version, domain, temp, final, broken>>

(* Told by the number of columns; a table that is not there has none. *)
QueryInnerVersion ==
    IF domain # NoTable /\ domain.columns = {1}
      THEN INNER_VERSION_1_0 ELSE INNER_VERSION_UNKNOWN

UpgradeFromV1ToV2 ==
    /\ pc = Upgrading(1)
    /\ Go(IF QueryInnerVersion = INNER_VERSION_1_0 THEN At(1) ELSE Upgrading(2))
    /\ UNCHANGED <<version, domain, temp, final, broken>>

(* A query that fails says INNER_VERSION_UNKNOWN: nothing to do. *)
QueryInnerVersionFails ==
    /\ pc = Upgrading(1)
    /\ Fault
    /\ pc' = Upgrading(2)
    /\ broken' = TRUE
    /\ UNCHANGED <<version, domain, temp, final, init>>

(* The statements of migrateSqls, in their order; json_each makes a row of *)
(* each host of each bundle.                                               *)
Execute(i) ==
    /\ temp' = CASE i = 1 -> NoTable
                 [] i = 3 -> domain
                 [] OTHER -> temp
    /\ final' = CASE i \in {2, 8} -> NoTable
                  [] i = 4 -> TableOf({2}, temp.rows)
                  [] OTHER -> final
    /\ domain' = CASE i = 5 -> NoTable
                   [] i = 6 -> TableOf({2}, {})
                   [] i = 7 -> [domain EXCEPT !.rows = @ \cup final.rows]
                   [] OTHER -> domain

Statement(i) ==
    /\ pc = At(i)
    /\ Execute(i)
    /\ Go(IF i < 8 THEN At(i + 1) ELSE Upgrading(2))
    /\ UNCHANGED <<version, broken>>

StatementFails(i) ==
    /\ pc = At(i)
    /\ Fault
    /\ broken' = TRUE
    /\ pc' = Drop
    /\ UNCHANGED <<version, domain, temp, final, init>>

(* The result of this last statement is the result of the upgrade. *)
DropTable ==
    /\ pc = Drop
    /\ domain' = NoTable
    /\ Go(Upgrading(2))
    /\ UNCHANGED <<version, temp, final, broken>>

(* ALTER TABLE in a transaction: it fails if there is no table, or if it   *)
(* has the column already, and then Upgrade stops.                         *)
CanAddColumns(v) == domain # NoTable /\ v \notin domain.columns

UpgradeFromV2ToV3 ==
    /\ pc = Upgrading(2)
    /\ CanAddColumns(3)
    /\ domain' = [domain EXCEPT !.columns = @ \cup {3}]
    /\ Go(Upgrading(3))
    /\ UNCHANGED <<version, temp, final, broken>>

UpgradeFromV3ToV4 ==
    /\ pc = Upgrading(3)
    /\ CanAddColumns(4)
    /\ domain' = [domain EXCEPT !.columns = @ \cup {4}]
    /\ Go(Stamp)
    /\ UNCHANGED <<version, temp, final, broken>>

NotOpened ==
    /\ pc' = Closed
    /\ init' = FALSE
    /\ temp' = NoTable
    /\ UNCHANGED <<version, domain, final, broken>>

\* mutant: OnUpgrade hides that the upgrade failed
UpgradeFailsHidden ==
    /\ \E v \in {2, 3} : pc = Upgrading(v) /\ ~CanAddColumns(v + 1)
    /\ Go(Stamp)
    /\ UNCHANGED <<version, domain, temp, final, broken>>

(* ExecSqlWithTrans rolls back; OnUpgrade fails; there is no store. *)
UpgradeFails ==
    /\ \E v \in {2, 3} : pc = Upgrading(v) /\ ~CanAddColumns(v + 1)
    /\ NotOpened
    /\ UNCHANGED <<held, faults>>

(* A transaction, the last DROP or the writing of the version fails. *)
StoreFails ==
    /\ pc \in {Upgrading(2), Upgrading(3), Drop, Stamp}
    /\ Fault
    /\ NotOpened

\* mutant: one upgrade, one version
SetVersionOfStep ==
    /\ pc = Stamp
    /\ version' = IF version = 0 THEN RDB_VERSION ELSE version + 1
    /\ Go(Opened)
    /\ UNCHANGED <<domain, temp, final, broken>>

SetVersion ==
    /\ pc = Stamp
    /\ version' = RDB_VERSION
    /\ Go(Opened)
    /\ UNCHANGED <<domain, temp, final, broken>>

(* InitRdb: CREATE TABLE IF NOT EXISTS. *)
CreateTable ==
    /\ pc = Opened
    /\ init
    /\ init' = FALSE
    /\ domain' = IF domain = NoTable
                   THEN TableOf(2 .. RDB_VERSION, {}) ELSE domain
    /\ UNCHANGED <<version, temp, final, pc, held, broken, faults>>

CreateTableFails ==
    /\ pc = Opened
    /\ init
    /\ Fault
    /\ init' = FALSE
    /\ UNCHANGED <<version, domain, temp, final, pc, broken>>

DelayCloseRdbStore ==
    /\ pc = Opened
    /\ ~init
    /\ temp' = NoTable
    /\ Go(Closed)
    /\ UNCHANGED <<version, domain, final, broken>>

(* The process dies and starts again. *)
Restart ==
    /\ Fault
    /\ pc' = Closed
    /\ init' = TRUE
    /\ temp' = NoTable
    /\ broken' = (broken \/ pc \in {At(i) : i \in Statements})
    /\ UNCHANGED <<version, domain, final>>

Upgrade ==
    \/ UpgradeFromV1ToV2
    \/ \E i \in Statements : Statement(i)
    \/ DropTable
    \/ UpgradeFromV2ToV3 \/ UpgradeFromV3ToV4 \/ UpgradeFails

Next ==
    \/ GetRdbStore \/ Upgrade \/ SetVersion \/ CreateTable \/ DelayCloseRdbStore
    \/ \E i \in Statements : StatementFails(i)
    \/ QueryInnerVersionFails \/ StoreFails \/ CreateTableFails \/ Restart

Spec == Init /\ [][Next]_vars

(* Every operation on the results opens the store first, and a call of the *)
(* store returns.                                                          *)
FairSpec ==
    Spec /\ WF_vars(GetRdbStore) /\ WF_vars(Upgrade) /\ WF_vars(SetVersion)
-----------------------------------------------------------------------------
TypeOK ==
    /\ version \in 0 .. RDB_VERSION
    /\ domain \in Table \cup {NoTable}
    /\ temp \in Table \cup {NoTable}
    /\ final \in Table \cup {NoTable}
    /\ pc \in TypePc
    /\ init \in BOOLEAN
    /\ held \in {{}, Result}
    /\ broken \in BOOLEAN
    /\ faults \in 0 .. MaxFaults

(***************************************************************************)
(* A store that is handed out has all the results of the old one, in a     *)
(* table with every column, however often the upgrade failed, died and was *)
(* repeated, and from whatever version; unless UpgradeFromV1ToV2 was       *)
(* broken off or could not read the table.  Then it has none of them, and  *)
(* never a part: nothing, or a table nobody can read.                      *)
(***************************************************************************)
OpenIsWhole ==
    pc = Opened /\ domain # NoTable =>
        \/ domain = TableOf(2 .. RDB_VERSION, held)
        \/ broken /\ domain = TableOf(2 .. RDB_VERSION, {})
        \/ broken /\ domain = TableOf({1, 3, 4}, held)

(* What an upgrade leaves behind that no later one can take up. *)
HalfDone ==
    /\ version \in 1 .. 3
    /\ \/ domain = NoTable
       \/ domain.columns \cap {3, 4} # 3 .. version

(***************************************************************************)
(* The store opens again and again, also after upgrades that failed or     *)
(* died, or it is half-done for ever: the version is written only after    *)
(* the last step, and the steps cannot be repeated.  Without a failure or  *)
(* a death no store is left half-done.                                     *)
(***************************************************************************)
OpensOrHalfDone ==
    /\ []<>(pc = Opened) \/ <>[](HalfDone /\ faults > 0)
    /\ [](pc = Closed /\ HalfDone => faults > 0)
===============================================================================
