--------------------------- MODULE DatabaseOps_proofs ---------------------------
(***************************************************************************)
(* RecordTrue and NamesUniqueAtLatest, for any number of rows and names.   *)
(***************************************************************************)
EXTENDS DatabaseOps, TLAPS

OpsType ==
    /\ level \in 0..Latest /\ version \in 0..Latest /\ dirty \in BOOLEAN
    /\ rows \in [RowId -> Name \cup {NoRow}]
    /\ migrate \in {"none", "up", "build", "down", "unmark"}

(* What a migrate command under way knows, and what db-clear never lists.  *)
Commands ==
    /\ migrate # "none" => dirty
    /\ migrate = "unmark" => version = level
    /\ migrate = "build" => version = Latest
    /\ migrate = "down" => version < Latest
    /\ "schema_migrations" \notin listed

OpsInv == OpsType /\ Commands /\ RecordTrue /\ NamesUniqueAtLatest

(* The initial state satisfies the invariant. *)
LEMMA OpsInitially == OpsInit => OpsInv
<1> SUFFICES ASSUME OpsInit PROVE OpsInv
  OBVIOUS
<1>1. OpsType
  <2>1. level \in 0..Latest /\ version \in 0..Latest
    BY DEF OpsInit, Latest
  <2>2. dirty \in BOOLEAN
    BY Zenon DEF OpsInit
  <2>3. rows \in [RowId -> Name \cup {NoRow}]
    BY DEF OpsInit, Empty
  <2> QED BY <2>1, <2>2, <2>3 DEF OpsType, OpsInit
<1>2. Commands /\ RecordTrue
  BY DEF OpsInit, Commands, RecordTrue
<1>3. NamesUniqueAtLatest
  BY DEF OpsInit, NamesUniqueAtLatest, Latest
<1> QED BY <1>1, <1>2, <1>3 DEF OpsInv

(* Every step of the server and of the two commands keeps it.              *)
LEMMA OpsStep == OpsInv /\ [OpsNext]_opsVars => OpsInv'
<1> SUFFICES ASSUME OpsInv, [OpsNext]_opsVars PROVE OpsInv'
  OBVIOUS
<1> USE DEF OpsInv, OpsType, Commands, RecordTrue, Latest
<1>1. CASE InsertRow
  <2>1. PICK i \in RowId \ Stored, n \in Name :
          /\ level = 6 => \A j \in Stored : rows[j] # n
          /\ rows' = [rows EXCEPT ![i] = n]
    BY <1>1 DEF InsertRow
  <2>2. NamesUniqueAtLatest'
    BY <1>1, <2>1 DEF InsertRow, NamesUniqueAtLatest, Duplicates, Stored
  <2> QED BY <1>1, <2>1, <2>2 DEF InsertRow
<1>2. CASE HardDelete
  BY <1>2 DEF HardDelete, NamesUniqueAtLatest, Duplicates, Stored
<1>3. CASE MigrateUp
  BY <1>3 DEF MigrateUp, Mark, NamesUniqueAtLatest, Duplicates, Stored
<1>4. CASE MigrateDown
  BY <1>4 DEF MigrateDown, Mark, NamesUniqueAtLatest, Duplicates, Stored
<1>5. CASE Unmark
  BY <1>5 DEF Unmark, NamesUniqueAtLatest, Duplicates, Stored
<1>6. CASE UpScript
  BY <1>6 DEF UpScript, NowAt, ScriptFails, NamesUniqueAtLatest, Duplicates, Stored
<1>7. CASE CheckNames
  BY <1>7 DEF CheckNames, ScriptFails, NamesUniqueAtLatest, Duplicates, Stored
<1>8. CASE BuildIndex
  BY <1>8 DEF BuildIndex, NowAt, ScriptFails, NamesUniqueAtLatest, Duplicates, Stored
<1>9. CASE DownScript
  BY <1>9 DEF DownScript, NowAt, ScriptFails, NamesUniqueAtLatest, Duplicates, Stored, Empty
<1>10. CASE MigrateDies
  BY <1>10 DEF MigrateDies, NamesUniqueAtLatest, Duplicates, Stored
<1>11. CASE DbClear \/ confirm
  BY <1>11 DEF DbClear, confirm, NamesUniqueAtLatest, Duplicates, Stored
<1>12. CASE ListTables
  BY <1>12 DEF ListTables, ApplicationTables, Tables, NamesUniqueAtLatest, Duplicates, Stored
<1>13. CASE Truncate
  <2>1. rows' \in {rows, Empty} /\ UNCHANGED <<version, dirty, level, migrate>> /\ listed' = {}
    BY <1>13 DEF Truncate
  <2>2. rows' = Empty => ~Duplicates'
    BY DEF Empty, Duplicates, Stored
  <2>3. NamesUniqueAtLatest'
    BY <2>1, <2>2 DEF NamesUniqueAtLatest, Duplicates, Stored
  <2> QED BY <2>1, <2>3 DEF Empty
<1>14. CASE UNCHANGED opsVars
  BY <1>14 DEF opsVars, NamesUniqueAtLatest, Duplicates, Stored
<1> QED
  BY <1>1, <1>2, <1>3, <1>4, <1>5, <1>6, <1>7, <1>8, <1>9, <1>10, <1>11, <1>12, <1>13, <1>14
  DEF OpsNext

(* The invariant holds in every reachable state. *)
THEOREM OpsInductive == OpsSpec => []OpsInv
BY OpsInitially, OpsStep, PTL DEF OpsSpec

(* RecordTrue in every reachable state: the record of the schema is never  *)
(* silently wrong, so golang-migrate never runs a script on the wrong one. *)
THEOREM RecordStaysTrue == OpsSpec => []RecordTrue
<1>1. OpsInv => RecordTrue
  BY DEF OpsInv
<1> QED BY <1>1, OpsInductive, PTL

(* NamesUniqueAtLatest in every reachable state.                           *)
THEOREM NamesStayUnique == OpsSpec => []NamesUniqueAtLatest
<1>1. OpsInv => NamesUniqueAtLatest
  BY DEF OpsInv
<1> QED BY <1>1, OpsInductive, PTL
=============================================================================
