------------------------------ MODULE DatabaseOps ------------------------------
(***************************************************************************)
(* What is done to the database from outside the server, while it runs:    *)
(* `make migrate-up' and `make migrate-down' (golang-migrate over the      *)
(* scripts of migrations/) and `make db-clear' (cmd/dbclear,               *)
(* internal/platform/postgres/clear.go).                                   *)
(***************************************************************************)
EXTENDS Naturals

CONSTANTS
    RowId, Name,   \* apiaries of one account, and their names
    NoRow

VARIABLES
    level,     \* the schema there is: the scripts in effect, 0..Latest
    version,   \* the schema recorded in schema_migrations
    dirty,     \* its mark of a script that has not been seen to succeed
    rows,      \* the names of the active apiaries
    migrate,   \* the migrate command: what it does next
    clear,     \* the db-clear command: what it does next
    listed     \* the tables db-clear is going to truncate

opsVars == <<level, version, dirty, rows, migrate, clear, listed>>

Latest == 6
Empty == [i \in RowId |-> NoRow]
Stored == {i \in RowId : rows[i] # NoRow}
Duplicates == \E i, j \in Stored : i # j /\ rows[i] = rows[j]

OpsInit ==
    /\ level = 0 /\ version = 0 /\ dirty = FALSE
    /\ rows = Empty
    /\ migrate = "none" /\ clear = "none" /\ listed = {}

-----------------------------------------------------------------------------
(* The server; its INSERT names the columns of scripts 3 and 5.            *)
InsertRow ==
    /\ level >= 5
    /\ \E i \in RowId \ Stored, n \in Name :
        /\ level = 6 => \A j \in Stored : rows[j] # n
        /\ rows' = [rows EXCEPT ![i] = n]
    /\ UNCHANGED <<level, version, dirty, migrate, clear, listed>>

HardDelete ==
    /\ \E i \in Stored : rows' = [rows EXCEPT ![i] = NoRow]
    /\ UNCHANGED <<level, version, dirty, migrate, clear, listed>>

-----------------------------------------------------------------------------
(* golang-migrate: one command at a time, never on a dirty database; the   *)
(* version is marked dirty, the script runs, the mark is taken off.        *)
Mark(v, script) ==
    /\ migrate = "none" /\ ~dirty
    /\ version' = v /\ dirty' = TRUE /\ migrate' = script
    /\ UNCHANGED <<level, rows, clear, listed>>

MigrateUp == version < Latest /\ Mark(version + 1, "up")
MigrateDown == version > 0 /\ Mark(version - 1, "down")

Unmark ==
    /\ migrate = "unmark"
    /\ dirty' = FALSE /\ migrate' = "none"
    /\ UNCHANGED <<level, version, rows, clear, listed>>

ScriptFails == migrate' = "none" /\ UNCHANGED <<level, rows>>
NowAt(v) == level' = v /\ migrate' = "unmark"

(* Scripts 1 to 5 up; each builds on the schema before it.                 *)
UpScript ==
    /\ migrate = "up" /\ version < 6
    /\ IF level = version - 1 THEN NowAt(version) /\ UNCHANGED rows ELSE ScriptFails
    /\ UNCHANGED <<version, dirty, clear, listed>>

(* Script 6 looks for duplicates, then builds the index, which looks again: *)
(* the first statement does not keep the server from inserting.            *)
CheckNames ==
    /\ migrate = "up" /\ version = 6
    /\ IF Duplicates THEN ScriptFails ELSE migrate' = "build" /\ UNCHANGED <<level, rows>>
    /\ UNCHANGED <<version, dirty, clear, listed>>

(* Fault: the check before it is taken to be enough. *)
BuildUnchecked ==
    /\ migrate = "build"
    /\ NowAt(6) /\ UNCHANGED rows
    /\ UNCHANGED <<version, dirty, clear, listed>>
BuildIndex ==
    /\ migrate = "build"
    /\ IF Duplicates THEN ScriptFails ELSE NowAt(6) /\ UNCHANGED rows
    /\ UNCHANGED <<version, dirty, clear, listed>>

(* Script 1 down drops the table. *)
DownScript ==
    /\ migrate = "down"
    /\ IF level = version + 1
       THEN NowAt(version) /\ rows' = IF version = 0 THEN Empty ELSE rows
       ELSE ScriptFails
    /\ UNCHANGED <<version, dirty, clear, listed>>

MigrateDies ==
    /\ migrate # "none"
    /\ migrate' = "none"
    /\ UNCHANGED <<level, version, dirty, rows, clear, listed>>

-----------------------------------------------------------------------------
Tables == {"schema_migrations"} \cup IF level > 0 THEN {"apiaries"} ELSE {}
(* Fault: migrate's own table is one of the public ones. *)
PublicTables == Tables
ApplicationTables == Tables \ {"schema_migrations"}

(* -yes skips the question. *)
DbClear ==
    /\ clear = "none"
    /\ clear' \in {"asking", "listing"}
    /\ UNCHANGED <<level, version, dirty, rows, migrate, listed>>

confirm ==
    /\ clear = "asking"
    /\ clear' \in {"none", "listing"}
    /\ UNCHANGED <<level, version, dirty, rows, migrate, listed>>

ListTables ==
    /\ clear = "listing"
    /\ listed' = ApplicationTables
    /\ clear' = IF listed' = {} THEN "none" ELSE "truncating"
    /\ UNCHANGED <<level, version, dirty, rows, migrate>>

(* One statement for all tables: it fails as a whole if one of them is     *)
(* gone, and waits for a script that has read one.                         *)
Truncate ==
    /\ clear = "truncating" /\ migrate # "build"
    /\ IF listed \subseteq Tables
       THEN /\ rows' = IF "apiaries" \in listed THEN Empty ELSE rows
            /\ IF "schema_migrations" \in listed
               THEN version' = 0 /\ dirty' = FALSE
               ELSE UNCHANGED <<version, dirty>>
       ELSE UNCHANGED <<rows, version, dirty>>
    /\ clear' = "none" /\ listed' = {}
    /\ UNCHANGED <<level, migrate>>

OpsNext == \/ InsertRow \/ HardDelete
           \/ MigrateUp \/ MigrateDown \/ Unmark \/ UpScript \/ CheckNames \/ BuildIndex
           \/ DownScript \/ MigrateDies
           \/ DbClear \/ confirm \/ ListTables \/ Truncate

OpsSpec == OpsInit /\ [][OpsNext]_opsVars

-----------------------------------------------------------------------------
(* A database that is not marked dirty has the schema it is recorded to    *)
(* have, whatever commands were started, stopped or refused half-way: a    *)
(* db-clear that took the record with the data would make the next         *)
(* migrate-up run the first script on a database that has it.              *)
RecordTrue == ~dirty => version = level

(* Once the last script is in effect no two apiaries of an account share a *)
(* name, though the server inserts while the script runs.                  *)
NamesUniqueAtLatest == level = Latest => ~Duplicates
=============================================================================
