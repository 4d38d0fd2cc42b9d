----------------------------- MODULE Migration -----------------------------
(***************************************************************************)
(* Persistence::open and apply_migrations: several processes open one      *)
(* database left by an older build.  The version is read outside the       *)
(* transaction that upgrades the schema; the transaction is deferred, so   *)
(* it takes the write lock of the WAL only at its first write, and may     *)
(* find then that its snapshot is stale.                                   *)
(***************************************************************************)
EXTENDS DatabaseFile, Integers, FiniteSets

CONSTANTS
  Openers,          \* processes that open the database
  Current,          \* CURRENT_SCHEMA_VERSION
  Tables, Columns,  \* tables of SCHEMA_V8, columns added to session_semantic
  OldTables,        \* the sets of those tables that older builds created
  OldColumns,       \* the sets of those columns that older builds created
  Nobody            \* no process holds the write lock

MigrationAssumption ==
  /\ Current \in Nat \ {0} /\ Nobody \notin Openers
  /\ "session_semantic" \in Tables
  /\ OldTables \subseteq SUBSET Tables /\ OldColumns \subseteq SUBSET Columns

VARIABLES
  schema,  \* committed schema: version, tables and added columns
  writer,  \* holder of the write lock
  opener   \* where each process is, and its open transaction

migrationVars == <<source, schema, writer, opener>>

NoDraft == [version |-> 0, tables |-> {}, columns |-> {}]
Fresh == [at |-> "start", snapshot |-> 0, draft |-> NoDraft]

(* Databases older builds left: an empty file, one with the session table  *)
(* only, and those with the semantic table and some of its later columns.  *)
OldSchemas == {s \in [version : 0 .. Current - 1, tables : OldTables, columns : OldColumns] :
                 s.columns # {} => "session_semantic" \in s.tables}

Complete(s) == s.tables = Tables /\ s.columns = Columns

At(o, where) == opener[o].at = where
OnTo(o, where, draft) == [opener EXCEPT ![o].at = where, ![o].draft = draft]

ReadVersion(o) ==
  /\ At(o, "start")
  /\ opener' = OnTo(o, IF schema.version >= Current THEN "opened" ELSE "tables", NoDraft)
  /\ UNCHANGED <<source, schema, writer>>

(***************************************************************************)
(* The first statement takes the snapshot.  CREATE TABLE IF NOT EXISTS     *)
(* writes only when a table is missing; a new session_semantic has the     *)
(* columns.                                                                *)
(***************************************************************************)
CreateTables(o) ==
  /\ At(o, "tables")
  /\ schema.tables = Tables \/ writer = Nobody
  /\ writer' = IF schema.tables = Tables THEN writer ELSE o
  /\ opener' = [opener EXCEPT ![o] =
       [at |-> "columns", snapshot |-> source,
        draft |-> IF schema.tables = Tables THEN schema
                  ELSE [schema EXCEPT !.tables = Tables,
                          !.columns = IF "session_semantic" \in schema.tables THEN @ ELSE Columns]]]
  /\ UNCHANGED <<source, schema>>

(* A write of a transaction that has read: it needs the lock and a snapshot *)
(* no other commit has made stale.                                          *)
MayWrite(o) == writer = o \/ (writer = Nobody /\ opener[o].snapshot = source)

AddColumns(o) ==
  /\ At(o, "columns")
  /\ LET missing == Columns \ opener[o].draft.columns
     IN  \/ missing = {} /\ writer' = writer
         \/ missing # {} /\ MayWrite(o) /\ writer' = o
  /\ opener' = OnTo(o, "version", [opener[o].draft EXCEPT !.columns = Columns])
  /\ UNCHANGED <<source, schema>>

SetVersionAtOnce(o) ==
  /\ At(o, "columns")
  /\ writer \in {o, Nobody} /\ writer' = o
  /\ schema' = [schema EXCEPT !.version = Current]
  /\ opener' = OnTo(o, "commit", [opener[o].draft EXCEPT !.version = Current])
  /\ UNCHANGED source

SetVersion(o) ==
  /\ At(o, "version")
  /\ MayWrite(o) /\ writer' = o
  /\ opener' = OnTo(o, "commit", [opener[o].draft EXCEPT !.version = Current])
  /\ UNCHANGED <<source, schema>>

CommitMigration(o) ==
  /\ At(o, "commit")
  /\ schema' = opener[o].draft /\ source' = source + 1 /\ writer' = Nobody
  /\ opener' = OnTo(o, "opened", NoDraft)

(* The lock is held too long, the snapshot is stale, or a statement fails: *)
(* open returns the error and the transaction rolls back.  A killed        *)
(* process leaves the same database.                                       *)
OpenFails(o) ==
  /\ opener[o].at \notin {"opened", "failed"}
  /\ opener' = OnTo(o, "failed", NoDraft)
  /\ writer' = IF writer = o THEN Nobody ELSE writer
  /\ UNCHANGED <<source, schema>>

MigrationInit ==
  /\ schema \in OldSchemas /\ writer = Nobody
  /\ opener = [o \in Openers |-> Fresh]

Quietly(o) == ReadVersion(o) \/ CreateTables(o) \/ AddColumns(o) \/ SetVersion(o)
              \/ OpenFails(o)

(* A process with the database open already saves a session.               *)
OtherCommit ==
  /\ writer = Nobody /\ source' = source + 1
  /\ UNCHANGED <<schema, writer, opener>>

MigrationNext == OtherCommit \/ \E o \in Openers : Quietly(o) \/ CommitMigration(o)

MigrationSpec == MigrationInit /\ source \in Nat /\ [][MigrationNext]_migrationVars
----------------------------------------------------------------------------
(***************************************************************************)
(* A database that claims the current version has the whole schema, and a  *)
(* process that opened it never works on less, whoever upgraded it and     *)
(* whoever gave up or died half-way.                                       *)
(***************************************************************************)
OpenedMeansComplete ==
  /\ schema.version >= Current => Complete(schema)
  /\ \A o \in Openers : At(o, "opened") => Complete(schema) /\ schema.version >= Current
=============================================================================
