---------------------------- MODULE DatabaseStart ----------------------------
(***************************************************************************)
(* migrations.py: the one-shot migration container, which brings any form  *)
(* of the database to the current schema in one transaction, and the gate  *)
(* (verify_db_initialized) every service passes before it opens the        *)
(* database.  The gate reads tables, indexes and columns in statements of  *)
(* their own, beside whatever else commits.                                *)
(***************************************************************************)
EXTENDS Naturals, FiniteSets, Sequences

SpcTables == {"spc_ip_state", "spc_rate_buckets", "spc_seen_sids", "spc_anomalies"}

\* triage_events, the columns it gained after its first release, and the indexes
\* on those columns; the other tables of schema.sql share the fate of the first.
EventObjects == {"triage_events", "columns", "column_indexes"}

Objects == EventObjects \cup SpcTables
Required == Objects

CONSTANTS
    OldForms   \* the forms of the database that an upgrade may find

ASSUME FormsAssumption == OldForms \subseteq SUBSET Objects

VARIABLES
    original,  \* the form found first
    schema,    \* the committed objects
    writer,    \* who holds SQLite's write lock: "none" or a process
    mig,       \* the migration: statements executed (0 when not running), its objects
    service    \* Suricata ingest at its gate, and what the gate has read

NotMigrating == [at |-> 0, work |-> {}]
startVars == <<original, schema, writer, mig, service>>

StartInit ==
    /\ original \in OldForms
    /\ schema = original
    /\ writer = "none"
    /\ mig = NotMigrating
    /\ service = [pc |-> "down", seen |-> {}]

-----------------------------------------------------------------------------
(* ensure_db_initialized.                                                  *)

\* ALTER TABLE comes before schema.sql, whose indexes need the columns.
Statements == <<"alter", "tables", "indexes", "spc">>

Executed(s, objects) ==
    CASE s = "alter" -> objects \cup (IF "triage_events" \in objects THEN {"columns"} ELSE {})
      [] s = "tables" -> objects \cup (IF "triage_events" \in objects
                                       THEN {} ELSE {"triage_events", "columns"})
      [] s = "indexes" -> objects \cup {"column_indexes"}
      [] s = "spc" -> objects \cup SpcTables

\* "no such column" is not retried.
Executable(s, objects) == s = "indexes" => "columns" \in objects

\* BEGIN IMMEDIATE; a lock that is held is tried five times, without effect.
BeginMigration ==
    /\ mig = NotMigrating
    /\ writer = "none"
    /\ writer' = "migrate"
    /\ mig' = [at |-> 1, work |-> schema]
    /\ UNCHANGED <<original, schema, service>>

Migrating == mig.at \in 1..Len(Statements)

\* Mutant: executescript commits before it runs.
RunStatementCommitting ==
    /\ Migrating
    /\ Executable(Statements[mig.at], mig.work)
    /\ mig' = [at |-> mig.at + 1, work |-> Executed(Statements[mig.at], mig.work)]
    /\ schema' = mig.work
    /\ UNCHANGED <<original, writer, service>>

RunStatement ==
    /\ Migrating
    /\ Executable(Statements[mig.at], mig.work)
    /\ mig' = [at |-> mig.at + 1, work |-> Executed(Statements[mig.at], mig.work)]
    /\ UNCHANGED <<original, schema, writer, service>>

CommitMigration ==
    /\ mig.at = Len(Statements) + 1
    /\ schema' = mig.work
    /\ writer' = "none"
    /\ mig' = NotMigrating
    /\ UNCHANGED <<original, service>>

\* An error or a kill: SQLite rolls the transaction back.
MigrationFails ==
    /\ mig # NotMigrating
    /\ writer' = "none"
    /\ mig' = NotMigrating
    /\ UNCHANGED <<original, schema, service>>

-----------------------------------------------------------------------------
(* verify_db_initialized, called by a service that starts.                 *)

ReadTables ==
    /\ service.pc = "down"
    /\ service' = [pc |-> "indexes", seen |-> schema \cap ({"triage_events"} \cup SpcTables)]
    /\ UNCHANGED <<original, schema, writer, mig>>

ReadIndexes ==
    /\ service.pc = "indexes"
    /\ service' = [pc |-> "columns",
                   seen |-> service.seen \cup (schema \cap {"column_indexes"})]
    /\ UNCHANGED <<original, schema, writer, mig>>

\* Last the columns, one PRAGMA per table; what is missing keeps the service down.
ReadColumns ==
    /\ service.pc = "columns"
    /\ service' = [pc |-> IF Required \subseteq service.seen \cup (schema \cap {"columns"})
                          THEN "up" ELSE "down", seen |-> {}]
    /\ UNCHANGED <<original, schema, writer, mig>>

Verifying == service.pc \in {"indexes", "columns"}

Running == service.pc # "down" /\ ~Verifying

Stop == service' = [pc |-> "down", seen |-> {}]

-----------------------------------------------------------------------------
(* Properties.                                                             *)

StartTypeOK ==
    /\ original \in OldForms
    /\ schema \subseteq Objects
    /\ mig.at \in 0..(Len(Statements) + 1)
    /\ mig.work \subseteq Objects
    /\ mig # NotMigrating <=> writer = "migrate"
    /\ service.seen \subseteq Objects

\* Whatever interrupts a migration, and whatever a backfill created before it,
\* the event tables have the form they were found in or the current one, and no
\* service runs on another than the current one.
SchemaWhole ==
    /\ schema \cap EventObjects \in {original \cap EventObjects, EventObjects}
    /\ Running => Required \subseteq schema
=============================================================================
