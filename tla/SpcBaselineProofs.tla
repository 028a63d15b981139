-------------------------- MODULE SpcBaselineProofs --------------------------
(***************************************************************************)
(* What the migration, the gate and the backfill leave of the schema, and  *)
(* what the tables of the baselines hold of the rows, for every form an    *)
(* upgrade may find, every number of rows, runs and faults.                *)
(*                                                                         *)
(* SchemaWhole is not inductive.  SchemaInv adds how far the open          *)
(* transaction of the migration has brought its copy of the schema, that   *)
(* this copy never falls behind what is committed (the write lock), and    *)
(* that no table is dropped between the reads of the gate or under a   *)
(* service that passed it.                                                 *)
(*                                                                         *)
(* The other properties are parts of one: Faithful(rows, d, done, m) says  *)
(* what tables d hold of the first m rows when the observations of the     *)
(* rows in done are whole.  HistoryInv states it of the committed tables,  *)
(* of what the open transaction of ingest would commit and of what the     *)
(* backfill has replayed, each up to the row it has come to.               *)
(***************************************************************************)
EXTENDS SpcBaseline, FiniteSetTheorems, SequenceTheorems, WellFoundedInduction, TLAPS

\* What the executed statements of the migration guarantee of its copy.
MigrationProgress ==
    /\ mig.at \in 0..5
    /\ mig.work \subseteq Objects
    /\ mig.at >= 2 => ("triage_events" \in mig.work => "columns" \in mig.work)
    /\ mig.at >= 3 => {"triage_events", "columns"} \subseteq mig.work
    /\ mig.at >= 4 => EventObjects \subseteq mig.work
    /\ mig.at >= 5 => Objects \subseteq mig.work

\* The lock keeps everybody else from the schema while the migration runs.
MigrationAlone ==
    mig # NotMigrating => writer = "migrate" /\ schema \subseteq mig.work

GateStates == {"down", "indexes", "columns", "up", "triaged"}

GateRead ==
    /\ service \in [pc : GateStates, seen : SUBSET Objects]
    /\ Verifying => service.seen \subseteq schema

BackfillAlone == bf.pc # "idle" => service.pc = "down"

\* Which fields bf has; the ranges of most are left open.
BackfillShape ==
    /\ DOMAIN bf = {"pc", "at", "from", "next", "until", "work", "batch", "stale"}
    /\ bf.pc \in {"drop", "create"} => bf.at \in 1..4

\* Only the holder of the lock has an open transaction.
LockHeld ==
    /\ pending # NoData => writer = "ingest"
    /\ bf.batch # {} => writer = "backfill"

SchemaInv ==
    /\ original \subseteq Objects /\ schema \subseteq Objects
    /\ SchemaWhole
    /\ mig \in [at : Nat, work : SUBSET Objects]
    /\ MigrationProgress
    /\ MigrationAlone
    /\ GateRead
    /\ BackfillAlone
    /\ BackfillShape
    /\ LockHeld

schemaVars == <<original, schema, mig, service>>

LEMMA SchemaInit == Init => SchemaInv
<1> SUFFICES ASSUME Init PROVE SchemaInv OBVIOUS
<1>1. /\ original \subseteq Objects /\ schema = original /\ mig = NotMigrating
      /\ service = [pc |-> "down", seen |-> {}] /\ pending = NoData /\ bf = NoBackfill
  BY FormsAssumption DEF Init, StartInit
<1>2. SchemaWhole BY <1>1 DEF SchemaWhole, Running, Verifying
<1>3. mig \in [at : Nat, work : SUBSET Objects] /\ MigrationProgress
  BY <1>1 DEF MigrationProgress, NotMigrating
<1>4. GateRead
  <2>1. service.pc = "down" /\ service \in [pc : {"down"}, seen : {{}}] BY <1>1
  <2> QED BY <2>1 DEF GateRead, Verifying, GateStates
<1>5. BackfillAlone BY <1>1 DEF BackfillAlone, NoBackfill
<1>6. BackfillShape BY <1>1 DEF BackfillShape, NoBackfill
<1>7. LockHeld BY <1>1 DEF LockHeld, NoBackfill
<1> QED BY <1>1, <1>2, <1>3, <1>4, <1>5, <1>6, <1>7 DEF SchemaInv, MigrationAlone

\* A step that changes neither the schema nor the gate nor the migration.
LEMMA SchemaUntouched ==
    ASSUME SchemaInv, UNCHANGED schemaVars,
           mig # NotMigrating => writer' = writer,
           bf'.pc # "idle" => bf.pc # "idle" \/ service.pc = "down",
           BackfillShape', LockHeld'
    PROVE  SchemaInv'
<1>1. SchemaWhole' BY DEF SchemaInv, schemaVars, SchemaWhole, Running, Verifying
<1>2. MigrationProgress' /\ MigrationAlone'
  BY DEF SchemaInv, schemaVars, MigrationProgress, MigrationAlone
<1>3. GateRead' BY DEF SchemaInv, schemaVars, GateRead, Verifying, GateStates
<1>4. BackfillAlone' BY DEF SchemaInv, schemaVars, BackfillAlone
<1> QED BY <1>1, <1>2, <1>3, <1>4 DEF SchemaInv, schemaVars

LEMMA OvertakenFacts ==
    ASSUME BackfillShape
    PROVE  /\ Overtaken.pc = bf.pc /\ Overtaken.batch = bf.batch
           /\ bf' = Overtaken => BackfillShape'
<1> DEFINE x == bf.stale \/ bf.pc = "replay"
<1>1. Overtaken = [bf EXCEPT !.stale = x] BY DEF Overtaken
<1> HIDE DEF x
<1> QED BY <1>1 DEF BackfillShape

LEMMA MigrateStep ==
    ASSUME SchemaInv, Migrate
    PROVE  SchemaInv'
<1> USE DEF SchemaInv
<1>1. CASE BeginMigration /\ UNCHANGED spcVars
  <2>1. /\ mig' = [at |-> 1, work |-> schema] /\ writer = "none" /\ writer' = "migrate"
        /\ UNCHANGED <<original, schema, service, bf, pending>>
    BY <1>1 DEF BeginMigration, spcVars
  <2>2. SchemaWhole' /\ GateRead' /\ BackfillAlone' /\ BackfillShape'
    BY <2>1 DEF SchemaWhole, Running, Verifying, GateRead, GateStates, BackfillAlone, BackfillShape
  <2>3. MigrationProgress' /\ MigrationAlone' /\ LockHeld'
    BY <2>1 DEF MigrationProgress, MigrationAlone, LockHeld
  <2> QED BY <2>1, <2>2, <2>3
<1>2. CASE RunStatement /\ UNCHANGED spcVars
  <2>1. /\ mig.at \in 1..4 /\ mig # NotMigrating
        /\ mig' = [at |-> mig.at + 1, work |-> Executed(Statements[mig.at], mig.work)]
        /\ UNCHANGED <<original, schema, writer, service, bf, pending>>
    BY <1>2 DEF RunStatement, Migrating, Statements, NotMigrating, spcVars
  <2>2. mig.work \subseteq mig'.work /\ mig'.work \subseteq Objects
    BY <2>1 DEF Executed, Statements, Objects, EventObjects, MigrationProgress
  <2>3. MigrationProgress'
    BY <2>1, <2>2 DEF Executed, Statements, Objects, EventObjects, MigrationProgress
  <2>4. SchemaWhole' /\ GateRead' /\ BackfillAlone' /\ BackfillShape' /\ LockHeld'
    BY <2>1 DEF SchemaWhole, Running, Verifying, GateRead, GateStates, BackfillAlone, BackfillShape, LockHeld
  <2> QED BY <2>1, <2>2, <2>3, <2>4 DEF MigrationAlone
<1>3. CASE MigrationFails /\ UNCHANGED spcVars
  <2>1. /\ mig' = NotMigrating /\ writer = "migrate" /\ writer' = "none"
        /\ UNCHANGED <<original, schema, service, bf, pending>>
    BY <1>3 DEF MigrationFails, spcVars, MigrationAlone
  <2>2. SchemaWhole' /\ GateRead' /\ BackfillAlone' /\ BackfillShape' /\ LockHeld'
    BY <2>1 DEF SchemaWhole, Running, Verifying, GateRead, GateStates, BackfillAlone, BackfillShape, LockHeld
  <2>3. mig' \in [at : Nat, work : SUBSET Objects] /\ MigrationProgress'
    BY <2>1 DEF MigrationProgress, NotMigrating
  <2> QED BY <2>1, <2>2, <2>3 DEF MigrationAlone
<1>4. CASE /\ CommitMigration
           /\ bf' = IF schema' # schema THEN Overtaken ELSE bf
           /\ UNCHANGED pending
  <2>1. /\ mig.at = 5 /\ schema' = mig.work /\ mig' = NotMigrating
        /\ UNCHANGED <<original, service>>
    BY <1>4 DEF CommitMigration, Statements
  <2>2. schema \subseteq schema' /\ schema' = Objects /\ writer = "migrate"
    <3>1. mig # NotMigrating BY <2>1 DEF NotMigrating
    <3> QED BY <2>1, <3>1 DEF MigrationProgress, MigrationAlone
  <2>3. SchemaWhole' /\ GateRead'
    BY <2>1, <2>2 DEF SchemaWhole, Running, Verifying, Required, GateRead, GateStates, Objects
  <2>4. BackfillAlone' /\ BackfillShape'
    BY <1>4, <2>1, OvertakenFacts DEF BackfillAlone, BackfillShape
  <2>5. LockHeld'
    BY <1>4, <2>2, OvertakenFacts DEF LockHeld
  <2>6. mig' \in [at : Nat, work : SUBSET Objects] /\ MigrationProgress'
    BY <2>1 DEF MigrationProgress, NotMigrating
  <2> QED BY <2>1, <2>2, <2>3, <2>4, <2>5, <2>6 DEF MigrationAlone
<1> QED BY <1>1, <1>2, <1>3, <1>4 DEF Migrate

LEMMA GateStep ==
    ASSUME SchemaInv, Gate
    PROVE  SchemaInv'
<1> USE DEF SchemaInv
<1>1. /\ bf.pc = "idle" /\ UNCHANGED <<bf, pending, original, schema, writer, mig>>
  BY DEF Gate, ReadTables, ReadIndexes, ReadColumns, NoBackfill
<1>2. MigrationProgress' /\ MigrationAlone' /\ BackfillShape' /\ LockHeld'
  BY <1>1 DEF MigrationProgress, MigrationAlone, BackfillShape, LockHeld
<1>3. CASE ReadTables
  <2>1. service' = [pc |-> "indexes", seen |-> schema \cap ({"triage_events"} \cup SpcTables)]
    BY <1>3 DEF ReadTables
  <2> QED BY <1>1, <1>2, <2>1 DEF SchemaWhole, Running, Verifying, GateRead, GateStates, BackfillAlone
<1>4. CASE ReadColumns
  <2>1. /\ service'.pc \in {"up", "down"} /\ service'.seen = {}
        /\ service' \in [pc : {"up", "down"}, seen : {{}}]
        /\ service'.pc = "up" => Required \subseteq service.seen \cup schema
        /\ service.seen \subseteq schema
    BY <1>4 DEF ReadColumns, GateRead, Verifying, GateStates
  <2> QED BY <1>1, <1>2, <2>1 DEF SchemaWhole, Running, Verifying, GateRead, GateStates, BackfillAlone
<1>5. CASE ReadIndexes
  <2>1. /\ service' = [pc |-> "columns",
                       seen |-> service.seen \cup (schema \cap {"column_indexes"})]
        /\ service.seen \subseteq schema
    BY <1>5 DEF ReadIndexes, GateRead, Verifying
  <2> QED BY <1>1, <1>2, <2>1 DEF SchemaWhole, Running, Verifying, GateRead, GateStates, BackfillAlone
<1> QED BY <1>3, <1>4, <1>5 DEF Gate

\* A running ingest goes from one of its states to another, or down.
LEMMA ServiceMoves ==
    ASSUME SchemaInv, Running,
           service'.pc \in {"up", "triaged", "down"}, service' \in [pc : GateStates, seen : SUBSET Objects],
           UNCHANGED <<original, schema, mig, bf>>,
           mig # NotMigrating => writer' = writer,
           LockHeld'
    PROVE  SchemaInv'
<1>1. bf.pc = "idle" BY DEF SchemaInv, BackfillAlone, Running, Verifying
<1>2. SchemaWhole' /\ MigrationProgress' /\ MigrationAlone'
  BY DEF SchemaInv, SchemaWhole, Running, Verifying, MigrationProgress, MigrationAlone
<1>3. GateRead'
  BY DEF SchemaInv, GateRead, GateStates, Verifying
<1>4. BackfillAlone' /\ BackfillShape'
  BY <1>1 DEF SchemaInv, BackfillAlone, BackfillShape
<1> QED BY <1>2, <1>3, <1>4 DEF SchemaInv

LEMMA IngestStep ==
    ASSUME SchemaInv, Ingest
    PROVE  SchemaInv'
<1> USE DEF SchemaInv
<1>1. ASSUME NEW r \in AlertRow, OldInsert(r) PROVE SchemaInv'
  <2>1. LockHeld' BY <1>1, OvertakenFacts DEF OldInsert, startVars, LockHeld
  <2> QED BY <1>1, <2>1, OvertakenFacts, SchemaUntouched DEF OldInsert, startVars, schemaVars
<1>2. ASSUME NEW st \in {"up", "triaged"}, service.pc \in {"up", "triaged"},
             service' = [service EXCEPT !.pc = st]
      PROVE  /\ Running
             /\ service'.pc \in {"up", "triaged", "down"}
             /\ service' \in [pc : GateStates, seen : SUBSET Objects]
  BY <1>2 DEF Running, Verifying, GateRead, GateStates
<1>3. ASSUME NEW r \in AlertRow, Triage(r) PROVE SchemaInv'
  <2>1. LockHeld' /\ (mig # NotMigrating => writer' = writer)
    BY <1>3 DEF Triage, LockHeld, MigrationAlone
  <2> QED BY <1>2, <1>3, <2>1, ServiceMoves DEF Triage
<1>4. CASE DiscardPending
  <2>1. LockHeld' /\ (mig # NotMigrating => writer' = writer)
    BY <1>4 DEF DiscardPending, LockHeld, MigrationAlone
  <2> QED BY <1>4, <2>1, SchemaUntouched DEF DiscardPending, schemaVars, BackfillShape
<1>5. CASE Observe
  <2>1. LockHeld' /\ (mig # NotMigrating => writer' = writer)
    BY <1>5 DEF Observe, LockHeld
  <2> QED BY <1>2, <1>5, <2>1, ServiceMoves DEF Observe
<1>6. ASSUME NEW n \in 0..6, ObserveFails(n) PROVE SchemaInv'
  <2>1. LockHeld' /\ (mig # NotMigrating => writer' = writer)
    BY <1>6 DEF ObserveFails, LockHeld, MigrationAlone
  <2> QED BY <1>2, <1>6, <2>1, ServiceMoves DEF ObserveFails
<1>7. CASE Crash
  <2>1. LockHeld' /\ (mig # NotMigrating => writer' = writer)
    BY <1>7 DEF Crash, LockHeld, MigrationAlone
  <2>2. service' = [pc |-> "down", seen |-> {}] /\ Running
        /\ UNCHANGED <<original, schema, mig, bf>>
    BY <1>7 DEF Crash, Stop
  <2>3. service'.pc \in {"up", "triaged", "down"} /\ service' \in [pc : GateStates, seen : SUBSET Objects]
    BY <2>2 DEF GateStates
  <2> QED BY <2>1, <2>2, <2>3, ServiceMoves
<1> QED BY <1>1, <1>3, <1>4, <1>5, <1>6, <1>7 DEF Ingest

LEMMA BackfillStep ==
    ASSUME SchemaInv, Backfill
    PROVE  SchemaInv'
<1> USE DEF SchemaInv
<1>1. ASSUME NEW reset \in BOOLEAN, StartBackfill(reset) PROVE SchemaInv'
  <2>1. /\ service.pc = "down" /\ bf = NoBackfill
        /\ bf' = [bf EXCEPT !.pc = IF reset THEN "drop" ELSE "create"]
        /\ UNCHANGED <<original, schema, writer, mig, service, pending>>
    BY <1>1 DEF StartBackfill, startVars
  <2>2. BackfillShape' /\ LockHeld'
    BY <2>1 DEF BackfillShape, LockHeld, NoBackfill
  <2> QED BY <2>1, <2>2, SchemaUntouched DEF schemaVars
<1>2. ASSUME bf.pc # "idle", writer = "none",
             schema \cap EventObjects = schema' \cap EventObjects,
             schema' \subseteq Objects,
             BackfillShape', bf'.batch = bf.batch,
             UNCHANGED <<original, writer, mig, service, pending>>
      PROVE  SchemaInv'
  <2>1. service.pc = "down" /\ mig = NotMigrating
    BY <1>2 DEF BackfillAlone, MigrationAlone
  <2>2. SchemaWhole' BY <1>2, <2>1 DEF SchemaWhole, Running, Verifying
  <2>3. MigrationProgress' /\ MigrationAlone' /\ LockHeld'
    BY <1>2, <2>1 DEF MigrationProgress, MigrationAlone, LockHeld
  <2>4. GateRead' /\ BackfillAlone'
    BY <1>2, <2>1 DEF GateRead, Verifying, GateStates, BackfillAlone
  <2> QED BY <1>2, <2>2, <2>3, <2>4
<1>3. CASE DropTable
  <2>1. /\ bf.pc = "drop" /\ writer = "none"
        /\ schema' = schema \ {DropOrder[bf.at]}
        /\ BackfillShape' /\ bf'.batch = bf.batch
        /\ UNCHANGED <<original, writer, mig, service, pending>>
    BY <1>3 DEF DropTable, BackfillShape, DropOrder
  <2>2. bf.pc # "idle" BY <2>1
  <2>3. bf.at \in 1..4 BY <2>1 DEF BackfillShape
  <2> QED BY <1>2, <2>1, <2>2, <2>3 DEF DropOrder, EventObjects
<1>4. CASE CreateTable
  <2>1. /\ bf.pc = "create" /\ writer = "none"
        /\ schema' = schema \cup {CreateOrder[bf.at]}
        /\ BackfillShape' /\ bf'.batch = bf.batch
        /\ UNCHANGED <<original, writer, mig, service, pending>>
    BY <1>4 DEF CreateTable, BackfillShape, CreateOrder
  <2>2. bf.pc # "idle" BY <2>1
  <2>3. bf.at \in 1..4 BY <2>1 DEF BackfillShape
  <2>4. CreateOrder[bf.at] \in SpcTables BY <2>3 DEF CreateOrder, SpcTables
  <2>5. SpcTables \subseteq Objects /\ SpcTables \cap EventObjects = {}
    BY DEF SpcTables, Objects, EventObjects
  <2> QED BY <1>2, <2>1, <2>2, <2>4, <2>5
\* The rest of the backfill leaves the schema alone.
<1>5. ASSUME bf.pc # "idle", UNCHANGED <<schemaVars, pending>>, BackfillShape', LockHeld',
             mig # NotMigrating => writer' = writer
      PROVE  SchemaInv'
  BY <1>5, SchemaUntouched
<1>6. bf' = NoBackfill => BackfillShape'
  BY DEF NoBackfill, BackfillShape
<1>7. CASE CountRows
  <2>1. bf.pc = "count" /\ bf.pc # "idle" BY <1>7 DEF CountRows, NoBackfill
  <2>2. BackfillShape' /\ bf'.batch \in {bf.batch, {}}
    BY <1>6, <1>7 DEF CountRows, BackfillShape, NoBackfill
  <2> QED BY <1>5, <1>7, <2>1, <2>2 DEF CountRows, startVars, schemaVars, LockHeld
<1>8. CASE OpenCursor
  <2>1. bf.pc # "idle" /\ BackfillShape' /\ bf'.batch = bf.batch
    BY <1>8 DEF OpenCursor, BackfillShape, NoBackfill
  <2> QED BY <1>5, <1>8, <2>1 DEF OpenCursor, startVars, schemaVars, LockHeld
<1>9. CASE ReplayRow
  <2>1. bf.pc # "idle" /\ BackfillShape'
    BY <1>9 DEF ReplayRow, Unread, BackfillShape, NoBackfill
  <2>2. LockHeld' /\ mig = NotMigrating
    BY <1>9 DEF ReplayRow, LockHeld, MigrationAlone
  <2> QED BY <1>5, <1>9, <2>1, <2>2 DEF ReplayRow, schemaVars
<1>10. CASE SkipRow
  <2>1. bf.pc # "idle" /\ BackfillShape' /\ bf'.batch = bf.batch
    BY <1>10 DEF SkipRow, Unread, BackfillShape, NoBackfill
  <2> QED BY <1>5, <1>10, <2>1 DEF SkipRow, startVars, schemaVars, LockHeld
<1>11. CASE CommitBatch
  <2>1. bf.pc # "idle" /\ BackfillShape' /\ bf'.batch = {} /\ bf.batch # {}
    BY <1>11 DEF CommitBatch, CommitDue, BackfillShape, NoBackfill
  <2>2. LockHeld' /\ mig = NotMigrating
    BY <1>11, <2>1 DEF CommitBatch, LockHeld, MigrationAlone
  <2> QED BY <1>5, <1>11, <2>1, <2>2 DEF CommitBatch, schemaVars
<1>12. CASE FinishBackfill
  <2>1. bf.pc # "idle" /\ bf.batch = {} /\ bf' = NoBackfill
    BY <1>12 DEF FinishBackfill, NoBackfill
  <2>2. LockHeld' BY <1>12, <2>1 DEF FinishBackfill, startVars, LockHeld, NoBackfill
  <2> QED BY <1>5, <1>6, <1>12, <2>1, <2>2 DEF FinishBackfill, startVars, schemaVars
<1>13. CASE BackfillDies
  <2>1. LockHeld' /\ (mig # NotMigrating => writer' = writer)
    BY <1>13 DEF BackfillDies, LockHeld, NoBackfill, MigrationAlone
  <2>2. bf'.pc = "idle" /\ BackfillShape' BY <1>6, <1>13 DEF BackfillDies, NoBackfill
  <2> QED BY <1>13, <2>1, <2>2, SchemaUntouched DEF BackfillDies, schemaVars
<1> QED BY <1>1, <1>3, <1>4, <1>7, <1>8, <1>9, <1>10, <1>11, <1>12, <1>13 DEF Backfill

LEMMA SchemaStep == SchemaInv /\ [Next]_vars => SchemaInv'
<1> SUFFICES ASSUME SchemaInv, [Next]_vars PROVE SchemaInv' OBVIOUS
<1>1. CASE UNCHANGED vars
  <2>1. UNCHANGED <<original, schema, mig, service, writer, bf, pending>>
    BY <1>1 DEF vars, startVars, spcVars
  <2> QED BY <2>1, SchemaUntouched DEF SchemaInv, schemaVars, BackfillShape, LockHeld
<1>2. CASE OtherCommit
  <2>1. LockHeld' BY <1>2, OvertakenFacts DEF OtherCommit, startVars, LockHeld, SchemaInv
  <2> QED BY <1>2, <2>1, OvertakenFacts, SchemaUntouched
        DEF OtherCommit, startVars, schemaVars, SchemaInv
<1> QED BY <1>1, <1>2, MigrateStep, GateStep, IngestStep, BackfillStep DEF Next

LEMMA SchemaInvHolds == Spec => []SchemaInv
  BY SchemaInit, SchemaStep, PTL DEF Spec

\* From whatever form an upgrade starts and wherever the migration, a backfill or
\* a service is interrupted, the event tables are as found or current, and a
\* service that passed the gate has every table, column and index it needs.
THEOREM SchemaIsWhole == Spec => []SchemaWhole
  BY SchemaInvHolds, PTL DEF SchemaInv

-----------------------------------------------------------------------------
(* What the tables hold of the rows.                                       *)

\* Induction over the rows, as the absence of a least counterexample.
LEMMA LeastNumber ==
    ASSUME NEW T \in SUBSET Nat, T # {}
    PROVE  \E m \in T : \A n \in T : m <= n
<1>1. PICK m \in T : \A n \in T : <<n, m>> \notin OpToRel(<, Nat)
  BY WFMin, NatLessThanWellFounded
<1>2. ASSUME NEW k \in Nat, NEW n \in Nat, <<n, k>> \notin OpToRel(<, Nat) PROVE k <= n
  BY <1>2 DEF OpToRel
<1> QED BY <1>1, <1>2

LEMMA MinOfNumbers ==
    ASSUME NEW T \in SUBSET Nat, T # {}
    PROVE  Min(T) \in T /\ \A n \in T : Min(T) <= n
  BY LeastNumber DEF Min

\* The first m replays of the alerts exist.
LEMMA ReplaysExist ==
    ASSUME NEW alerts, NEW m \in Nat
    PROVE  \E g : g = [n \in 0..m |-> IF n = 0 THEN Empty ELSE Observed(g[n - 1], alerts[n])]
<1> DEFINE Of(g, k) == g = [n \in 0..k |-> IF n = 0 THEN Empty
                                           ELSE Observed(g[n - 1], alerts[n])]
           Bad == {k \in Nat : ~ \E g : Of(g, k)}
<1>1. SUFFICES Bad = {} OBVIOUS
<1>2. SUFFICES ASSUME NEW k \in Bad, \A n \in Bad : k <= n PROVE FALSE
  <2>1. Bad \in SUBSET Nat OBVIOUS
  <2> HIDE DEF Bad
  <2> QED BY <2>1, LeastNumber
<1>3. CASE k = 0
  <2>1. Of([n \in 0..0 |-> Empty], 0) OBVIOUS
  <2> QED BY <1>3, <2>1
<1>4. CASE k # 0
  <2>1. k \in Nat /\ k - 1 \in Nat BY <1>4
  <2>2. k - 1 \notin Bad
    <3> HIDE DEF Bad
    <3> QED BY <1>2, <2>1
  <2>3. PICK g : Of(g, k - 1) BY <2>2, <2>1
  <2> DEFINE h == [n \in 0..k |-> IF n = k THEN Observed(g[k - 1], alerts[k]) ELSE g[n]]
  <2>4. \A n \in 0..(k - 1) : h[n] = g[n] BY <2>1
  <2>5. ASSUME NEW n \in 0..k
        PROVE  h[n] = IF n = 0 THEN Empty ELSE Observed(h[n - 1], alerts[n])
    <3>1. CASE n = k
      <4>1. h[n] = Observed(g[k - 1], alerts[k]) BY <3>1
      <4>2. h[k - 1] = g[k - 1] BY <2>1, <2>4
      <4> QED BY <1>4, <3>1, <4>1, <4>2
    <3>2. CASE n # k
      <4>1. n \in 0..(k - 1) /\ h[n] = g[n] BY <3>2, <2>1, <2>4
      <4>2. g[n] = IF n = 0 THEN Empty ELSE Observed(g[n - 1], alerts[n])
        BY <2>3, <4>1
      <4>3. n # 0 => h[n - 1] = g[n - 1] BY <4>1, <2>4, <2>1
      <4> QED BY <4>1, <4>2, <4>3
    <3> QED BY <3>1, <3>2
  <2>6. Of(h, k)
    <3>1. h = [n \in 0..k |-> h[n]] OBVIOUS
    <3> HIDE DEF h
    <3> QED BY <2>5, <3>1
  <2> QED BY <2>6
<1> QED BY <1>3, <1>4

\* The equations of the replay.
LEMMA ReplaySteps ==
    ASSUME NEW alerts, Len(alerts) \in Nat
    PROVE  /\ Replays(alerts)[0] = Empty
           /\ \A n \in 1..Len(alerts) :
                  Replays(alerts)[n] = Observed(Replays(alerts)[n - 1], alerts[n])
<1> DEFINE Of(g) == g = [n \in 0..Len(alerts) |-> IF n = 0 THEN Empty
                                                  ELSE Observed(g[n - 1], alerts[n])]
<1>1. \E g : Of(g) BY ReplaysExist
<1>2. Replays(alerts) = CHOOSE g : Of(g) BY DEF Replays
<1>3. Of(Replays(alerts)) BY <1>1, <1>2
<1> QED BY <1>3

\* One more alert changes nothing of the replays before it.
LEMMA ReplaysOfMore ==
    ASSUME NEW alerts \in Seq(AlertRow), NEW r \in AlertRow
    PROVE  \A n \in 0..Len(alerts) : Replays(Append(alerts, r))[n] = Replays(alerts)[n]
<1> DEFINE more == Append(alerts, r)
           Bad == {k \in 0..Len(alerts) : Replays(more)[k] # Replays(alerts)[k]}
<1>1. /\ Len(alerts) \in Nat /\ Len(more) = Len(alerts) + 1
      /\ \A n \in 1..Len(alerts) : more[n] = alerts[n]
  OBVIOUS
<1> HIDE DEF more
<1>2. SUFFICES ASSUME NEW k \in Bad, \A n \in Bad : k <= n PROVE FALSE
  <2>1. Bad \in SUBSET Nat BY <1>1
  <2>2. Bad # {} => \E k \in Bad : \A n \in Bad : k <= n
    <3> HIDE DEF Bad
    <3> QED BY <2>1, LeastNumber
  <2>3. Bad = {} BY <1>2, <2>2
  <2> QED BY <2>3 DEF more
<1>3. /\ Replays(alerts)[0] = Empty /\ Replays(more)[0] = Empty
      /\ \A n \in 1..Len(alerts) :
            /\ Replays(alerts)[n] = Observed(Replays(alerts)[n - 1], alerts[n])
            /\ Replays(more)[n] = Observed(Replays(more)[n - 1], alerts[n])
  BY <1>1, ReplaySteps
<1>4. k \in 1..Len(alerts) BY <1>1, <1>3
<1>5. k - 1 \in 0..Len(alerts) /\ k - 1 \notin Bad BY <1>1, <1>2, <1>4
<1>6. Replays(more)[k - 1] = Replays(alerts)[k - 1] BY <1>5
<1> QED BY <1>3, <1>4, <1>6

LEMMA EmptyFacts == Empty \in Baseline
<1>1. 0 \in 0..MaxHour BY SpcAssumption
<1> QED BY <1>1 DEF Empty, Baseline

\* What the first w writes of observe change of the columns the properties are about.
Noted(d, r, w, e) ==
    /\ e.first = FirstSeen(d, r)
    /\ e.sids \in {d.sids, d.sids \cup {r.sid}}
    /\ w \in {5, 6} => e.sids = d.sids \cup {r.sid}
    /\ \A s \in Sids : e.novel[s] = IF w \in {5, 6} /\ s = r.sid /\ IsNovel(d, r)
                                    THEN d.novel[s] + 1 ELSE d.novel[s]
    /\ \A h \in Hours : e.rate[h] = d.rate[h] \/ (d.rate[h] = 0 /\ e.rate[h] = 1)
    /\ \A h \in Hours : e.count[h] = d.count[h] \/ (h = r.hour /\ e.count[h] = d.count[h] + 1)
    /\ w = 6 => e.count[r.hour] = d.count[r.hour] + 1

LEMMA WritesFacts ==
    ASSUME NEW d \in Baseline, NEW r \in AlertRow, NEW w \in 1..6
    PROVE  Writes(d, r)[w] \in Baseline /\ Noted(d, r, w, Writes(d, r)[w])
<1> DEFINE past == {h \in Hours \ {r.hour} : d.count[h] > 0}
           active == d.active \/ (Aged(d, r) /\ Cardinality(past) >= MinSamples)
           one == [d EXCEPT !.first = FirstSeen(d, r)]
           two == [one EXCEPT !.sids = @ \cup {r.sid}]
           three == [two EXCEPT !.count[r.hour] = @ + 1]
           four == [three EXCEPT !.active = active]
           isSpike == active /\ d.rate[r.hour] = 0 /\ Spikes(d.count, past, three.count[r.hour])
           five == [four EXCEPT !.novel[r.sid] = IF IsNovel(d, r) THEN @ + 1 ELSE @]
           six == [five EXCEPT !.rate[r.hour] = IF isSpike THEN @ + 1 ELSE @]
<1>1. Writes(d, r) = <<one, two, three, four, five, six>> BY DEF Writes
<1>2. /\ r.hour \in Hours /\ r.sid \in Sids BY DEF AlertRow
<1>3. FirstSeen(d, r) \in 0..MaxHour BY <1>2, SpcAssumption DEF FirstSeen, Hours, Baseline
<1>4. active \in BOOLEAN /\ (isSpike => d.rate[r.hour] = 0)
  <2>1. d.active \in BOOLEAN BY DEF Baseline
  <2> QED BY <2>1
<1> HIDE DEF active, isSpike
<1>5. /\ one \in Baseline /\ one.first = FirstSeen(d, r)
      /\ one.sids = d.sids /\ one.novel = d.novel /\ one.rate = d.rate /\ one.count = d.count
  BY <1>3 DEF Baseline
<1> HIDE DEF one
<1>6. /\ two \in Baseline /\ two.first = FirstSeen(d, r)
      /\ two.sids = d.sids \cup {r.sid} /\ two.novel = d.novel /\ two.rate = d.rate
      /\ two.count = d.count
  BY <1>2, <1>5 DEF Baseline
<1> HIDE DEF two
<1> DEFINE Counts(e) ==
             \A h \in Hours : e.count[h] = IF h = r.hour THEN d.count[h] + 1 ELSE d.count[h]
<1>7. /\ three \in Baseline /\ three.first = FirstSeen(d, r)
      /\ three.sids = d.sids \cup {r.sid} /\ three.novel = d.novel /\ three.rate = d.rate
      /\ Counts(three)
  BY <1>2, <1>6 DEF Baseline
<1> HIDE DEF three
<1>8. /\ four \in Baseline /\ four.first = FirstSeen(d, r)
      /\ four.sids = d.sids \cup {r.sid} /\ four.novel = d.novel /\ four.rate = d.rate
      /\ Counts(four)
  BY <1>4, <1>7 DEF Baseline
<1> HIDE DEF four
<1> DEFINE Novels(e) ==
             \A s \in Sids : e.novel[s] = IF s = r.sid /\ IsNovel(d, r)
                                          THEN d.novel[s] + 1 ELSE d.novel[s]
<1>9. /\ five \in Baseline /\ five.first = FirstSeen(d, r) /\ five.sids = d.sids \cup {r.sid}
      /\ five.rate = d.rate /\ Novels(five) /\ Counts(five)
  <2> DEFINE novel == [d.novel EXCEPT ![r.sid] = IF IsNovel(d, r) THEN @ + 1 ELSE @]
  <2>1. novel \in [Sids -> Nat]
        /\ \A s \in Sids : novel[s] = IF s = r.sid /\ IsNovel(d, r)
                                       THEN d.novel[s] + 1 ELSE d.novel[s]
    BY <1>2 DEF Baseline
  <2>2. five.novel = novel BY <1>8 DEF Baseline
  <2>3. /\ five.first = four.first /\ five.sids = four.sids /\ five.count = four.count
        /\ five.rate = four.rate
    BY <1>8 DEF Baseline
  <2>4. five = [four EXCEPT !.novel = five.novel] BY <1>8 DEF Baseline
  <2> HIDE DEF novel, five
  <2>5. five \in Baseline BY <1>8, <2>1, <2>2, <2>4 DEF Baseline
  <2> QED BY <1>8, <2>1, <2>2, <2>3, <2>5
<1> HIDE DEF five
<1>10. /\ six \in Baseline /\ six.first = FirstSeen(d, r) /\ six.sids = d.sids \cup {r.sid}
       /\ \A h \in Hours : six.rate[h] = d.rate[h] \/ (d.rate[h] = 0 /\ six.rate[h] = 1)
       /\ Novels(six) /\ Counts(six)
  <2> DEFINE rate == [d.rate EXCEPT ![r.hour] = IF isSpike THEN @ + 1 ELSE @]
  <2>1. rate \in [Hours -> Nat]
        /\ \A h \in Hours : rate[h] = d.rate[h] \/ (d.rate[h] = 0 /\ rate[h] = 1)
    BY <1>2, <1>4 DEF Baseline
  <2>2. six.rate = rate BY <1>9 DEF Baseline
  <2>3. /\ six.first = five.first /\ six.sids = five.sids /\ six.count = five.count
        /\ six.novel = five.novel
    BY <1>9 DEF Baseline
  <2>4. six = [five EXCEPT !.rate = six.rate] BY <1>9 DEF Baseline
  <2> HIDE DEF rate, six
  <2>5. six \in Baseline BY <1>9, <2>1, <2>2, <2>4 DEF Baseline
  <2> QED BY <1>9, <2>1, <2>2, <2>3, <2>5
<1> HIDE DEF six
<1>12. CASE w = 6
  <2>1. Writes(d, r)[w] = six BY <1>1, <1>12
  <2> QED BY <1>2, <1>10, <1>12, <2>1 DEF Noted
<1>13. CASE w = 5
  <2>1. Writes(d, r)[w] = five BY <1>1, <1>13
  <2> QED BY <1>2, <1>9, <1>13, <2>1 DEF Noted
<1>11. CASE w \notin {5, 6}
  <2>1. Writes(d, r)[w] \in {one, two, three, four}
    <3>1. w \in {1, 2, 3, 4} BY <1>11
    <3> QED BY <1>1, <3>1
  <2>2. \A e \in {one, two, three, four} :
           /\ e \in Baseline /\ e.first = FirstSeen(d, r)
           /\ e.sids \in {d.sids, d.sids \cup {r.sid}}
           /\ e.novel = d.novel /\ e.rate = d.rate
           /\ e.count = d.count \/ Counts(e)
    BY <1>5, <1>6, <1>7, <1>8
  <2> DEFINE e == Writes(d, r)[w]
  <2>3. /\ e \in Baseline /\ e.first = FirstSeen(d, r)
        /\ e.sids \in {d.sids, d.sids \cup {r.sid}} /\ e.novel = d.novel /\ e.rate = d.rate
        /\ e.count = d.count \/ Counts(e)
    BY <2>1, <2>2
  <2> HIDE DEF e
  <2>4. \A s \in Sids : e.novel[s] = IF w \in {5, 6} /\ s = r.sid /\ IsNovel(d, r)
                                    THEN d.novel[s] + 1 ELSE d.novel[s]
    BY <1>11, <2>3
  <2>5. Noted(d, r, w, e) BY <1>11, <2>3, <2>4 DEF Noted
  <2> QED BY <2>3, <2>5 DEF e
<1> QED BY <1>11, <1>12, <1>13

\* The first of the rows with its signature.
FirstOfSid(alerts, i) == \A j \in 1..(i - 1) : alerts[j].sid # alerts[i].sid

InHour(alerts, of, h) == {i \in of : alerts[i].hour = h}

\* Each bucket counts the alerts of its hour that are done, and no alert twice.
Tallied(alerts, d, done, m) ==
    \A h \in Hours :
        /\ Cardinality(InHour(alerts, done, h)) <= d.count[h]
        /\ d.count[h] <= Cardinality(InHour(alerts, 1..m, h))

LEMMA HourFinite ==
    ASSUME NEW alerts, NEW m \in Nat, NEW of \in SUBSET (1..m), NEW h
    PROVE  /\ IsFiniteSet(InHour(alerts, of, h))
           /\ Cardinality(InHour(alerts, of, h)) \in Nat
<1>1. IsFiniteSet(1..m) BY FS_Interval
<1>2. InHour(alerts, of, h) \subseteq 1..m BY DEF InHour
<1> QED BY <1>1, <1>2, FS_Subset, FS_CardinalityType

LEMMA HourGrows ==
    ASSUME NEW alerts, NEW m \in Nat, NEW more \in SUBSET (1..m), NEW of \in SUBSET more, NEW h
    PROVE  Cardinality(InHour(alerts, of, h)) <= Cardinality(InHour(alerts, more, h))
<1>1. InHour(alerts, of, h) \subseteq InHour(alerts, more, h) BY DEF InHour
<1> QED BY <1>1, HourFinite, FS_Subset

\* One more alert is one more in its hour.
LEMMA HourOfNext ==
    ASSUME NEW alerts, NEW m \in Nat, NEW of \in SUBSET (1..m), NEW k \in (1..m) \ of, NEW h
    PROVE  Cardinality(InHour(alerts, of \cup {k}, h)) =
             IF alerts[k].hour = h THEN Cardinality(InHour(alerts, of, h)) + 1
             ELSE Cardinality(InHour(alerts, of, h))
<1> DEFINE T == InHour(alerts, of, h)
<1>1. IsFiniteSet(T) BY HourFinite
<1>2. k \notin T BY DEF InHour
<1>3. InHour(alerts, of \cup {k}, h) = IF alerts[k].hour = h THEN T \cup {k} ELSE T
  BY DEF InHour
<1> HIDE DEF T
<1>4. Cardinality(T \cup {k}) = Cardinality(T) + 1 BY <1>1, <1>2, FS_AddElement
<1> QED BY <1>3, <1>4 DEF T

LEMMA TalliedSkipping ==
    ASSUME NEW alerts, NEW d \in Baseline, NEW k \in Nat, NEW m \in Nat, k <= m,
           NEW done \in SUBSET (1..k), Tallied(alerts, d, done, k)
    PROVE  Tallied(alerts, d, done, m)
<1> SUFFICES ASSUME NEW h \in Hours
             PROVE  /\ Cardinality(InHour(alerts, done, h)) <= d.count[h]
                    /\ d.count[h] <= Cardinality(InHour(alerts, 1..m, h))
  BY DEF Tallied
<1>1. 1..k \in SUBSET (1..m) OBVIOUS
<1>2. Cardinality(InHour(alerts, 1..k, h)) <= Cardinality(InHour(alerts, 1..m, h))
  BY <1>1, HourGrows
<1>3. /\ Cardinality(InHour(alerts, 1..k, h)) \in Nat
      /\ Cardinality(InHour(alerts, 1..m, h)) \in Nat
  BY <1>1, HourFinite
<1>4. d.count[h] \in Nat BY DEF Baseline
<1> QED BY <1>2, <1>3, <1>4 DEF Tallied

LEMMA TalliedToMore ==
    ASSUME NEW alerts, NEW more, NEW d, NEW m \in Nat, NEW done \in SUBSET (1..m),
           \A i \in 1..m : more[i] = alerts[i], Tallied(alerts, d, done, m)
    PROVE  Tallied(more, d, done, m)
<1>1. \A h : /\ InHour(more, done, h) = InHour(alerts, done, h)
             /\ InHour(more, 1..m, h) = InHour(alerts, 1..m, h)
  BY DEF InHour
<1> QED BY <1>1 DEF Tallied

LEMMA TalliedEmpty ==
    ASSUME NEW alerts, NEW d, NEW e, NEW done, NEW m \in Nat, d \in Baseline,
           \/ e.count = Empty.count
           \/ e.count = d.count /\ Tallied(alerts, d, done, m)
    PROVE  Tallied(alerts, e, {}, m)
<1> SUFFICES ASSUME NEW h \in Hours
             PROVE  /\ Cardinality(InHour(alerts, {}, h)) <= e.count[h]
                    /\ e.count[h] <= Cardinality(InHour(alerts, 1..m, h))
  BY DEF Tallied
<1>1. Cardinality(InHour(alerts, {}, h)) = 0 BY FS_EmptySet DEF InHour
<1>2. Cardinality(InHour(alerts, 1..m, h)) \in Nat BY HourFinite
<1>3. CASE e.count = Empty.count
  <2>1. e.count[h] = 0 BY <1>3 DEF Empty
  <2> QED BY <1>1, <1>2, <2>1
<1>4. CASE e.count = d.count /\ Tallied(alerts, d, done, m)
  <2>1. d.count[h] \in Nat BY DEF Baseline
  <2> QED BY <1>1, <1>4, <2>1 DEF Tallied
<1> QED BY <1>3, <1>4

LEMMA TalliedWrites ==
    ASSUME NEW alerts, NEW m \in Nat \ {0}, NEW done \in SUBSET (1..(m - 1)),
           NEW d \in Baseline, Tallied(alerts, d, done, m - 1), NEW w, NEW e \in Baseline,
           Noted(d, alerts[m], w, e), alerts[m].hour \in Hours
    PROVE  /\ Tallied(alerts, e, done, m)
           /\ w = 6 => Tallied(alerts, e, done \cup {m}, m)
<1> DEFINE Low(of, h) == Cardinality(InHour(alerts, of, h))
<1>1. ASSUME NEW h \in Hours
      PROVE  /\ Low(done, h) \in Nat /\ Low(done, h) <= d.count[h]
             /\ d.count[h] \in Nat /\ e.count[h] \in Nat
             /\ Low(1..m, h) = IF alerts[m].hour = h THEN Low(1..(m - 1), h) + 1
                               ELSE Low(1..(m - 1), h)
             /\ Low(done \cup {m}, h) = IF alerts[m].hour = h THEN Low(done, h) + 1
                                        ELSE Low(done, h)
             /\ d.count[h] <= Low(1..(m - 1), h) /\ Low(1..(m - 1), h) \in Nat
  <2>1. m - 1 \in Nat /\ m \in 1..m /\ m \notin 1..(m - 1) /\ 1..m = (1..(m - 1)) \cup {m}
    OBVIOUS
  <2>2. 1..(m - 1) \in SUBSET (1..m) /\ done \in SUBSET (1..m) /\ m \notin done OBVIOUS
  <2>3. d.count[h] \in Nat /\ e.count[h] \in Nat BY DEF Baseline
  <2>4. Low(done, h) \in Nat /\ Low(1..(m - 1), h) \in Nat BY <2>2, HourFinite
  <2>5. ASSUME NEW of \in {done, 1..(m - 1)}
        PROVE  Low(of \cup {m}, h) = IF alerts[m].hour = h THEN Low(of, h) + 1 ELSE Low(of, h)
    <3>1. of \in SUBSET (1..m) /\ m \in (1..m) \ of BY <2>1, <2>2
    <3> QED BY <3>1, HourOfNext
  <2>6. Low(done, h) <= d.count[h] /\ d.count[h] <= Low(1..(m - 1), h) BY DEF Tallied
  <2>7. Low(1..m, h) = IF alerts[m].hour = h THEN Low(1..(m - 1), h) + 1
                       ELSE Low(1..(m - 1), h)
    <3>1. Low((1..(m - 1)) \cup {m}, h) = IF alerts[m].hour = h THEN Low(1..(m - 1), h) + 1
                                          ELSE Low(1..(m - 1), h)
      BY <2>5
    <3> HIDE DEF Low
    <3> QED BY <2>1, <3>1
  <2> HIDE DEF Low
  <2> QED BY <2>3, <2>4, <2>5, <2>6, <2>7
<1>2. \A h \in Hours :
         e.count[h] = d.count[h] \/ (h = alerts[m].hour /\ e.count[h] = d.count[h] + 1)
  BY DEF Noted
<1>3. w = 6 => e.count[alerts[m].hour] = d.count[alerts[m].hour] + 1 BY DEF Noted
<1> HIDE DEF Low
<1>4. ASSUME NEW h \in Hours PROVE Low(done, h) <= e.count[h] /\ e.count[h] <= Low(1..m, h)
  <2>1. /\ Low(done, h) \in Nat /\ Low(1..(m - 1), h) \in Nat /\ d.count[h] \in Nat
        /\ Low(done, h) <= d.count[h] /\ d.count[h] <= Low(1..(m - 1), h)
    BY <1>1
  <2>2. CASE alerts[m].hour = h
    <3>1. e.count[h] \in {d.count[h], d.count[h] + 1} BY <1>2
    <3>2. Low(1..m, h) = Low(1..(m - 1), h) + 1 BY <1>1, <2>2
    <3> QED BY <2>1, <3>1, <3>2
  <2>3. CASE alerts[m].hour # h
    <3>1. e.count[h] = d.count[h] BY <1>2, <2>3
    <3>2. Low(1..m, h) = Low(1..(m - 1), h) BY <1>1, <2>3
    <3> QED BY <2>1, <3>1, <3>2
  <2> QED BY <2>2, <2>3
<1>5. ASSUME w = 6, NEW h \in Hours PROVE Low(done \cup {m}, h) <= e.count[h]
  <2>1. CASE alerts[m].hour = h
    <3>1. e.count[h] = d.count[h] + 1 BY <1>3, <1>5, <2>1
    <3>2. Low(done \cup {m}, h) = Low(done, h) + 1 BY <1>1, <2>1
    <3>3. Low(done, h) \in Nat /\ Low(done, h) <= d.count[h] /\ d.count[h] \in Nat BY <1>1
    <3> QED BY <3>1, <3>2, <3>3
  <2>2. CASE alerts[m].hour # h
    <3>1. e.count[h] = d.count[h] BY <1>2, <2>2
    <3> QED BY <1>1, <2>2, <3>1
  <2> QED BY <2>1, <2>2
<1> QED BY <1>4, <1>5 DEF Low, Tallied

\* The tables d are what observing makes of the first m alerts when the whole
\* observation is there for those in done, and of the others at most a part.
Faithful(alerts, d, done, m) ==
    /\ d \in Baseline
    /\ done \subseteq 1..m
    /\ done # {} => d.first # 0
    /\ \A i \in done : alerts[i].sid \in d.sids
    /\ \A s \in d.sids : \E i \in 1..m : alerts[i].sid = s
    /\ \A s \in Sids : d.novel[s] <= 1 /\ (d.novel[s] = 1 => s \in d.sids)
    /\ \A h \in Hours : d.rate[h] <= 1
    /\ done = 1..m => d = Replays(alerts)[m]
    /\ Tallied(alerts, d, done, m)
    /\ \A i \in 1..m :
           FirstOfSid(alerts, i) /\ (\A j \in 1..m : alerts[j].sid = alerts[i].sid => j \in done)
           => (d.novel[alerts[i].sid] = 1 <=> alerts[i].hour >= d.first + MinAge)

\* A row that is stored or passed over, and not observed.
LEMMA FaithfulSkipping ==
    ASSUME NEW alerts \in Seq(AlertRow), NEW d, NEW done, NEW k \in Nat, NEW m \in Nat,
           k <= m, m <= Len(alerts), Faithful(alerts, d, done, k)
    PROVE  Faithful(alerts, d, done, m)
<1>1. done = 1..m => k = m
  <2>1. done \subseteq 1..k BY DEF Faithful
  <2>2. ASSUME done = 1..m, k # m PROVE FALSE
    <3>1. m \in 1..m /\ m \notin 1..k BY <2>2
    <3> QED BY <2>1, <2>2, <3>1
  <2> QED BY <2>2
<1>2. \A i \in 1..k : i \in 1..m OBVIOUS
<1>3. ASSUME NEW i \in 1..m, FirstOfSid(alerts, i),
             \A j \in 1..m : alerts[j].sid = alerts[i].sid => j \in done
      PROVE  d.novel[alerts[i].sid] = 1 <=> alerts[i].hour >= d.first + MinAge
  <2>1. i \in done BY <1>3
  <2>2. i \in 1..k BY <2>1 DEF Faithful
  <2> QED BY <1>2, <1>3, <2>2 DEF Faithful
<1>4. Tallied(alerts, d, done, m) BY TalliedSkipping DEF Faithful
<1> QED BY <1>1, <1>2, <1>3, <1>4 DEF Faithful

LEMMA FaithfulToMore ==
    ASSUME NEW alerts \in Seq(AlertRow), NEW r \in AlertRow, NEW d, NEW done,
           NEW m \in 0..Len(alerts), Faithful(alerts, d, done, m)
    PROVE  Faithful(Append(alerts, r), d, done, m)
<1> DEFINE more == Append(alerts, r)
<1>1. \A i \in 1..m : more[i] = alerts[i] OBVIOUS
<1>2. Replays(more)[m] = Replays(alerts)[m] BY ReplaysOfMore
<1> HIDE DEF more
<1>3. \A i \in 1..m : FirstOfSid(more, i) <=> FirstOfSid(alerts, i)
  BY <1>1 DEF FirstOfSid
<1>4. done \subseteq 1..m BY DEF Faithful
<1>5. Tallied(more, d, done, m) BY <1>1, <1>4, TalliedToMore DEF Faithful
<1>6. Faithful(more, d, done, m) BY <1>1, <1>2, <1>3, <1>4, <1>5, SMTT(60) DEF Faithful
<1> QED BY <1>6, ZenonT(60) DEF more

LEMMA FaithfulEmpty ==
    ASSUME NEW alerts \in Seq(AlertRow), NEW m \in Nat
    PROVE  Faithful(alerts, Empty, {}, m)
<1>1. {} = 1..m => m = 0 OBVIOUS
<1>2. Replays(alerts)[0] = Empty BY ReplaySteps
<1>3. /\ Empty.first = 0 /\ Empty.sids = {} /\ Empty.novel = [s \in Sids |-> 0]
      /\ Empty.rate = [h \in Hours |-> 0]
  BY DEF Empty
<1>4. \A i \in 1..m : alerts[i].sid = alerts[i].sid OBVIOUS
<1>5. Tallied(alerts, Empty, {}, m) BY EmptyFacts, TalliedEmpty
<1> QED BY <1>1, <1>2, <1>3, <1>4, <1>5, EmptyFacts DEF Faithful

\* Some of the writes of an observation, or all of them.
LEMMA FaithfulWrites ==
    ASSUME NEW alerts \in Seq(AlertRow), NEW m \in 1..Len(alerts), NEW d, NEW done,
           Faithful(alerts, d, done, m - 1), NEW w \in 1..6
    PROVE  /\ Faithful(alerts, Writes(d, alerts[m])[w], done, m)
           /\ w = 6 => Faithful(alerts, Writes(d, alerts[m])[w], done \cup {m}, m)
           /\ Writes(d, alerts[m])[w].first # 0
<1> DEFINE r == alerts[m]
           e == Writes(d, r)[w]
<1>1. r \in AlertRow /\ r.hour \in Hours /\ r.sid \in Sids
  <2>1. r \in AlertRow BY ElementOfSeq
  <2> QED BY <2>1 DEF AlertRow
<1>2. /\ d \in Baseline /\ d.first \in Nat /\ d.sids \subseteq Sids
      /\ \A s \in Sids : d.novel[s] \in Nat
      /\ \A h \in Hours : d.rate[h] \in Nat
  BY DEF Faithful, Baseline
<1>3. /\ e \in Baseline /\ Noted(d, r, w, e)
      /\ e.first = FirstSeen(d, r)
      /\ e.sids \in {d.sids, d.sids \cup {r.sid}}
      /\ w \in {5, 6} => e.sids = d.sids \cup {r.sid}
      /\ \A s \in Sids : e.novel[s] = IF w \in {5, 6} /\ s = r.sid /\ IsNovel(d, r)
                                      THEN d.novel[s] + 1 ELSE d.novel[s]
      /\ \A h \in Hours : e.rate[h] = d.rate[h] \/ (d.rate[h] = 0 /\ e.rate[h] = 1)
  <2>1. e \in Baseline /\ Noted(d, r, w, e)
    <3> HIDE DEF r
    <3> QED BY <1>1, <1>2, WritesFacts
  <2> HIDE DEF e, r
  <2> QED BY <2>1 DEF Noted
<1>4. w = 6 => e = Observed(d, r) BY DEF Observed
<1>5. m \in Nat /\ m - 1 \in Nat /\ Len(alerts) \in Nat OBVIOUS
<1> HIDE DEF r, e
<1>6. e.first # 0 /\ e.first \in Nat /\ (d.first # 0 => e.first = d.first)
  BY <1>1, <1>2, <1>3 DEF FirstSeen, Hours
<1>7. done \subseteq 1..(m - 1) /\ m \notin done /\ done # 1..m BY <1>5 DEF Faithful
<1>8. \A s \in e.sids : \E i \in 1..m : alerts[i].sid = s
  BY <1>3, <1>5 DEF Faithful, r
<1>9. \A s \in Sids : e.novel[s] <= 1 /\ (e.novel[s] = 1 => s \in e.sids)
  BY <1>2, <1>3 DEF Faithful, IsNovel
<1>10. \A h \in Hours : e.rate[h] <= 1 BY <1>2, <1>3 DEF Faithful
<1>11. /\ Tallied(alerts, e, done, m)
       /\ w = 6 => Tallied(alerts, e, done \cup {m}, m)
  <2>1. m \in Nat \ {0} /\ done \in SUBSET (1..(m - 1)) BY <1>7
  <2>2. Tallied(alerts, d, done, m - 1) BY DEF Faithful
  <2> QED BY <1>1, <1>2, <1>3, <2>1, <2>2, TalliedWrites DEF r
\* The alerts of a signature that are all done, beside this one.
<1>12. ASSUME NEW i \in 1..(m - 1), FirstOfSid(alerts, i),
              \A j \in 1..(m - 1) : alerts[j].sid = alerts[i].sid => j \in done
       PROVE  e.novel[alerts[i].sid] = 1 <=> alerts[i].hour >= e.first + MinAge
  <2>1. i \in done BY <1>12
  <2>2. /\ alerts[i].sid \in d.sids /\ d.first # 0
        /\ d.novel[alerts[i].sid] = 1 <=> alerts[i].hour >= d.first + MinAge
    BY <1>12, <2>1 DEF Faithful
  <2>3. e.novel[alerts[i].sid] = d.novel[alerts[i].sid]
    BY <1>2, <1>3, <2>2 DEF IsNovel
  <2> QED BY <1>6, <2>2, <2>3
<1>13. Faithful(alerts, e, done, m)
  <2>1. ASSUME NEW i \in 1..m, FirstOfSid(alerts, i),
               \A j \in 1..m : alerts[j].sid = alerts[i].sid => j \in done
        PROVE  e.novel[alerts[i].sid] = 1 <=> alerts[i].hour >= e.first + MinAge
    <3>1. i \in 1..(m - 1) BY <1>7, <2>1
    <3> QED BY <1>5, <1>12, <2>1, <3>1
  <2>2. \A i \in done : alerts[i].sid \in e.sids BY <1>3 DEF Faithful
  <2>3. done \subseteq 1..m BY <1>5, <1>7
  <2> QED BY <1>3, <1>6, <1>7, <1>8, <1>9, <1>10, <1>11, <2>1, <2>2, <2>3 DEF Faithful
<1>14. ASSUME w = 6 PROVE Faithful(alerts, e, done \cup {m}, m)
  <2>1. done \cup {m} = 1..m => e = Replays(alerts)[m]
    <3>1. ASSUME done \cup {m} = 1..m PROVE done = 1..(m - 1)
      <4>1. ASSUME NEW x \in 1..(m - 1) PROVE x \in done
        <5>1. x \in 1..m /\ x # m BY <1>5
        <5> QED BY <3>1, <5>1
      <4> QED BY <1>7, <4>1
    <3>2. ASSUME done = 1..(m - 1) PROVE d = Replays(alerts)[m - 1]
      BY <3>2 DEF Faithful
    <3>3. Replays(alerts)[m] = Observed(Replays(alerts)[m - 1], r)
      BY ReplaySteps, <1>5 DEF r
    <3> QED BY <1>4, <1>14, <3>1, <3>2, <3>3
  <2>2. ASSUME NEW i \in 1..m, FirstOfSid(alerts, i),
               \A j \in 1..m : alerts[j].sid = alerts[i].sid => j \in done \cup {m}
        PROVE  e.novel[alerts[i].sid] = 1 <=> alerts[i].hour >= e.first + MinAge
    <3>1. CASE i # m
      <4>1. i \in 1..(m - 1) BY <1>5, <3>1
      <4>2. \A j \in 1..(m - 1) : alerts[j].sid = alerts[i].sid => j \in done
        BY <1>5, <2>2
      <4> QED BY <1>12, <2>2, <4>1, <4>2
    <3>2. CASE i = m
      <4>1. r.sid \notin d.sids BY <2>2, <3>2 DEF FirstOfSid, Faithful, r
      <4>2. d.novel[r.sid] = 0 BY <1>1, <1>2, <4>1 DEF Faithful
      <4>3. e.novel[r.sid] = 1 <=> IsNovel(d, r) BY <1>1, <1>3, <1>14, <4>2
      <4>4. IsNovel(d, r) <=> r.hour >= e.first + MinAge
        BY <1>3, <4>1 DEF IsNovel, Aged
      <4> QED BY <3>2, <4>3, <4>4 DEF r
    <3> QED BY <3>1, <3>2
  <2>3. \A i \in done \cup {m} : alerts[i].sid \in e.sids
    BY <1>3, <1>14 DEF Faithful, r
  <2>4. done \cup {m} \subseteq 1..m BY <1>5, <1>7
  <2> QED BY <1>3, <1>6, <1>8, <1>9, <1>10, <1>14, <1>11, <2>1, <2>2, <2>3, <2>4 DEF Faithful
<1> QED BY <1>6, <1>13, <1>14 DEF e, r

\* The first j of the tables are dropped.
Dropped(d, j) ==
    /\ j >= 1 => d.novel = Empty.novel /\ d.rate = Empty.rate
    /\ j >= 2 => d.count = Empty.count
    /\ j >= 3 => d.sids = {}
    /\ j >= 4 => d.first = 0 /\ d.active = FALSE

\* The anomalies go before the signatures that they were reported for.
LEMMA FaithfulDropping ==
    ASSUME NEW alerts \in Seq(AlertRow), NEW d, NEW done, NEW j \in 1..4, NEW m \in Nat,
           Faithful(alerts, d, done, m), Dropped(d, j - 1)
    PROVE  /\ Faithful(alerts, Cleared(d, DropOrder[j]), {}, m)
           /\ Dropped(Cleared(d, DropOrder[j]), j)
           /\ j = 4 => Cleared(d, DropOrder[j]) = Empty
<1> DEFINE e == Cleared(d, DropOrder[j])
<1>1. d \in Baseline BY DEF Faithful
<1>2. e = CASE j = 1 -> [d EXCEPT !.novel = Empty.novel, !.rate = Empty.rate]
            [] j = 2 -> [d EXCEPT !.count = Empty.count]
            [] j = 3 -> [d EXCEPT !.sids = {}]
            [] j = 4 -> [d EXCEPT !.first = 0, !.active = FALSE]
  <2>1. /\ DropOrder[1] = "spc_anomalies" /\ DropOrder[2] = "spc_rate_buckets"
        /\ DropOrder[3] = "spc_seen_sids" /\ DropOrder[4] = "spc_ip_state"
    BY DEF DropOrder
  <2>2. j \in {1, 2, 3, 4} OBVIOUS
  <2> QED BY <2>1, <2>2 DEF Cleared
<1> HIDE DEF e
<1>3. e \in Baseline /\ Dropped(e, j)
  <2>1. /\ Empty.novel \in [Sids -> Nat] /\ Empty.rate \in [Hours -> Nat]
        /\ Empty.count \in [Hours -> Nat] /\ 0 \in 0..MaxHour
    BY EmptyFacts, SpcAssumption DEF Baseline
  <2> HIDE DEF Empty
  <2>2. CASE j = 1
    <3>1. e = [d EXCEPT !.novel = Empty.novel, !.rate = Empty.rate] BY <1>2, <2>2
    <3>2. e \in Baseline BY <1>1, <2>1, <3>1 DEF Baseline
    <3>3. Dropped(e, j) BY <1>1, <2>1, <2>2, <3>1 DEF Dropped, Baseline
    <3> QED BY <3>2, <3>3
  <2>3. CASE j = 2
    <3>1. e = [d EXCEPT !.count = Empty.count] BY <1>2, <2>3
    <3>2. e \in Baseline BY <1>1, <2>1, <3>1 DEF Baseline
    <3>3. Dropped(e, j) BY <1>1, <2>1, <2>3, <3>1 DEF Dropped, Baseline
    <3> QED BY <3>2, <3>3
  <2>4. CASE j = 3
    <3>1. e = [d EXCEPT !.sids = {}] BY <1>2, <2>4
    <3>2. e \in Baseline BY <1>1, <2>1, <3>1 DEF Baseline
    <3>3. Dropped(e, j) BY <1>1, <2>1, <2>4, <3>1 DEF Dropped, Baseline
    <3> QED BY <3>2, <3>3
  <2>5. CASE j = 4
    <3>1. e = [d EXCEPT !.first = 0, !.active = FALSE] BY <1>2, <2>5
    <3>2. e \in Baseline BY <1>1, <2>1, <3>1 DEF Baseline
    <3>3. Dropped(e, j) BY <1>1, <2>1, <2>5, <3>1 DEF Dropped, Baseline
    <3> QED BY <3>2, <3>3
  <2> QED BY <2>2, <2>3, <2>4, <2>5
<1>4. e.sids \subseteq d.sids
  BY <1>2, <1>1 DEF Baseline
<1>5. d = Empty => e = Empty
  <2>1. ASSUME d = Empty PROVE e = Empty
    <3>1. CASE j = 1 BY <1>2, <2>1, <3>1 DEF Empty
    <3>2. CASE j = 2 BY <1>2, <2>1, <3>2 DEF Empty
    <3>3. CASE j = 3 BY <1>2, <2>1, <3>3 DEF Empty
    <3>4. CASE j = 4 BY <1>2, <2>1, <3>4 DEF Empty
    <3> QED BY <3>1, <3>2, <3>3, <3>4
  <2> QED BY <2>1
<1>6. e.novel = [s \in Sids |-> 0] /\ e.rate = [h \in Hours |-> 0]
  BY <1>3 DEF Dropped, Empty
<1>7. {} = 1..m => e = Replays(alerts)[m]
  <2>1. {} = 1..m => m = 0 OBVIOUS
  <2>2. Replays(alerts)[0] = Empty BY ReplaySteps
  <2>3. {} = 1..m => d = Empty BY <2>1, <2>2 DEF Faithful
  <2> QED BY <1>5, <2>1, <2>2, <2>3
<1>8. Faithful(alerts, e, {}, m)
  <2>1. e.count \in {d.count, Empty.count}
    <3>1. j \in {1, 2, 3, 4} OBVIOUS
    <3> QED BY <1>1, <1>2, <3>1 DEF Baseline
  <2>2. Tallied(alerts, d, done, m) BY DEF Faithful
  <2>3. Tallied(alerts, e, {}, m) BY <1>1, <2>1, <2>2, TalliedEmpty
  <2> QED BY <1>3, <1>4, <1>6, <1>7, <2>3 DEF Faithful
<1>9. j = 4 => e = Empty
  BY <1>3 DEF Dropped, Empty, Baseline
<1> QED BY <1>3, <1>8, <1>9 DEF e

-----------------------------------------------------------------------------
(* The invariant of the tables.                                            *)

\* The tables as the process of the backfill sees them.
Working == IF bf.batch = {} THEN spc ELSE bf.work

BackfillRecord ==
    [pc : {"idle", "drop", "create", "count", "open", "replay"}, at : 1..4,
     from : Nat \ {0}, next : Nat \ {0}, until : Nat,
     work : Baseline \cup {NoData}, batch : SUBSET Nat, stale : BOOLEAN]

\* What each phase of the backfill finds in the tables.
BackfillPhases ==
    /\ bf \in BackfillRecord
    /\ bf.pc # "replay" => bf.batch = {} /\ bf.until = 0
    /\ bf.pc = "drop" => Dropped(spc, bf.at - 1)
    /\ bf.pc \in {"create", "count", "open"} => spc = Empty /\ seen = {}
    /\ bf.pc = "open" => bf.from <= Len(rows)
    /\ bf.pc = "replay" =>
           /\ bf.until <= Len(rows) /\ bf.next <= bf.until + 1
           /\ Faithful(rows, spc, seen, bf.next - 1)
           /\ Faithful(rows, Working, seen \cup bf.batch, bf.next - 1)

\* What ingest has committed, what its open transaction would commit, and that
\* nothing of the row it has just stored is in the tables yet.
IngestTables ==
    /\ Faithful(rows, spc, seen, Len(rows))
    /\ pending # NoData => Faithful(rows, pending, seen, Len(rows))
    /\ service.pc = "triaged" =>
           /\ rows # <<>> /\ pending = NoData
           /\ Faithful(rows, spc, seen, Len(rows) - 1)

LockOwners ==
    /\ mig # NotMigrating <=> writer = "migrate"
    /\ pending # NoData <=> writer = "ingest"
    /\ bf.batch # {} <=> writer = "backfill"

Releases ==
    /\ release \in {"old", "new"}
    /\ Running => release = "new"

HistoryInv ==
    /\ original \in OldForms
    /\ rows \in Seq(AlertRow)
    /\ BackfillPhases
    /\ IngestTables
    /\ LockOwners
    /\ Releases

LEMMA HistoryInit == Init => HistoryInv
<1> SUFFICES ASSUME Init PROVE HistoryInv OBVIOUS
<1>1. /\ rows = <<>> /\ spc = Empty /\ pending = NoData /\ bf = NoBackfill /\ seen = {}
      /\ release = "old" /\ original \in OldForms /\ writer = "none"
      /\ mig = NotMigrating /\ service.pc = "down"
  BY DEF Init, StartInit
<1>2. rows \in Seq(AlertRow) /\ Len(rows) = 0 BY <1>1
<1>3. BackfillPhases
  <2>1. NoBackfill \in BackfillRecord BY DEF BackfillRecord, NoBackfill
  <2>2. NoBackfill.pc = "idle" /\ NoBackfill.batch = {} /\ NoBackfill.until = 0
    BY DEF NoBackfill
  <2> QED BY <1>1, <2>1, <2>2 DEF BackfillPhases
<1>4. IngestTables
  <2>1. rows \in Seq(AlertRow) /\ Len(rows) \in Nat BY <1>2
  <2>2. Faithful(rows, Empty, {}, Len(rows)) BY <2>1, FaithfulEmpty
  <2> QED BY <1>1, <2>2 DEF IngestTables
<1>5. LockOwners BY <1>1 DEF LockOwners, NoBackfill
<1> QED BY <1>1, <1>2, <1>3, <1>4, <1>5 DEF HistoryInv, Releases, Running, Verifying

LEMMA OvertakenRecord ==
    ASSUME bf \in BackfillRecord
    PROVE  /\ Overtaken \in BackfillRecord
           /\ Overtaken.pc = bf.pc /\ Overtaken.at = bf.at /\ Overtaken.from = bf.from
           /\ Overtaken.next = bf.next /\ Overtaken.until = bf.until
           /\ Overtaken.work = bf.work /\ Overtaken.batch = bf.batch
<1> DEFINE x == bf.stale \/ bf.pc = "replay"
<1>1. Overtaken = [bf EXCEPT !.stale = x] BY DEF Overtaken
<1>2. x \in BOOLEAN BY DEF BackfillRecord
<1> HIDE DEF x
<1> QED BY <1>1, <1>2 DEF BackfillRecord

\* The cursor that is left with an old snapshot changes no phase.
LEMMA PhasesKept ==
    ASSUME BackfillPhases, bf' \in {bf, Overtaken}, UNCHANGED <<rows, spc, seen>>
    PROVE  BackfillPhases' /\ bf'.batch = bf.batch /\ bf'.pc = bf.pc
<1>1. /\ bf' \in BackfillRecord
      /\ bf'.pc = bf.pc /\ bf'.at = bf.at /\ bf'.from = bf.from /\ bf'.next = bf.next
      /\ bf'.until = bf.until /\ bf'.work = bf.work /\ bf'.batch = bf.batch
  BY OvertakenRecord DEF BackfillPhases
<1>2. Working' = Working BY <1>1 DEF Working
<1>3. BackfillRecord' = BackfillRecord BY DEF BackfillRecord
<1> QED BY <1>1, <1>2, <1>3 DEF BackfillPhases

\* Steps that leave the tables and what is observed of the rows alone.
LEMMA HistoryUntouched ==
    ASSUME HistoryInv, UNCHANGED <<original, rows, spc, seen>>,
           bf' \in {bf, Overtaken},
           pending' = pending \/ pending' = NoData,
           service'.pc = "triaged" => service.pc = "triaged",
           LockOwners', Releases'
    PROVE  HistoryInv'
<1>1. BackfillPhases' BY PhasesKept DEF HistoryInv
<1>2. IngestTables' BY DEF HistoryInv, IngestTables
<1> QED BY <1>1, <1>2 DEF HistoryInv

LEMMA HistoryMigrate ==
    ASSUME HistoryInv, SchemaInv, Migrate
    PROVE  HistoryInv'
<1>1. /\ UNCHANGED <<original, service, rows, spc, seen, pending, release>>
      /\ bf' \in {bf, Overtaken}
  BY DEF Migrate, BeginMigration, RunStatement, MigrationFails, CommitMigration, spcVars
<1>2. mig' # NotMigrating <=> writer' = "migrate"
  <2>1. CASE BeginMigration BY <2>1 DEF BeginMigration, NotMigrating
  <2>2. CASE RunStatement
    <3>1. mig.at \in 1..4 /\ mig # NotMigrating /\ mig'.at = mig.at + 1 /\ writer' = writer
      BY <2>2 DEF RunStatement, Migrating, Statements, NotMigrating
    <3> QED BY <3>1 DEF HistoryInv, LockOwners, NotMigrating
  <2>3. CASE MigrationFails \/ CommitMigration
    BY <2>3 DEF MigrationFails, CommitMigration
  <2> QED BY <2>1, <2>2, <2>3 DEF Migrate
<1>3. writer' # writer => {writer, writer'} \subseteq {"none", "migrate"}
  <2>1. CASE BeginMigration BY <2>1 DEF BeginMigration
  <2>2. CASE RunStatement BY <2>2 DEF RunStatement
  <2>3. CASE MigrationFails BY <2>3 DEF MigrationFails, HistoryInv, LockOwners
  <2>4. CASE CommitMigration
    <3>1. mig # NotMigrating BY <2>4 DEF CommitMigration, NotMigrating, Statements
    <3> QED BY <2>4, <3>1 DEF CommitMigration, HistoryInv, LockOwners
  <2> QED BY <2>1, <2>2, <2>3, <2>4 DEF Migrate
<1>4. bf'.batch = bf.batch BY <1>1, PhasesKept DEF HistoryInv
<1>5. LockOwners' BY <1>1, <1>2, <1>3, <1>4 DEF HistoryInv, LockOwners
<1>6. Releases' BY <1>1 DEF HistoryInv, Releases, Running, Verifying
<1> QED BY <1>1, <1>5, <1>6, HistoryUntouched

LEMMA HistoryGate ==
    ASSUME HistoryInv, SchemaInv, Gate
    PROVE  HistoryInv'
<1>1. /\ UNCHANGED <<original, writer, mig, rows, spc, seen, pending, bf>>
      /\ service'.pc \in {"indexes", "columns", "up", "down"}
      /\ release' = IF service'.pc = "up" THEN "new" ELSE release
  BY DEF Gate, ReadTables, ReadIndexes, ReadColumns
<1>2. LockOwners' BY <1>1 DEF HistoryInv, LockOwners
<1>3. Releases' BY <1>1 DEF HistoryInv, Releases, Running, Verifying
<1> QED BY <1>1, <1>2, <1>3, HistoryUntouched

\* One more row, of which nothing is in the tables.
LEMMA HistoryStored ==
    ASSUME HistoryInv, NEW r \in AlertRow, rows' = Append(rows, r),
           bf' \in {bf, Overtaken}, UNCHANGED <<spc, seen>>
    PROVE  /\ rows' \in Seq(AlertRow) /\ Len(rows') = Len(rows) + 1
           /\ BackfillPhases'
           /\ Faithful(rows', spc, seen, Len(rows'))
<1>1. rows \in Seq(AlertRow) /\ Len(rows) \in Nat BY DEF HistoryInv
<1>2. rows' \in Seq(AlertRow) /\ Len(rows') = Len(rows) + 1 BY <1>1
<1>3. \A d, done : \A m \in 0..Len(rows) : Faithful(rows, d, done, m) => Faithful(rows', d, done, m)
  BY <1>1, FaithfulToMore
<1>4. Faithful(rows', spc, seen, Len(rows'))
  <2>1. Faithful(rows', spc, seen, Len(rows))
    BY <1>1, <1>3 DEF HistoryInv, IngestTables
  <2>2. Len(rows') \in Nat /\ Len(rows) <= Len(rows') /\ Len(rows') <= Len(rows') BY <1>1, <1>2
  <2> QED BY <1>1, <1>2, <2>1, <2>2, FaithfulSkipping
<1>5. BackfillPhases'
  <2>1. /\ bf' \in BackfillRecord
        /\ bf'.pc = bf.pc /\ bf'.at = bf.at /\ bf'.from = bf.from /\ bf'.next = bf.next
        /\ bf'.until = bf.until /\ bf'.work = bf.work /\ bf'.batch = bf.batch
    BY OvertakenRecord DEF HistoryInv, BackfillPhases
  <2>2. Working' = Working BY <2>1 DEF Working
  <2>3. BackfillRecord' = BackfillRecord BY DEF BackfillRecord
  <2>4. ASSUME bf.pc = "replay"
        PROVE  /\ bf'.until <= Len(rows') /\ bf'.next <= bf'.until + 1
               /\ Faithful(rows', spc', seen', bf'.next - 1)
               /\ Faithful(rows', Working', (seen \cup bf.batch)', bf'.next - 1)
    <3>1. /\ bf.until <= Len(rows) /\ bf.next <= bf.until + 1
          /\ Faithful(rows, spc, seen, bf.next - 1)
          /\ Faithful(rows, Working, seen \cup bf.batch, bf.next - 1)
          /\ bf.next \in Nat \ {0} /\ bf.until \in Nat
      BY <2>4 DEF HistoryInv, BackfillPhases, BackfillRecord
    <3>2. bf.next - 1 \in 0..Len(rows) BY <1>1, <3>1
    <3> QED BY <1>1, <1>2, <1>3, <2>1, <2>2, <3>1, <3>2
  <2>5. bf.pc = "open" => bf'.from <= Len(rows')
    BY <1>1, <1>2, <2>1 DEF HistoryInv, BackfillPhases, BackfillRecord
  <2> QED BY <2>1, <2>3, <2>4, <2>5 DEF HistoryInv, BackfillPhases
<1> QED BY <1>2, <1>4, <1>5

LEMMA HistoryIngest ==
    ASSUME HistoryInv, SchemaInv, Ingest
    PROVE  HistoryInv'
<1>1. /\ rows \in Seq(AlertRow) /\ Len(rows) \in Nat BY DEF HistoryInv
<1>2. ASSUME Running PROVE bf.pc = "idle" /\ bf.batch = {}
  BY <1>2 DEF Running, Verifying, SchemaInv, BackfillAlone, HistoryInv, BackfillPhases
<1>3. ASSUME NEW r \in AlertRow, OldInsert(r) PROVE HistoryInv'
  <2>1. /\ rows' = Append(rows, r) /\ bf' = Overtaken /\ writer = "none" /\ release = "old"
        /\ UNCHANGED <<original, writer, mig, service, spc, pending, seen, release>>
    BY <1>3 DEF OldInsert, startVars
  <2>2. ~Running /\ service.pc # "triaged" /\ pending = NoData
    BY <2>1 DEF HistoryInv, Releases, LockOwners, Running, Verifying
  <2>3. /\ rows' \in Seq(AlertRow) /\ BackfillPhases' /\ Faithful(rows', spc, seen, Len(rows'))
    BY <2>1, HistoryStored
  <2>4. IngestTables' BY <2>1, <2>2, <2>3 DEF IngestTables
  <2>5. LockOwners'
    BY <2>1, OvertakenRecord DEF HistoryInv, BackfillPhases, LockOwners
  <2> QED BY <2>1, <2>2, <2>3, <2>4, <2>5 DEF HistoryInv, Releases, Running, Verifying
<1>4. ASSUME NEW r \in AlertRow, Triage(r) PROVE HistoryInv'
  <2>1. /\ rows' = Append(rows, r) /\ spc' = IF pending = NoData THEN spc ELSE pending
        /\ pending' = NoData /\ writer \in {"none", "ingest"} /\ writer' = "none"
        /\ service.pc = "up" /\ service' = [service EXCEPT !.pc = "triaged"]
        /\ UNCHANGED <<original, mig, bf, seen, release>>
    BY <1>4 DEF Triage
  <2>2. Running /\ bf.pc = "idle" /\ bf.batch = {} BY <1>2, <2>1 DEF Running, Verifying
  <2>3. service'.pc = "triaged" BY <2>1 DEF SchemaInv, GateRead
  <2>4. Faithful(rows, spc', seen, Len(rows)) BY <2>1 DEF HistoryInv, IngestTables
  <2>5. /\ rows' \in Seq(AlertRow) /\ Len(rows') = Len(rows) + 1 /\ rows' # <<>>
        /\ Faithful(rows', spc', seen, Len(rows)) /\ Faithful(rows', spc', seen, Len(rows'))
    <3>1. rows' \in Seq(AlertRow) /\ Len(rows') = Len(rows) + 1 /\ rows' # <<>> BY <1>1, <2>1
    <3>2. Faithful(rows', spc', seen, Len(rows)) BY <1>1, <2>1, <2>4, FaithfulToMore
    <3> QED BY <1>1, <3>1, <3>2, FaithfulSkipping
  <2>6. IngestTables'
    <3>1. Len(rows') - 1 = Len(rows) BY <1>1, <2>5
    <3> QED BY <2>1, <2>5, <3>1 DEF IngestTables
  <2>7. BackfillPhases'
    <3>1. bf' \in BackfillRecord /\ bf'.pc = "idle" /\ bf'.batch = {} /\ bf'.until = 0
      BY <2>1, <2>2 DEF HistoryInv, BackfillPhases
    <3> QED BY <3>1 DEF BackfillPhases, BackfillRecord
  <2>8. LockOwners' BY <2>1, <2>2 DEF HistoryInv, LockOwners
  <2>9. Releases' BY <2>1, <2>2 DEF HistoryInv, Releases
  <2> QED BY <2>1, <2>5, <2>6, <2>7, <2>8, <2>9 DEF HistoryInv
<1>5. CASE DiscardPending
  <2>1. /\ UNCHANGED <<original, mig, service, rows, spc, bf, seen, release>>
        /\ pending # NoData /\ pending' = NoData /\ writer' = "none"
    BY <1>5 DEF DiscardPending
  <2>2. LockOwners' BY <2>1 DEF HistoryInv, LockOwners
  <2> QED BY <2>1, <2>2, HistoryUntouched DEF HistoryInv, Releases, Running, Verifying
<1>6. ASSUME service.pc = "triaged"
      PROVE  /\ Len(rows) \in 1..Len(rows) /\ rows[Len(rows)] \in AlertRow /\ pending = NoData
             /\ \A w \in 1..6 :
                   LET e == Writes(spc, rows[Len(rows)])[w]
                   IN /\ Faithful(rows, e, seen, Len(rows)) /\ e \in Baseline
                      /\ w = 6 => Faithful(rows, e, seen \cup {Len(rows)}, Len(rows))
  <2>1. rows # <<>> /\ pending = NoData /\ Faithful(rows, spc, seen, Len(rows) - 1)
    BY <1>6 DEF HistoryInv, IngestTables
  <2>2. Len(rows) \in 1..Len(rows) BY <1>1, <2>1
  <2>3. rows[Len(rows)] \in AlertRow BY <1>1, <2>2, ElementOfSeq
  <2>4. ASSUME NEW w \in 1..6
        PROVE  LET e == Writes(spc, rows[Len(rows)])[w]
               IN /\ Faithful(rows, e, seen, Len(rows))
                  /\ w = 6 => Faithful(rows, e, seen \cup {Len(rows)}, Len(rows))
    BY <1>1, <2>1, <2>2, FaithfulWrites
  <2>5. \A e : Faithful(rows, e, seen, Len(rows)) => e \in Baseline BY DEF Faithful
  <2> QED BY <2>1, <2>2, <2>3, <2>4, <2>5
<1>7. CASE Observe
  <2>1. /\ service.pc = "triaged" /\ writer = "none" /\ service' = [service EXCEPT !.pc = "up"]
        /\ spc' = Writes(spc, rows[Len(rows)])[6] /\ seen' = seen \cup {Len(rows)}
        /\ UNCHANGED <<original, writer, mig, rows, pending, bf, release>>
    BY <1>7 DEF Observe, Observed
  <2>2. Running /\ bf.pc = "idle" /\ bf.batch = {} BY <1>2, <2>1 DEF Running, Verifying
  <2>3. service'.pc = "up" BY <2>1 DEF SchemaInv, GateRead
  <2>4. Faithful(rows, spc', seen', Len(rows)) /\ pending = NoData BY <1>6, <2>1
  <2>5. IngestTables' BY <2>1, <2>3, <2>4 DEF IngestTables
  <2>6. BackfillPhases'
    <3>1. bf' \in BackfillRecord /\ bf'.pc = "idle" /\ bf'.batch = {} /\ bf'.until = 0
      BY <2>1, <2>2 DEF HistoryInv, BackfillPhases
    <3> QED BY <3>1 DEF BackfillPhases, BackfillRecord
  <2>7. LockOwners' BY <2>1 DEF HistoryInv, LockOwners
  <2>8. Releases' BY <2>1, <2>2 DEF HistoryInv, Releases
  <2> QED BY <2>1, <2>5, <2>6, <2>7, <2>8 DEF HistoryInv
<1>8. ASSUME NEW w \in 0..6, ObserveFails(w) PROVE HistoryInv'
  <2>1. /\ service.pc = "triaged" /\ service' = [service EXCEPT !.pc = "up"]
        /\ UNCHANGED <<original, mig, rows, spc, bf, seen, release>>
    BY <1>8 DEF ObserveFails
  <2>2. service'.pc = "up" /\ Running BY <2>1 DEF SchemaInv, GateRead, Running, Verifying
  <2>3. Releases' BY <2>1, <2>2 DEF HistoryInv, Releases
  <2>4. CASE w = 0
    <3>1. UNCHANGED <<pending, writer>> BY <1>8, <2>4 DEF ObserveFails
    <3>2. LockOwners' BY <2>1, <3>1 DEF HistoryInv, LockOwners
    <3> QED BY <2>1, <2>2, <2>3, <3>1, <3>2, HistoryUntouched
  <2>5. CASE w > 0
    <3>1. /\ writer = "none" /\ writer' = "ingest"
          /\ pending' = Writes(spc, rows[Len(rows)])[w]
      BY <1>8, <2>5 DEF ObserveFails
    <3>2. w \in 1..6 BY <2>5
    <3>3. Faithful(rows, pending', seen, Len(rows)) /\ pending' # NoData
      BY <1>6, <2>1, <3>1, <3>2, NoDataAssumption
    <3>4. IngestTables'
      <4>1. Faithful(rows, spc, seen, Len(rows)) BY DEF HistoryInv, IngestTables
      <4> QED BY <2>1, <2>2, <3>3, <4>1 DEF IngestTables
    <3>5. LockOwners' BY <2>1, <3>1, <3>3 DEF HistoryInv, LockOwners
    <3>6. BackfillPhases' BY <2>1, PhasesKept DEF HistoryInv
    <3> QED BY <2>1, <2>3, <3>4, <3>5, <3>6 DEF HistoryInv
  <2> QED BY <2>4, <2>5
<1>9. CASE Crash
  <2>1. /\ service' = [pc |-> "down", seen |-> {}] /\ pending' = NoData
        /\ writer' = IF writer = "ingest" THEN "none" ELSE writer
        /\ UNCHANGED <<original, mig, rows, spc, bf, seen, release>>
    BY <1>9 DEF Crash, Stop
  <2>2. LockOwners' BY <2>1 DEF HistoryInv, LockOwners
  <2>3. Releases' BY <2>1 DEF HistoryInv, Releases, Running, Verifying
  <2> QED BY <2>1, <2>2, <2>3, HistoryUntouched
<1> QED BY <1>3, <1>4, <1>5, <1>7, <1>8, <1>9 DEF Ingest

\* The window of the backfill begins at a row.
LEMMA WindowStart ==
    ASSUME NEW n \in Nat \ {0}
    PROVE  Max({1, n - Window + 1}) \in 1..n
<1> DEFINE x == n - Window + 1
           top == IF x >= 1 THEN x ELSE 1
<1>1. x \in Int /\ x <= n BY SpcAssumption
<1> HIDE DEF x
<1>2. top \in {1, x} /\ \A y \in {1, x} : top >= y BY <1>1
<1>3. Max({1, x}) \in {1, x} /\ \A y \in {1, x} : Max({1, x}) >= y BY <1>2 DEF Max
<1> QED BY <1>1, <1>3 DEF x

\* A step of the backfill itself, which runs while no ingest does.
LEMMA HistoryBackfill ==
    ASSUME HistoryInv, SchemaInv, Backfill
    PROVE  HistoryInv'
<1>1. /\ rows \in Seq(AlertRow) /\ Len(rows) \in Nat /\ bf \in BackfillRecord
      /\ BackfillPhases /\ IngestTables /\ LockOwners /\ Releases
      /\ Faithful(rows, spc, seen, Len(rows))
  BY DEF HistoryInv, BackfillPhases, IngestTables
<1>2. bf.pc # "idle" => service.pc # "triaged"
  BY DEF SchemaInv, BackfillAlone
<1>3. NoBackfill \in BackfillRecord /\ NoBackfill.pc = "idle" /\ NoBackfill.batch = {}
      /\ NoBackfill.until = 0 /\ NoBackfill.work = NoData /\ NoBackfill.at = 1
  BY DEF BackfillRecord, NoBackfill
\* Steps before the replay: the tables may change while nothing is pending.
<1>4. ASSUME UNCHANGED <<original, rows, mig, service, release, pending, writer>>,
             service.pc # "triaged", bf.batch = {}, bf'.batch = {},
             BackfillPhases', Faithful(rows, spc', seen', Len(rows)),
             pending # NoData => seen' = seen
      PROVE  HistoryInv'
  <2>1. IngestTables' BY <1>1, <1>4 DEF IngestTables
  <2>2. LockOwners' /\ Releases' BY <1>1, <1>4 DEF LockOwners, Releases, Running, Verifying
  <2> QED BY <1>1, <1>4, <2>1, <2>2 DEF HistoryInv
<1>5. ASSUME NEW reset \in BOOLEAN, StartBackfill(reset) PROVE HistoryInv'
  <2>1. /\ bf = NoBackfill /\ service.pc = "down" /\ (reset \/ spc = Empty)
        /\ bf' = [bf EXCEPT !.pc = IF reset THEN "drop" ELSE "create"]
        /\ UNCHANGED <<original, rows, mig, service, release, pending, writer, spc, seen>>
    BY <1>5 DEF StartBackfill, startVars
  <2>2. /\ bf' \in BackfillRecord /\ bf'.pc = (IF reset THEN "drop" ELSE "create")
        /\ bf'.batch = {} /\ bf'.until = 0 /\ bf'.at = 1
    BY <1>1, <1>3, <2>1 DEF BackfillRecord
  <2>3. spc = Empty => seen = {} BY <1>1 DEF Faithful, Empty
  <2>4. BackfillPhases' BY <2>1, <2>2, <2>3 DEF BackfillPhases, BackfillRecord, Dropped
  <2> QED BY <1>1, <1>3, <1>4, <2>1, <2>2, <2>4
<1>6. CASE DropTable
  <2>1. /\ bf.pc = "drop" /\ writer = "none" /\ seen' = {}
        /\ spc' = Cleared(spc, DropOrder[bf.at])
        /\ bf' = IF bf.at < 4 THEN [bf EXCEPT !.at = @ + 1]
                 ELSE [bf EXCEPT !.pc = "create", !.at = 1]
        /\ UNCHANGED <<original, writer, mig, service, rows, pending, release>>
    BY <1>6 DEF DropTable, DropOrder
  <2>2. /\ bf.at \in 1..4 /\ Dropped(spc, bf.at - 1) /\ bf.batch = {} /\ bf.until = 0
    BY <1>1, <2>1 DEF BackfillPhases, BackfillRecord
  <2>3. /\ Faithful(rows, spc', {}, Len(rows)) /\ Dropped(spc', bf.at)
        /\ bf.at = 4 => spc' = Empty
    BY <1>1, <2>1, <2>2, FaithfulDropping
  <2>4. BackfillPhases'
    <3>1. CASE bf.at < 4
      <4>1. /\ bf' \in BackfillRecord /\ bf'.pc = "drop" /\ bf'.at - 1 = bf.at
            /\ bf'.batch = {} /\ bf'.until = 0
        BY <1>1, <2>1, <2>2, <3>1 DEF BackfillRecord
      <4> QED BY <2>3, <4>1 DEF BackfillPhases, BackfillRecord
    <3>2. CASE bf.at = 4
      <4>1. bf' = [bf EXCEPT !.pc = "create", !.at = 1] BY <2>1, <3>2
      <4> DEFINE b == [bf EXCEPT !.pc = "create"]
      <4>2. b \in BackfillRecord /\ bf' = [b EXCEPT !.at = 1]
        BY <1>1, <4>1 DEF BackfillRecord
      <4> HIDE DEF b
      <4>3. bf' \in BackfillRecord BY <4>2 DEF BackfillRecord
      <4>4. bf'.pc = "create" /\ bf'.batch = {} /\ bf'.until = 0
        BY <1>1, <2>2, <4>1 DEF BackfillRecord
      <4> QED BY <2>1, <2>3, <3>2, <4>3, <4>4 DEF BackfillPhases, BackfillRecord
    <3> QED BY <2>2, <3>1, <3>2
  <2>5. bf'.batch = {} BY <1>1, <2>1, <2>2 DEF BackfillRecord
  <2>6. pending = NoData BY <1>1, <2>1 DEF LockOwners
  <2> QED BY <1>2, <1>4, <2>1, <2>2, <2>3, <2>4, <2>5, <2>6
\* Between the dropping and the replay the tables are empty.
<1>7. ASSUME bf.pc \in {"create", "count", "open"},
             UNCHANGED <<original, rows, mig, service, release, pending, writer, spc, seen>>,
             bf' \in BackfillRecord, bf'.batch = {}, bf'.until = 0,
             bf'.pc \in {"create", "count", "open", "idle"},
             bf'.pc = "open" => bf'.from <= Len(rows)
      PROVE  HistoryInv'
  <2>1. spc = Empty /\ seen = {} /\ bf.batch = {} BY <1>1, <1>7 DEF BackfillPhases
  <2>2. BackfillPhases' BY <1>7, <2>1 DEF BackfillPhases, BackfillRecord
  <2> QED BY <1>1, <1>2, <1>4, <1>7, <2>1, <2>2
<1>8. CASE CreateTable
  <2>1. /\ bf.pc = "create"
        /\ bf' = IF bf.at < 4 THEN [bf EXCEPT !.at = @ + 1] ELSE [bf EXCEPT !.pc = "count"]
        /\ UNCHANGED <<original, writer, mig, service, rows, spc, pending, seen, release>>
    BY <1>8 DEF CreateTable, CreateOrder
  <2>2. bf.batch = {} /\ bf.until = 0 BY <1>1, <2>1 DEF BackfillPhases
  <2>3. /\ bf' \in BackfillRecord /\ bf'.batch = {} /\ bf'.until = 0
        /\ bf'.pc \in {"create", "count"}
    <3>1. CASE bf.at < 4
      <4>1. bf' = [bf EXCEPT !.at = @ + 1] BY <2>1, <3>1
      <4> QED BY <1>1, <2>1, <2>2, <3>1, <4>1 DEF BackfillRecord
    <3>2. CASE ~(bf.at < 4)
      <4>1. bf' = [bf EXCEPT !.pc = "count"] BY <2>1, <3>2
      <4> QED BY <1>1, <2>2, <4>1 DEF BackfillRecord
    <3> QED BY <3>1, <3>2
  <2> QED BY <1>7, <2>1, <2>3
<1>9. CASE CountRows
  <2>1. /\ bf.pc = "count"
        /\ bf' = IF rows = <<>> THEN NoBackfill
                 ELSE [bf EXCEPT !.pc = "open", !.from = Max({1, Len(rows) - Window + 1})]
        /\ UNCHANGED <<original, writer, mig, service, rows, spc, pending, seen, release>>
    BY <1>9 DEF CountRows, startVars
  <2>2. bf.batch = {} /\ bf.until = 0 BY <1>1, <2>1 DEF BackfillPhases
  <2>3. CASE rows = <<>> BY <1>3, <1>7, <2>1, <2>3
  <2>4. CASE rows # <<>>
    <3> DEFINE from == Max({1, Len(rows) - Window + 1})
    <3>1. Len(rows) \in Nat \ {0} BY <1>1, <2>4
    <3>2. from \in 1..Len(rows) BY <3>1, WindowStart
    <3>3. bf' = [bf EXCEPT !.pc = "open", !.from = from] BY <2>1, <2>4
    <3> HIDE DEF from
    <3>4. from \in Nat \ {0} /\ from <= Len(rows) BY <3>1, <3>2
    <3>5. /\ bf' \in BackfillRecord /\ bf'.batch = {} /\ bf'.until = 0
          /\ bf'.pc = "open" /\ bf'.from = from
      BY <1>1, <2>2, <3>3, <3>4 DEF BackfillRecord
    <3> QED BY <1>7, <2>1, <3>4, <3>5
  <2> QED BY <2>3, <2>4
<1>10. CASE OpenCursor
  <2>1. /\ bf.pc = "open"
        /\ bf' = [bf EXCEPT !.pc = "replay", !.next = bf.from, !.until = Len(rows)]
        /\ UNCHANGED <<original, writer, mig, service, rows, spc, pending, seen, release>>
    BY <1>10 DEF OpenCursor, startVars
  <2>2. spc = Empty /\ seen = {} /\ bf.batch = {} /\ bf.from \in Nat \ {0} /\ bf.from <= Len(rows)
    BY <1>1, <2>1 DEF BackfillPhases, BackfillRecord
  <2>3. /\ bf' \in BackfillRecord /\ bf'.pc = "replay" /\ bf'.next = bf.from
        /\ bf'.until = Len(rows) /\ bf'.batch = {}
    BY <1>1, <2>1, <2>2 DEF BackfillRecord
  <2>4. Faithful(rows, Empty, {}, bf.from - 1) BY <1>1, <2>2, FaithfulEmpty
  <2>5. BackfillPhases'
    <3>1. Working' = Empty /\ seen' \cup bf'.batch = {} BY <2>1, <2>2, <2>3 DEF Working
    <3>2. bf'.until <= Len(rows') /\ bf'.next <= bf'.until + 1 BY <1>1, <2>1, <2>2, <2>3
    <3> QED BY <2>1, <2>2, <2>3, <2>4, <3>1, <3>2 DEF BackfillPhases, BackfillRecord
  <2> QED BY <1>1, <1>2, <1>4, <2>1, <2>2, <2>3, <2>5
\* The replay: what it finds, and what its steps have to leave.
<1>11. ASSUME bf.pc = "replay"
       PROVE  /\ bf.next \in Nat \ {0} /\ bf.until \in Nat /\ bf.until <= Len(rows)
              /\ bf.next <= bf.until + 1 /\ bf.batch \subseteq Nat
              /\ Faithful(rows, spc, seen, bf.next - 1)
              /\ Faithful(rows, Working, seen \cup bf.batch, bf.next - 1)
              /\ service.pc # "triaged"
  BY <1>1, <1>2, <1>11 DEF BackfillPhases, BackfillRecord
<1>12. ASSUME UNCHANGED <<original, rows, mig, service, release, pending>>,
              bf.pc = "replay", LockOwners', BackfillPhases',
              Faithful(rows, spc', seen', Len(rows)), pending # NoData => seen' = seen
       PROVE  HistoryInv'
  <2>1. IngestTables' BY <1>1, <1>11, <1>12 DEF IngestTables
  <2>2. Releases' BY <1>1, <1>12 DEF Releases, Running, Verifying
  <2> QED BY <1>1, <1>12, <2>1, <2>2 DEF HistoryInv
<1>13. CASE ReplayRow
  <2> DEFINE e == Observed(Working, rows[bf.next])
             batch == bf.batch \cup {bf.next}
  <2>1. /\ bf.pc = "replay" /\ bf.next <= bf.until
        /\ bf.batch = {} => writer = "none"
        /\ bf' = [bf EXCEPT !.next = @ + 1, !.batch = batch, !.work = e]
        /\ writer' = "backfill"
        /\ UNCHANGED <<original, mig, service, rows, spc, pending, seen, release>>
    BY <1>1, <1>13 DEF ReplayRow, Unread, Working, BackfillRecord
  <2>2. bf.next \in 1..Len(rows) BY <1>1, <1>11, <2>1
  <2>3. Faithful(rows, e, (seen \cup bf.batch) \cup {bf.next}, bf.next)
    <3>1. 6 \in 1..6 OBVIOUS
    <3> QED BY <1>1, <1>11, <2>1, <2>2, <3>1, FaithfulWrites DEF Observed
  <2>4. Faithful(rows, spc, seen, bf.next) BY <1>1, <1>11, <2>1, <2>2, FaithfulSkipping
  <2>5. e \in Baseline BY <2>3 DEF Faithful
  <2>6. batch \in SUBSET Nat /\ batch # {} /\ bf.next + 1 \in Nat \ {0} BY <1>11, <2>1
  <2> HIDE DEF e, batch
  <2>7. /\ bf' \in BackfillRecord /\ bf'.pc = "replay" /\ bf'.next = bf.next + 1
        /\ bf'.until = bf.until /\ bf'.batch = batch /\ bf'.work = e
    BY <1>1, <2>6, <2>1, <2>5 DEF BackfillRecord
  <2>8. Working' = e /\ bf'.batch # {} BY <2>6, <2>7 DEF Working
  <2>9. BackfillPhases'
    <3>1. bf'.next - 1 = bf.next /\ bf'.next <= bf'.until + 1 BY <1>11, <2>1, <2>7
    <3>2. seen \cup batch = (seen \cup bf.batch) \cup {bf.next} BY DEF batch
    <3> QED BY <1>11, <2>1, <2>3, <2>4, <2>7, <2>8, <3>1, <3>2 DEF BackfillPhases, BackfillRecord
  <2>10. LockOwners' BY <1>1, <2>1, <2>8 DEF LockOwners
  <2> QED BY <1>1, <1>12, <2>1, <2>9, <2>10
<1>14. CASE SkipRow
  <2>1. /\ bf.pc = "replay" /\ bf.next <= bf.until /\ bf.batch = {}
        /\ bf' = [bf EXCEPT !.next = @ + 1]
        /\ UNCHANGED <<original, writer, mig, service, rows, spc, pending, seen, release>>
    BY <1>14 DEF SkipRow, Unread, startVars
  <2>2. bf.next \in 1..Len(rows) BY <1>1, <1>11, <2>1
  <2>3. Faithful(rows, spc, seen, bf.next) BY <1>1, <1>11, <2>1, <2>2, FaithfulSkipping
  <2>4. /\ bf' \in BackfillRecord /\ bf'.pc = "replay" /\ bf'.next = bf.next + 1
        /\ bf'.until = bf.until /\ bf'.batch = {}
    BY <1>1, <1>11, <2>1 DEF BackfillRecord
  <2>5. BackfillPhases'
    <3>1. bf'.next - 1 = bf.next /\ bf'.next <= bf'.until + 1 BY <1>11, <2>1, <2>4
    <3> QED BY <1>11, <2>1, <2>3, <2>4, <3>1 DEF BackfillPhases, BackfillRecord, Working
  <2>6. LockOwners' BY <1>1, <2>1, <2>4 DEF LockOwners
  <2> QED BY <1>1, <1>12, <2>1, <2>5, <2>6
<1>15. CASE CommitBatch
  <2>1. /\ bf.pc = "replay" /\ bf.batch # {} /\ spc' = bf.work /\ seen' = seen \cup bf.batch
        /\ writer' = "none" /\ bf' = [bf EXCEPT !.work = NoData, !.batch = {}]
        /\ UNCHANGED <<original, mig, service, rows, pending, release>>
    BY <1>15 DEF CommitBatch, CommitDue
  <2>2. Faithful(rows, spc', seen', bf.next - 1) BY <1>11, <2>1 DEF Working
  <2>3. Faithful(rows, spc', seen', Len(rows))
    <3>1. bf.next - 1 \in Nat /\ bf.next - 1 <= Len(rows) BY <1>1, <1>11, <2>1
    <3> QED BY <1>1, <2>2, <3>1, FaithfulSkipping
  <2>4. /\ bf' \in BackfillRecord /\ bf'.pc = "replay" /\ bf'.next = bf.next
        /\ bf'.until = bf.until /\ bf'.batch = {}
    BY <1>1, <2>1 DEF BackfillRecord
  <2>5. BackfillPhases'
    BY <1>11, <2>1, <2>2, <2>4 DEF BackfillPhases, BackfillRecord, Working
  <2>6. writer = "backfill" /\ pending = NoData /\ mig = NotMigrating
    BY <1>1, <2>1 DEF LockOwners
  <2>7. LockOwners' BY <2>1, <2>4, <2>6 DEF LockOwners
  <2> QED BY <1>12, <2>1, <2>3, <2>5, <2>6, <2>7
<1>16. CASE FinishBackfill \/ BackfillDies
  <2>1. /\ bf # NoBackfill /\ bf' = NoBackfill
        /\ writer' = IF writer = "backfill" THEN "none" ELSE writer
        /\ UNCHANGED <<original, mig, service, rows, spc, pending, seen, release>>
    <3>1. CASE BackfillDies BY <3>1 DEF BackfillDies
    <3>2. CASE FinishBackfill
      BY <1>1, <1>3, <3>2 DEF FinishBackfill, startVars, LockOwners
    <3> QED BY <1>16, <3>1, <3>2
  <2>2. BackfillPhases' BY <1>3, <2>1 DEF BackfillPhases, BackfillRecord
  <2>3. LockOwners' BY <1>1, <1>3, <2>1 DEF LockOwners
  <2>4. IngestTables' /\ Releases' BY <1>1, <2>1 DEF IngestTables, Releases, Running, Verifying
  <2> QED BY <1>1, <2>1, <2>2, <2>3, <2>4 DEF HistoryInv
<1> QED
  BY <1>5, <1>6, <1>8, <1>9, <1>10, <1>13, <1>14, <1>15, <1>16 DEF Backfill

LEMMA HistoryStep == HistoryInv /\ SchemaInv /\ [Next]_vars => HistoryInv'
<1> SUFFICES ASSUME HistoryInv, SchemaInv, [Next]_vars PROVE HistoryInv' OBVIOUS
<1>1. CASE UNCHANGED vars
  <2>1. UNCHANGED <<original, writer, mig, service, rows, spc, pending, bf, seen, release>>
    BY <1>1 DEF vars, startVars, spcVars
  <2>2. LockOwners' /\ Releases' BY <2>1 DEF HistoryInv, LockOwners, Releases, Running, Verifying
  <2> QED BY <2>1, <2>2, HistoryUntouched
<1>2. CASE OtherCommit
  <2>1. bf' = Overtaken
        /\ UNCHANGED <<original, writer, mig, service, rows, spc, pending, seen, release>>
    BY <1>2 DEF OtherCommit, startVars
  <2>2. LockOwners' /\ Releases'
    BY <2>1, OvertakenRecord DEF HistoryInv, BackfillPhases, LockOwners, Releases, Running, Verifying
  <2> QED BY <2>1, <2>2, HistoryUntouched
<1> QED
  BY <1>1, <1>2, HistoryMigrate, HistoryGate, HistoryIngest, HistoryBackfill DEF Next

LEMMA HistoryInvHolds == Spec => []HistoryInv
  BY HistoryInit, HistoryStep, SchemaInvHolds, PTL DEF Spec

\* Every variable has its declared shape, and the write lock belongs to whoever
\* has an open transaction.
THEOREM SpcTypes == Spec => []SpcTypeOK
<1>1. HistoryInv /\ SchemaInv => SpcTypeOK
  <2> SUFFICES ASSUME HistoryInv, SchemaInv PROVE SpcTypeOK OBVIOUS
  <2>1. StartTypeOK
    <3>1. mig.at \in 0..5 /\ mig.work \subseteq Objects /\ service.seen \subseteq Objects
      BY DEF SchemaInv, MigrationProgress, GateRead
    <3> QED BY <3>1 DEF StartTypeOK, Statements, SchemaInv, HistoryInv, LockOwners
  <2>2. spc \in Baseline /\ seen \subseteq 1..Len(rows)
        /\ pending \in Baseline \cup {NoData}
    BY DEF HistoryInv, IngestTables, Faithful
  <2>3. bf.work \in Baseline \cup {NoData} /\ bf.until <= Len(rows)
        /\ bf.pc \in {"idle", "drop", "create", "count", "open", "replay"}
    <3>1. Len(rows) \in Nat BY DEF HistoryInv
    <3> QED BY <3>1 DEF HistoryInv, BackfillPhases, BackfillRecord
  <2>4. service.pc \in {"down", "indexes", "columns", "up", "triaged"}
    BY DEF SchemaInv, GateRead, GateStates, Verifying
  <2> QED BY <2>1, <2>2, <2>3, <2>4 DEF SpcTypeOK, HistoryInv, LockOwners, Releases
<1> QED BY <1>1, HistoryInvHolds, SchemaInvHolds, PTL

\* When no observation was lost, the tables are what replaying the stored rows in
\* order makes of empty ones: live, backfilled or reset, and however often.
THEOREM TablesAreHistory == Spec => []BaselineIsHistory
<1>1. HistoryInv => BaselineIsHistory
  <2>1. HistoryInv => DOMAIN rows = 1..Len(rows) BY DEF HistoryInv
  <2> QED BY <2>1 DEF HistoryInv, IngestTables, Faithful, BaselineIsHistory, Replay
<1> QED BY <1>1, HistoryInvHolds, PTL

\* What the buckets of the committed tables hold of the stored rows.
LEMMA BucketBounds ==
    ASSUME HistoryInv, NEW h \in Hours
    PROVE  /\ spc.count[h] \in Nat /\ Cardinality(RowsIn(h)) \in Nat
           /\ spc.count[h] <= Cardinality(RowsIn(h))
           /\ seen = DOMAIN rows => Cardinality(RowsIn(h)) <= spc.count[h]
<1>1. Len(rows) \in Nat /\ DOMAIN rows = 1..Len(rows) BY DEF HistoryInv
<1>2. spc \in Baseline /\ Tallied(rows, spc, seen, Len(rows))
  BY DEF HistoryInv, IngestTables, Faithful
<1>3. RowsIn(h) = InHour(rows, 1..Len(rows), h) BY <1>1 DEF RowsIn, InHour
<1>4. 1..Len(rows) \in SUBSET (1..Len(rows)) OBVIOUS
<1>5. Cardinality(RowsIn(h)) \in Nat BY <1>1, <1>3, <1>4, HourFinite
<1>6. spc.count[h] \in Nat BY <1>2 DEF Baseline
<1> QED BY <1>1, <1>2, <1>3, <1>5, <1>6 DEF Tallied

\* No spike and no new signature is reported twice and no row is counted twice,
\* through failed observations, interrupted resets and replays.
THEOREM AlertsAreOnce == Spec => []AlertedOnce
<1>1. ASSUME HistoryInv PROVE AlertedOnce
  <2>1. /\ \A s \in Sids : spc.novel[s] <= 1
        /\ \A h \in Hours : spc.rate[h] <= 1
    BY <1>1 DEF HistoryInv, IngestTables, Faithful
  <2> QED BY <1>1, <2>1, BucketBounds DEF AlertedOnce
<1> QED BY <1>1, HistoryInvHolds, PTL

\* When no observation was lost, every bucket is the number of the rows of its hour
\* and the signatures are those of the rows: in whatever order they came.
THEOREM BucketsAreExact ==
    Spec => [](seen = DOMAIN rows =>
                   /\ \A h \in Hours : spc.count[h] = Cardinality(RowsIn(h))
                   /\ spc.sids = {rows[i].sid : i \in DOMAIN rows})
<1>1. HistoryInv => DOMAIN rows = 1..Len(rows) BY DEF HistoryInv
<1>2. HistoryInv => Faithful(rows, spc, seen, Len(rows)) BY DEF HistoryInv, IngestTables
<1>3. ASSUME Faithful(rows, spc, 1..Len(rows), Len(rows))
      PROVE  spc.sids = {rows[i].sid : i \in 1..Len(rows)}
  <2>1. /\ \A i \in 1..Len(rows) : rows[i].sid \in spc.sids
        /\ \A s \in spc.sids : \E i \in 1..Len(rows) : rows[i].sid = s
    BY <1>3 DEF Faithful
  <2> QED BY ONLY <2>1, ZenonT(30)
<1>4. ASSUME HistoryInv, seen = DOMAIN rows
      PROVE  \A h \in Hours : spc.count[h] = Cardinality(RowsIn(h))
  <2> SUFFICES ASSUME NEW h \in Hours PROVE spc.count[h] = Cardinality(RowsIn(h))
    OBVIOUS
  <2>1. /\ spc.count[h] \in Nat /\ Cardinality(RowsIn(h)) \in Nat
        /\ spc.count[h] <= Cardinality(RowsIn(h))
        /\ Cardinality(RowsIn(h)) <= spc.count[h]
    BY <1>4, BucketBounds, Zenon
  <2> QED BY <2>1
<1>5. HistoryInv /\ seen = DOMAIN rows =>
          /\ \A h \in Hours : spc.count[h] = Cardinality(RowsIn(h))
          /\ spc.sids = {rows[i].sid : i \in DOMAIN rows}
  BY <1>1, <1>2, <1>3, <1>4, Zenon
<1> QED BY <1>5, HistoryInvHolds, PTL

\* A signature none of whose rows was lost has an anomaly exactly when the first
\* of them came after the learning age, whatever was lost of other signatures.
THEOREM NoveltyIsExact == Spec => []NoveltyExact
<1>1. ASSUME HistoryInv PROVE NoveltyExact
  <2> SUFFICES ASSUME NEW s \in Sids, RowsOf(s) # {}, RowsOf(s) \subseteq seen
               PROVE  spc.novel[s] = 1 <=> rows[Min(RowsOf(s))].hour >= spc.first + MinAge
    BY DEF NoveltyExact
  <2> DEFINE i == Min(RowsOf(s))
  <2>1. rows \in Seq(AlertRow) /\ Len(rows) \in Nat /\ DOMAIN rows = 1..Len(rows)
    BY <1>1 DEF HistoryInv
  <2>2. RowsOf(s) \in SUBSET Nat BY <2>1 DEF RowsOf
  <2>3. i \in RowsOf(s) /\ \A j \in RowsOf(s) : i <= j BY <2>2, MinOfNumbers
  <2> HIDE DEF i
  <2>4. i \in 1..Len(rows) /\ rows[i].sid = s BY <2>1, <2>3 DEF RowsOf
  <2>5. FirstOfSid(rows, i)
    <3>1. ASSUME NEW j \in 1..(i - 1) PROVE rows[j].sid # s
      <4>1. j \in DOMAIN rows /\ ~(i <= j) BY <2>1, <2>4
      <4> QED BY <2>3, <4>1 DEF RowsOf
    <3> QED BY <2>4, <3>1 DEF FirstOfSid
  <2>6. \A j \in 1..Len(rows) : rows[j].sid = rows[i].sid => j \in seen
    BY <2>1, <2>4 DEF RowsOf
  <2> QED BY <1>1, <2>4, <2>5, <2>6 DEF HistoryInv, IngestTables, Faithful, i
<1> QED BY <1>1, HistoryInvHolds, PTL
=============================================================================
