# Triagewall in TLA+

Triagewall reads Suricata (and optionally Wazuh) alerts, classifies each with a
rule prefilter and a local language model, and stores the verdicts in SQLite for
a dashboard.  This directory holds TLA+ modules of its stateful parts, the TLC
configurations that check small instances of them, and TLAPS proofs for every
value of the constants.  `PROJECT.json` maps every definition to the lines of
source it stands for.

Paths below are relative to the repository; `op_config` is
`triagewall/operator_config.py`, `repository` is `triagewall/config_repository.py`.

## 1. Inventory

| Part | State | Operations | What makes it hard |
|---|---|---|---|
| Operator configuration (`repository`, `op_config`, `config_bootstrap.py`) | `operator_config_revisions`, `operator_config_state` (one row: generation, active and previous revision of each kind, mode), audit rows | bootstrap, mirroring of the legacy mounts, discovery of packaged defaults; create, validate, preview, activate, roll back | many operators and starting consumers beside each other; content addressing makes one row stand for several histories; previews read without a lock |
| Runtime configuration of a consumer (`op_config` `ConfigurationBundleOwner`, `ingest.py`, `wazuh_ingest.py`) | the bundle in memory, its reload backoff and memory of failures, one `operator_config_consumers` row | start, check of the generation before each record, reload, commit of the status row, adoption in memory, failure report | peers mirror other mounts in between; the status row and the bundle must agree over failures; a model call of seconds between check and insert |
| Suricata ingest (`ingest.py`) | durable checkpoint (inode, offset), open handle, end-of-file observations; triage rows | poll, scan of the rotation chain, read, skip, triage, quarantine, retry, checkpoint, settle, follow | logrotate renames, compresses and expires files beside it; a crash between commit and checkpoint; late appends |
| Wazuh ingest (`wazuh_ingest.py`) | durable checkpoint (date, offset, inode), open stream, stop flag; triage rows | first start, poll, drain of the archives behind, live file, duplicate check, quarantine, retry, checkpoint, stop | the manager archives and compresses by local day while a drain of days runs; a write after midnight; a stop signal or a crash between any two steps |
| SPC baselining (`spc.py`, `ingest.py`, `scripts/backfill_spc.py`) | four tables per internal address: state, rate buckets, seen signatures, anomalies | observe (six writes, a second transaction after the triage row), backfill with a cursor and batches, reset | an observation that fails half-way stays open in the connection; a backfill reads a snapshot that others write past |
| Schema, migrations and database start (`migrations.py`, `scripts/migrate.py`, `schema.sql`) | the tables and columns of the database file | one-shot migration in one transaction; the gate every service passes | any old form may be found; kills between statements; a gate of several reads beside a migration |
| Retention and backup (`retention.py`) | database, backup files, provenance and manifest files | backup, verify-backup, prune (batches, snapshot clean-up) | writers run between backup and prune; the database may be restored and backups exchanged in between |
| Retention cycle (`scripts/retention-cycle.sh`) | phase, `writers_stopped`, `writer_recovery_attempted` | stop, backup, restore, verify, prune pauses, trap | signals and failures anywhere; monitoring must come back |
| Dashboard API (`dashboard/`) | cursors and search windows that the client holds | queue pages, search, neighbours, feedback, configuration routes, statistics | keyset pages of several reads beside late inserts, prunes and reviews |
| Triage, prefilter, assets (`triage.py`, `prefilter.py`, `asset_inventory.py`) | none | pure functions of an alert, a policy and an inventory | |
| Normalization (`sensor_event.py`, `wazuh_event.py`, `field_isolation.py`, ...) | none | validation and isolation of fields | |
| Dashboard UI (`static/*.js`) | polling and editor state | polls, edits | answers out of order |
| Metrics, offline scripts | none shared | | |

The parts meet in one SQLite database.  Mutations of the configuration, triage
inserts, observations, backfill batches and prune batches are transactions under
its single write lock; reads outside a transaction each see their own snapshot.
Consumers never receive a message about a new configuration: they compare the
generation before a record.  Each ingest shares only a directory with the tool
that rotates its files.  The retention script drives containers and trusts their
exit status.

What correctness means, part by part:

* configuration: the state row and the revision rows tell the same story; every
  generation ever published can be read back unchanged; a rollback goes only to
  what was active before; nobody activates an asset inventory without evidence
  computed for the very pair it replaces, or an acknowledgement that there is
  none; shipped lineage is never rewritten; in database mode the pair changes by an operator's
  hand alone and a restart changes nothing, whatever the mounts hold;
* consumers: one committed generation at a time, the status row truthful, the
  verdict labelled with what made it, the newest generation eventually used;
* both ingests: no alert is passed over, none is stored twice (by Suricata ingest,
  which cannot recognize an alert without a flow id, not without a crash), the
  stream is followed in order through rotation, and everything is triaged in the
  end unless a file that is still needed was lost;
* baselines: they are what replaying the stored rows makes of empty tables, an
  anomaly is reported once;
* schema: no service runs on a form that is neither old nor new;
* retention: nothing is deleted that a named backup does not hold; maintenance
  never runs beside a writer in the cycle; monitoring returns or the exit status
  says so; success means that nothing was left to delete;
* review queue: no row that was there all the time is skipped or shown twice, and
  a search keeps to the candidates it began with.

## 2. Modules

| Module | Models |
|---|---|
| `ConfigLifecycle` | the durable configuration: every mutation of `repository` and the synchronization of `op_config` as one atomic step (`BEGIN IMMEDIATE`), a preview as one step per autocommit read |
| `ConfigConsumers` | extends it with the consumers: mount read, load, start, check, reload, status commit, adoption in memory, failure report, classification, insert, crash |
| `EveDirectory` | external: Suricata's appends and logrotate's renames, creation, compression and expiry, one directory entry at a time |
| `SuricataIngest` | extends it with `tail_file` and the functions it calls |
| `WazuhArchives` | external: the Wazuh manager's appends, midnight, archiving, compression and deletion |
| `WazuhIngest` | extends it with `tail_wazuh`, `process_available`, `_process_stream` and the first start |
| `AlertStream` | abstract, implemented by both ingests: a cursor moves over an ordered stream and passes nothing undealt with |
| `DatabaseStart` | the migration, statement by statement, and the gate: tables, then indexes, then columns (whose PRAGMAs are one read) |
| `SpcBaseline` | extends it with the writes of `observe` for one address, its transaction in ingest, and the backfill |
| `Retention` | the maintenance commands, the writers, the operator around them |
| `RetentionCycle` | extends it with the script and its trap |
| `ReviewQueue` | one analyst's pages, searches and neighbours, read by read, beside inserts, prunes and reviews |
| `MC*` | model values for TLC |
| `*Proofs` | theorems and proofs of the module they are named after |

How state corresponds to the code.  In `ConfigLifecycle`, `rows[d]` is the
revision row of document `d` (the revision is a digest, so the document names
it); `generation`, `active`, `previous` and `mode` are the columns of the state
row; `bundles` is the history the audit rows give; `evidence[d]` is the last
preview recorded for an inventory; `session` is a preview request between two of
its reads.  A refused request is a disabled step, since it rolls back.  A
document is a model value; what the operations ask of it (valid, canonical form,
broad rules, needs assets, packaged) are constant sets and functions.

In `ConfigConsumers`, `step[c]` is where consumer `c` is between two transactions,
`bundle[c]` and `replacement[c]` are the documents in memory with the label they
carry, `mounted[c]` what it read from the mounts, `status[c]` its row, `complained`
its `_last_audited_failure_generation`, `open` the consumers whose connection is
left inside a transaction.  A fault may strike any transaction.  A start and a reload
each commit the status row first (`Start`, `CommitReload`) and put the bundle in force in
a later step (`Adopt`), so that a crash between the two is among the behaviours: the row
of a dead process may then name a generation it never ran with, until the next start.

In `SuricataIngest`, `ckpt` is the durable position, `source` the file chosen for
opening, `handle` the open file, `seen` the unchanged end-of-file observations,
`chain` the scan in progress.  `rows[r]` counts the triage or failure rows of
record `r`.  In `WazuhIngest`, `current` is `current_date`, read once per
`process_available`, `expected` the inode that was looked at before the live file
is opened, `stopping` the flag the signal handler sets; `origin` remembers where
the first checkpoint was, because what lies before it was never asked for.

In `DatabaseStart`, `schema` is the committed set of objects (tables that come and
go together are one object), `mig` the open transaction of the migration, `writer`
the holder of SQLite's write lock.  In `SpcBaseline`, `spc` is the committed
content of the four tables for one internal address, `pending` what the
transaction that a failed observation left open makes of it, `bf` the backfill
with its cursor (`stale` when another commit overtook its snapshot) and its open
batch.  Every statement of `spc.py` names one address, so addresses do not meet.

In `Retention`, `rows`, `seq` and `snaps` are the tables and their AUTOINCREMENT
counter, `prov` and `manifest` the evidence files reduced to the identities and
sequence numbers that later commands compare, `job` the one maintenance process.
In `RetentionCycle`, `pc` is the place in the script, the other variables have the
script's names.

In `ReviewQueue`, `position` is the cursor, `window` the search window the client
sends back with each page; `candidates` and `throughout` are history: the rows in
the window when it was captured, and the rows that matched all the time.

## 3. Runs

Every bound is a constant named in the .cfg.  Deadlock checking is off (except in
`review_queue`) because with the bounds reached, or the daemon stopped by design,
nothing is left to do.

| Run | Question | Bounds, and why they suffice |
|---|---|---|
| `config_lifecycle` | do pointers, rows, history, evidence, lineage and rollback targets agree over all operations and one preview in flight | two packaged defaults (one of which an operator may also have drafted, as an image upgrade finds it), the raw form of one, an invalid document, two inventories, three generations: enough to activate, roll back and mirror, and to normalize onto an existing row |
| `config_consumers` | do two consumers stay truthful and become current | two consumers on different mounts, three generations, one fault at any transaction |
| `suricata_ingest` | no gap, no unexplained duplicate, refinement of `AlertStream`, everything triaged | three files over one archive slot, so that archives expire; two records of four kinds; compression and decompression; one crash |
| `wazuh_ingest` | the same of Wazuh ingest, and no duplicate at all | three days and two records, so that a day may be empty between two that are not; compression and deletion; one crash or stop; start at the end of the file |
| `spc_baseline` | is no partial schema run, the baseline the replay of the rows, each anomaly reported once, no row counted twice | three old forms; four rows over two hours and two signatures, so that an address comes of age and spikes; two backfills, one fault |
| `retention_manual` | does a prune delete only what its backup holds | two rows, two names, three backup files, one restore: a backup of each side of the restore, and a file copied over another |
| `retention_cycle` | is maintenance quiet, the exit truthful, the success real, and monitoring restored | two rows, two pauses, batches of two rows or of one at the row limit, two recovery attempts |
| `review_queue` | are pages, searches and neighbours complete beside everything else | three rows at two times or none, a window of two candidates, pages of one row, the unreviewed alerts and all of them: one row lies outside the window or arrives late, and every page boundary falls between rows that tie or have no time |
| `suricata_scan_race`, `suricata_first_run`, `wazuh_stop`, `wazuh_midnight` | section 6 | the smallest instance with the case |

Each property of a passing run has a mutant in `PROJECT.json`, a plausible
mistake in the code's place (a missing comparison, an entry not superseded, a
checkpoint moved on a retry, a trap that only reports) that breaks it.

## 4. Assumptions

Environment:

* SQLite serializes write transactions and each autocommit read sees a committed state.
* Rotation of `eve.json` is rename-and-create with numbered archives; no
  copytruncate, no reused inode numbers.  A Suricata line is ended before the file
  is reopened.  A file that left the live name is appended to only within the
  settling observations (`LookedAway` in `SuricataIngest`), which is what the
  interval of `_await_stable_eof` buys.  Except in `suricata_scan_race` no rename
  falls between two stats of one scan.
* The Wazuh manager keeps one file a day; it may go on writing to the file of the
  day before until it archives it, and archives only.  Except in `wazuh_stop` a stop
  signal does not come while archives hold unread records, and except in
  `wazuh_midnight` the day does not change inside a drain or before the first
  checkpoint (`StopWhileDraining`, `DayChangeInside`).
* Alerts reach the baselines in the order of their timestamps or one hour late.  The
  ingest that observes is not started beside a backfill, as its documentation
  asks; an older release, which observes nothing, may run beside it.
* The operator's acknowledgement that the writers are down is honest for the
  length of a prune; backup files are exchanged only between commands or while one
  is verified; the clock runs forward.  A restored database is a new file: the code
  compares device and inode, so a backup copied in place over the database file is not
  recognized as another database, and nothing is claimed about it.
* `docker compose stop` and `start` have had their effect when the next command of the
  script runs; a stop that Docker still carries out after its client was cut off
  by the time limit is not represented.

Fairness, stated only where a liveness property needs it:

* `SuricataIngest`, `WazuhIngest`: the daemon is restarted and its loop runs on
  (weak, it is an endless loop), a record that is retried is eventually stored
  (strong: Ollama or SQLite recovers again and again), whoever writes the file ends
  its lines, and a rotation that began ends (weak; strong for the Wazuh manager's
  creation of the new file, which the run admits only outside drains).
* `ConfigConsumers`: a consumer is restarted and its loop runs on (weak, while
  records arrive, which is when the code looks at the configuration), and a check
  comes due infinitely often (strong: the backoff is bounded by
  `MAX_RELOAD_BACKOFF_SECONDS`).  Faults are finite.
* `RetentionCycle`: bash and the container it waits for run on (weak); a stop that
  does not succeed is cut off by its `timeout`.  Nothing is assumed of the success
  of a restart, of signals or of the operator.

`CatchesUp` of both ingests excepts the states in which the file that is needed
next is gone, compressed or incomplete: there the daemon stops by design.

## 5. Proofs

All theorems hold for any values of the constants that satisfy the named
assumptions (`NoDataAssumption`: the value that stands for no tables is not a state of
them); nothing else is assumed.

`ConfigLifecycleProofs` proves, for any documents, any number of sessions and any
bound, `TypeOK`, `PointersAgree`, `BundlesRecorded`, `RollbackTargetsWereActive`,
`EvidenceTruthful`, `ResumeKeepsLineage`, `BundlesAppendOnly`, `AssetActivationInformed`,
`LineageImmutable` and `DatabaseAuthority`.  None of the invariants is inductive
alone.  `StoreInv` joins the store's invariants: a step may trust a pointer only
because the rows agree with it, and a superseded row only because the history
holds it.  `IInv` adds, for a preview in flight, `PreviewPair` (what it has read so
far is the pair of the generation it answers for, while that is current) and
`PreviewCanonical` (its candidate is canonical).  With them the step that records
evidence keeps `EvidenceTruthful`, and `AssetActivationInformed` follows in the step
from `IInv`.  `DatabaseAuthority` follows from the mode alone: in database mode no
mirror is possible (`StartIsQuiet`), and of the other steps only an activation or a
rollback touches the state row (`AuthorityStep`); that a mirror of replaced documents
would be caught, the mutant `SyncAnyMode` shows.  `ResumeKeepsLineage` needs `ValidatedCanonical`, that only canonical
content is ever marked validated.  Lemmas treat the editing of rows (`QuietEdit`) and the
publication of a bundle once, and the steps cite them.

`ConfigConsumersProofs` first proves `LifecycleKept`: a consumer's step is a step
of the lifecycle or leaves it alone, so the invariants above carry over.
`ConsumersInv` then says in each phase what is in memory: committed bundles
(`Truthful`), a status row about them (`Reported`; between the commit and the adoption
about the one to be adopted), a verdict from them (`Sound`).
It yields `ConsumersTypeOK`, `BundleTruthful`, `StatusTruthful` and `VerdictProvenance`.

`SuricataIngestProofs` proves `TypeOK` from `BaseInv`, which adds that only Suricata's
file ends in an unfinished line and what the loop's variables hold at each of its steps.
As long as no rename falls between two stats of one scan (`~ScanRace`), `TrackInv` is
inductive.  Its parts: `InOrder` (the slots hold the youngest files in the order of
their birth, without a gap, also in the middle of a rotation), `Scanned` (what a scan has
found is there), `OnTrack` (the file that is read is the checkpoint's, the hint is its
successor, a settled file does not grow), and `NothingAhead` (only a crash leaves rows
ahead of the checkpoint).  From the first two, the entry after a file in the chain is
the next file (`NextInChain`).  It yields `NoGap`, `DuplicatesOnlyAfterCrash` and that
every step is a step of `AlertStream` or leaves it alone, that is `StreamInOrder`.  The
condition cannot be dropped: `suricata_scan_race` is the counterexample.

`WazuhIngestProofs` proves `TypeOK` and `AlertStoredOnce` from `BaseInv`, which adds
what the loop's variables hold at each of its steps and that only written records
have rows; both hold whatever is stopped or rotated.  Under `Smooth` (no stop and no day
change inside a drain, section 4) `SmoothInv` is inductive: `ArchivesBehind` (the
days before the live file are archived and frozen), `CheckpointInside` (the
checkpoint names a file that was live and an offset in it), `OnTrack` (the stream that is
open is the checkpoint's) and `StopFindsNothing`.  It yields `NoGap`, and that
every step of the daemon and the manager is a step of `AlertStream` or leaves it
alone, that is `StreamInOrder`.  The two conditions cannot be dropped: the runs `wazuh_stop`
and `wazuh_midnight` are the counterexamples.

`SpcBaselineProofs` proves `SchemaWhole`, `SpcTypeOK`, `BaselineIsHistory`,
`AlertedOnce` and `NoveltyExact`.  For the first, `SchemaInv` adds how far the open
transaction of the migration has brought its copy of the schema, that this copy is never
behind what is committed, and that no table is dropped under a gate or a service.  The
others are parts of one: `Faithful(rows, d, done, m)` says what tables `d` hold of the
first `m` rows when the observations of those in `done` are whole and of the others at
most a part was kept.  `HistoryInv` states it of the committed tables, of what ingest's
open transaction would commit and of the backfill's open batch, the last up to the row
its cursor has come to; it adds which phase of a reset finds what (`Dropped`) and who
holds the write lock.  `FaithfulWrites` is the heart: any prefix of the six writes
keeps it, all six make the row whole.  It depends on the order of the reset's
statements (`FaithfulDropping`: anomalies go before the signatures they were reported
for) and on nothing being known yet of the row just stored.  The counting of a bucket's
rows is `Tallied`; when no observation was lost both of its bounds meet, and
`BucketsAreExact` follows: the buckets and the known signatures are those of the rows.
The replay is a recursive function, whose equations are proved by the absence of a
least row at which they fail (`ReplaysExist`).

`RetentionProofs` proves `RetentionTypeOK` and `PrunedIsBackedUp` for the commands by
hand.  `RetentionInv` says what the files beside the database mean: the identities in
backups, provenance and manifests were given out (`Identities`); a row of a copy just
published is still in the database (`Copied`); the rows that provenance of this database
names are gone or unchanged (`Proven`); a manifest whose file is still there describes a
sound one (`Verified`); and while a prune deletes, everything it may delete is in its
backup with its latest feedback (`Covered`).  Authorization establishes `Covered`
(`AuthorizedIsHeld`), no writer runs to disturb it, and each batch deletes from it.

`RetentionCycleProofs` proves `QuietMaintenance` and `ExitTellsTruth` from `CycleInv`,
which adds what `writers_stopped` tells of each phase: true from before the first
writer is stopped until all run again, false while the script verifies or waits.
`EvidenceInv` joins it with `RetentionInv`, the types of the script (`ScriptTypes`),
which job a phase may find (`PhaseJob`) and what a kept result says of the database
(`Cleaned`); it yields `TypeOK`, `PrunedIsBackedUp` in the cycle and `CompletedIsClean`.
`Cleaned` survives the restart of the writers because new rows lie behind the cutoff
and refer to snapshots that are there.  The theorem for the cycle's `PrunedIsBackedUp`
is not a second proof: `CycleImplementsCommands` shows that every step of the script,
its jobs and its trap is a command of `Retention`, a switch of the writers or nothing,
in other words that the cycle is one of the operators the manual commands admit.
`CycleTerminates` is what `MonitoringReturns` rests on beside fairness: `Remaining`
(pauses left and phase; then attempts or job steps left and rows left) descends in a
well-founded order in every step of the cycle but what the writers store, so that no
sequence of failures, pauses and batches is endless.  On the run's instance TLC
finds neither violated.  That a batch which is not full has taken
everything (`ShortBatchIsAll`) is proved by the least element left out.

`ReviewQueueProofs` proves `QueueTypeOK`, `NothingSkipped` and `SearchFrozen`.  First the
order: every set of rows has one listing in queue order (`SortExists`, a row's place is
the number of rows that precede it), so `LIMIT` returns what it should (`FirstFacts`).
`QueueInv` then says that the boundaries of a window hold its candidates and, of the rows
that are left, no other (`Framed`, established by `WindowFacts`); that the cursor is the
last row shown and the rows followed and not yet shown come after it (`Paged`); and that
the seeks that are done found nothing that was there throughout (`Sought`).  One lemma
(`OthersStep`) covers all other actors: rows only get later ones behind them and
leave, and no time changes.

Model-checked only: liveness (`CatchesUp` of both ingests, `EventuallyCurrent`,
`MonitoringReturns`), since fairness and ENABLED are out of the provers' reach.  Every
invariant and every action property of the passing runs is proved.  That the model's
sums (`Spikes`) are the mean and deviation of `spc.py` is not proved either: no theorem
needs their value, only that an hour already reported is not reported again.

## 6. Where documentation and code differ

Each of the first four is a `violation` run with one property that states the
document's sentence.

* `suricata_scan_race`: a rename between two stats of one directory scan can drop
  the displaced archive from the chain, and the checkpoint moves past it.
* `suricata_first_run`: until something was checkpointed, a retried record does not
  hold back a rotation.
* `wazuh_stop`: a stop signal while an archive is drained returns a result whose
  `complete` still has its default, so the rest of the archive is skipped for good.
* `wazuh_midnight`: `current_date` is read before the drain; a rotation during it lets
  the new live file be read under the old date, and the archive of that day is
  entered without its head.

Seen while modelling, without a run:

* An old draft activates after an activation that came in between was rolled back,
  where `docs/operator-configuration-foundation.md:192` has such drafts refused.
* A preview overtaken by an activation between two of its reads is reported as
  inconsistent storage (500) and not audited, against the comment at
  `config_repository.py:1461` and `docs/api.md:418`.
* A failed reload whose report cannot be committed either is remembered as audited,
  and the next report leaves no audit row.
* `_resumable_revision` may hand back a normalization handle whose canonical revision
  was active before, contrary to its docstring.
* After a downgrade the newest shipped default is still the newer one.
* After a mirror that changes one kind, the previous pointer of the other kind
  equals its active one.
* A packaged default that is newly discovered while in database mode cannot be
  adopted by submitting it again (`duplicate_revision`).
* Wazuh ingest: a rotation between the look at the date and the stat of the live file
  ends the daemon, although `WazuhRotationRace` is meant to be retried; the three
  reads of `initialize_position` may span a rotation or a late append; a plain archive
  that is shorter than the checkpoint is not noticed; an SQLite error while a line is
  quarantined ends the process.
* Backfill: one commit of another process between two of its transactions makes every
  later `observe` fail with "database is locked" (its cursor holds an old snapshot);
  the rows are counted as skipped and the script exits with 0, although it is
  documented to run while the old ingest runs.  A `--reset` that is interrupted leaves
  addresses without history that nothing detects.  What a failed observation had
  written is committed by the next row's insert, and an observation lost in a crash is
  never made up for.
* A signal that arrives while `restore_writers` runs ends the cycle with status 75
  without another attempt, and one that only the script receives may end it with
  the status of the last command, which can be 0.

## 7. Not modelled

Parsing, prompts, the model's answer and the prefilter's matching are inputs: each
record may be accepted, ignored, bad or failing.  Audit rows appear only where a
property is about them.  Backoff lengths, the limits and watchdogs of a backup and
the age limits of evidence are choices that may come out either way at any step.
`prune --no-backup` is the operator's own decision to have no backup.  Demo mode,
file truncation, dated archive names and stall warnings of Suricata ingest are left
out, and so is Wazuh ingest as a third writer of the retention cycle.  Of the dashboard
API, statistics, timeline, health with their caches, related alerts and
authentication are left out; of the configuration, its read endpoints and the
text of the reports.  Classification and normalization are pure functions without
state; metrics and the offline scripts share none.  The dashboard's scripts (polling,
the configuration editor) are not modelled yet.  `PROJECT.json` lists every part.

## 8. Plan

What is left, in this order:

1. Polling and the configuration editor of the dashboard against answers out of
   order; the caches of the API.
2. Wazuh ingest as a third writer beside the cycle, and the exit statuses of the script.
3. Measures like that of `CycleTerminates` for the drain of Wazuh ingest and the replay
   of the backfill: a drain over finitely many days ends whatever fails in it.
