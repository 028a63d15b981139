------------------------------ MODULE Retention ------------------------------
(***************************************************************************)
(* retention.py: backup, verify-backup and prune as the commands of one    *)
(* maintenance process beside the writers of the database, and the         *)
(* operator around them.                                                   *)
(*                                                                         *)
(* A command takes one step per transaction or published file; it may fail *)
(* or die between them.  Writers stop before a backup or a prune, and stay *)
(* down for the prune: the code asks for the acknowledgement and cannot    *)
(* check it.  Ages, deadlines and I/O errors are failures that may come at *)
(* any step.                                                               *)
(***************************************************************************)
EXTENDS Naturals, FiniteSets

CONSTANTS
    Names,       \* backup paths
    Snapshots,   \* asset snapshots
    BatchSize,
    MaxInserts,  \* bound on the rows ever inserted
    MaxReviews,  \* bound on the reviews of a row
    MaxFiles,    \* bound on the backup files ever written
    MaxRestores, \* bound on the restores of the database
    None

Ids == 1..MaxInserts
Writers == {"dashboard", "ingest"}

ASSUME RetentionAssumption ==
    /\ BatchSize \in Nat \ {0}
    /\ MaxInserts \in Nat /\ MaxReviews \in Nat /\ MaxFiles \in Nat /\ MaxRestores \in Nat
    /\ None \notin Snapshots

\* A row of triage_events: what was inserted, its latest feedback (0 for none) and
\* its asset snapshot.  Body 0 means that there is no row.  The clock runs forward:
\* the rows processed before a moment are those up to some id.
Row == [body : 0..MaxInserts, review : 0..MaxReviews, snap : Snapshots \cup {None}]
NoRow == [body |-> 0, review |-> 0, snap |-> None]

Tables == [Ids -> Row]

\* A published backup: the identity of its file, its content, and whether an
\* integrity check finds it clean.
Backup == [file : 0..MaxFiles, rows : Tables, seq : 0..MaxInserts,
           snaps : SUBSET Snapshots, sound : BOOLEAN]
NoBackup == [file |-> 0, rows |-> [i \in Ids |-> NoRow], seq |-> 0, snaps |-> {},
             sound |-> FALSE]

\* The provenance and manifest files name the database and backup by identity.
Evidence == [db : 0..(MaxRestores + 1), file : 0..MaxFiles, seq : 0..MaxInserts]
NoEvidence == [db |-> 0, file |-> 0, seq |-> 0]

JobSteps == {"none", "copy", "published", "verify", "delete", "limited", "clean",
             "failed", "done"}

\* "seen" is the identity of the backup file when its verification began, "cutoff"
\* the last id that a prune may delete.
Job == [step : JobSteps, name : Names \cup {None}, seen : 0..MaxFiles,
        cutoff : 0..MaxInserts, reviewed : BOOLEAN,
        deleted : 0..MaxInserts, exhausted : BOOLEAN, deferred : BOOLEAN]
NoJob == [step |-> "none", name |-> None, seen |-> 0, cutoff |-> 0, reviewed |-> FALSE,
          deleted |-> 0, exhausted |-> FALSE, deferred |-> FALSE]

VARIABLES
    rows, seq, snaps,  \* triage_events, its sqlite_sequence, asset_snapshots
    inserted,          \* how many rows were ever inserted
    db,                \* identity of the database file
    up,                \* the writers that run
    backups, prov, manifest,
    files,             \* how many backup files were ever written
    job                \* the maintenance process

data == <<rows, seq, snaps, inserted, db>>
store == <<backups, prov, manifest, files>>
retentionVars == <<data, store, up, job>>

RetentionInit ==
    /\ rows = [i \in Ids |-> NoRow]
    /\ seq = 0
    /\ snaps = {}
    /\ inserted = 0
    /\ db = 1
    /\ up = Writers
    /\ backups = [n \in Names |-> NoBackup]
    /\ prov = [n \in Names |-> NoEvidence]
    /\ manifest = [n \in Names |-> NoEvidence]
    /\ files = 0
    /\ job = NoJob

-----------------------------------------------------------------------------
(* The writers.                                                            *)

\* Mutant: without AUTOINCREMENT, the id of a deleted row is used again.
InsertRowReusingId(s) ==
    LET used == {i \in Ids : rows[i].body # 0}
        id == CHOOSE i \in Ids : i \notin used /\ \A k \in used : k < i IN
    /\ "ingest" \in up
    /\ inserted < MaxInserts
    /\ MaxInserts \notin used
    /\ inserted' = inserted + 1
    /\ seq' = id
    /\ rows' = [rows EXCEPT ![id] = [body |-> inserted + 1, review |-> 0, snap |-> s]]
    /\ snaps' = snaps \cup ({s} \ {None})
    /\ UNCHANGED <<db, store, up, job>>

\* A triage row and the snapshot it refers to, if any, in one transaction.
InsertRow(s) ==
    /\ "ingest" \in up
    /\ inserted < MaxInserts
    /\ inserted' = inserted + 1
    /\ seq' = seq + 1
    /\ rows' = [rows EXCEPT ![seq + 1] = [body |-> inserted + 1, review |-> 0,
                                          snap |-> s]]
    /\ snaps' = snaps \cup ({s} \ {None})
    /\ UNCHANGED <<db, store, up, job>>

\* submit_feedback: a review is replaced by a later one and never taken back.
Review(i) ==
    /\ "dashboard" \in up
    /\ rows[i].body # 0
    /\ rows[i].review < MaxReviews
    /\ rows' = [rows EXCEPT ![i].review = @ + 1]
    /\ UNCHANGED <<seq, snaps, inserted, db, store, up, job>>

-----------------------------------------------------------------------------
(* backup.                                                                 *)

Fail(j) == [NoJob EXCEPT !.step = "failed", !.name = j.name]
Done(j) == [j EXCEPT !.step = "done"]

\* Neither the backup nor its provenance may exist.
StartBackup(n) ==
    /\ job = NoJob
    /\ files < MaxFiles
    /\ IF backups[n] = NoBackup /\ prov[n] = NoEvidence
       THEN job' = [NoJob EXCEPT !.step = "copy", !.name = n]
       ELSE job' = Fail([NoJob EXCEPT !.name = n])
    /\ UNCHANGED <<data, store, up>>

CopyOfDatabase(sound) ==
    [file |-> files + 1, rows |-> rows, seq |-> seq, snaps |-> snaps, sound |-> sound]

\* The online copy, which starts over when the database changes, is linked to
\* its name; damage on the way shows only when it is checked.
PublishBackup(sound) ==
    /\ job.step = "copy"
    /\ files' = files + 1
    /\ backups' = [backups EXCEPT ![job.name] = CopyOfDatabase(sound)]
    /\ job' = [job EXCEPT !.step = "published"]
    /\ UNCHANGED <<data, prov, manifest, up>>

\* Only while the database holds as many rows as the copy.
WriteProvenance ==
    LET n == job.name IN
    /\ job.step = "published"
    /\ backups[n].seq = seq
    /\ prov' = [prov EXCEPT ![n] = [db |-> db, file |-> backups[n].file, seq |-> seq]]
    /\ job' = Done(job)
    /\ UNCHANGED <<data, backups, manifest, files, up>>

\* A row inserted since the copy, or an error: the published backup goes again.
WithdrawBackup ==
    /\ job.step = "published"
    /\ backups' = [backups EXCEPT ![job.name] = NoBackup]
    /\ job' = Fail(job)
    /\ UNCHANGED <<data, prov, manifest, files, up>>

-----------------------------------------------------------------------------
(* verify-backup.                                                          *)

\* _validate_backup_provenance.
ProvenanceHolds(n) ==
    /\ backups[n] # NoBackup /\ prov[n] # NoEvidence
    /\ prov[n].db = db
    /\ prov[n].file = backups[n].file
    /\ prov[n].seq <= seq

StartVerify(n) ==
    /\ job = NoJob
    /\ job' = IF ProvenanceHolds(n)
              THEN [NoJob EXCEPT !.step = "verify", !.name = n, !.seen = backups[n].file]
              ELSE Fail([NoJob EXCEPT !.name = n])
    /\ UNCHANGED <<data, store, up>>

\* After the check and the hash, while the writers run: a clean backup that is
\* still the file it was gets its manifest.
FinishVerify ==
    LET n == job.name
        b == backups[n] IN
    /\ job.step = "verify"
    /\ IF b.sound /\ b.file = job.seen /\ b.seq = prov[n].seq /\ manifest[n] = NoEvidence
       THEN /\ manifest' = [manifest EXCEPT ![n] = [db |-> db, file |-> b.file, seq |-> seq]]
            /\ job' = Done(job)
       ELSE job' = Fail(job) /\ UNCHANGED manifest
    /\ UNCHANGED <<data, backups, prov, files, up>>

-----------------------------------------------------------------------------
(* prune.                                                                  *)

\* _retention_predicate.
Eligible(cutoff, reviewed) ==
    {i \in 1..cutoff : rows[i].body # 0 /\ (reviewed \/ rows[i].review = 0)}

\* Database and backup are those that were verified.
ManifestHolds(n) ==
    /\ manifest[n] # NoEvidence
    /\ manifest[n].db = db
    /\ manifest[n].seq <= seq
    /\ manifest[n].file = backups[n].file
    /\ ProvenanceHolds(n)

\* Every row the prune may delete is in the backup with its latest feedback.
RowsInBackup(n, cutoff, reviewed) ==
    \A i \in Eligible(cutoff, reviewed) :
        /\ i <= prov[n].seq
        /\ rows[i].review # 0 => rows[i].review = backups[n].rows[i].review

\* Mutant: the identities in the manifest are taken on trust.
AuthorizesAnyIdentity(n, cutoff, reviewed) ==
    manifest[n] # NoEvidence /\ RowsInBackup(n, cutoff, reviewed)

\* validate_backup_manifest.
Authorizes(n, cutoff, reviewed) == ManifestHolds(n) /\ RowsInBackup(n, cutoff, reviewed)

StartPrune(n, cutoff, reviewed) ==
    /\ job = NoJob
    /\ job' = IF Authorizes(n, cutoff, reviewed)
              THEN [NoJob EXCEPT !.step = "delete", !.name = n,
                                !.cutoff = cutoff, !.reviewed = reviewed]
              ELSE Fail([NoJob EXCEPT !.name = n])
    /\ UNCHANGED <<data, store, up>>

\* prune --backup: an online backup, checked before it is published, instead.
StartInlinePrune(n, cutoff, reviewed) ==
    /\ job = NoJob
    /\ backups[n] = NoBackup
    /\ files < MaxFiles
    /\ files' = files + 1
    /\ backups' = [backups EXCEPT ![n] = CopyOfDatabase(TRUE)]
    /\ job' = [NoJob EXCEPT !.step = "delete", !.name = n,
                                !.cutoff = cutoff, !.reviewed = reviewed]
    /\ UNCHANGED <<data, prov, manifest, up>>

\* The oldest eligible rows, which are those with the lowest ids.
Batch(limit) ==
    LET eligible == Eligible(job.cutoff, job.reviewed) IN
    {i \in eligible : Cardinality({k \in eligible : k < i}) < limit}

RowsWithout(batch) == [i \in Ids |-> IF i \in batch THEN NoRow ELSE rows[i]]

\* Mutant: every batch counts as full.
DeleteFullBatch ==
    LET batch == Batch(BatchSize) IN
    /\ job.step = "delete"
    /\ rows' = RowsWithout(batch)
    /\ job' = [job EXCEPT !.deleted = @ + BatchSize,
                          !.exhausted = batch = {},
                          !.step = IF batch = {} THEN "clean" ELSE "delete"]
    /\ UNCHANGED <<seq, snaps, inserted, db, store, up>>

\* A batch that is not full is the last one.  A full one may have reached the row
\* limit, which shortens the batch it ends with.
DeleteBatch ==
    /\ job.step = "delete"
    /\ \E limit \in 1..BatchSize, step \in {"delete", "limited", "clean"} :
        LET m == Cardinality(Batch(limit)) IN
        /\ step = "clean" <=> m < limit
        /\ step = "delete" => limit = BatchSize
        /\ rows' = RowsWithout(Batch(limit))
        /\ job' = [job EXCEPT !.deleted = @ + m, !.exhausted = m < limit, !.step = step]
    /\ UNCHANGED <<seq, snaps, inserted, db, store, up>>

\* The deadline, or the row limit, after which a last look may find nothing left.
StopDeleting ==
    /\ \/ /\ job.step \in {"delete", "limited"}
          /\ job' = [Done(job) EXCEPT !.deferred = TRUE]
       \/ /\ job.step = "limited" /\ Eligible(job.cutoff, job.reviewed) = {}
          /\ job' = [job EXCEPT !.step = "clean", !.exhausted = TRUE]
    /\ UNCHANGED <<data, store, up>>

Orphans == snaps \ {rows[i].snap : i \in {k \in Ids : rows[k].body # 0}}

\* Snapshots without a row go, unless the deadline defers that to another prune; the
\* checkpoint that follows the commit may still fail the command.
CleanOrphans ==
    /\ job.step = "clean"
    /\ \/ /\ snaps' = snaps \ Orphans
          /\ job' \in {Done(job), Fail(job)}
       \/ /\ job' = [Done(job) EXCEPT !.deferred = TRUE]
          /\ UNCHANGED snaps
    /\ UNCHANGED <<rows, seq, inserted, db, store, up>>

\* A limit, a deadline or an I/O error ends the command, or its process dies: what
\* was committed or published stays.
JobFails ==
    /\ job.step \notin {"none", "failed", "done"}
    /\ job' = Fail(job)
    /\ UNCHANGED <<data, store, up>>

Maintain ==
    \/ \E sound \in BOOLEAN : PublishBackup(sound)
    \/ WriteProvenance
    \/ WithdrawBackup
    \/ FinishVerify
    \/ DeleteBatch
    \/ StopDeleting
    \/ CleanOrphans

-----------------------------------------------------------------------------
(* The operator.                                                           *)

\* A backup is copied over another, between commands or while one is verified: the
\* name now holds another file.
ReplaceBackup(n, m) ==
    /\ job.step \in {"none", "verify"}
    /\ n # m /\ backups[m] # NoBackup
    /\ files < MaxFiles
    /\ files' = files + 1
    /\ backups' = [backups EXCEPT ![n] = [backups[m] EXCEPT !.file = files + 1]]
    /\ UNCHANGED <<data, prov, manifest, up, job>>

\* The database is replaced by a clean backup.
Restore(n) ==
    /\ job = NoJob /\ up = {}
    /\ backups[n].sound
    /\ db <= MaxRestores
    /\ db' = db + 1
    /\ rows' = backups[n].rows
    /\ seq' = backups[n].seq
    /\ snaps' = backups[n].snaps
    /\ UNCHANGED <<inserted, store, up, job>>

Pruning == job.step \in {"delete", "limited", "clean"}

\* One writer or several are stopped and started.
SwitchWriters(ws) ==
    /\ ~Pruning
    /\ up' = ws
    /\ UNCHANGED <<data, store, job>>

\* The commands of the manual workflow.
Command ==
    \E n \in Names :
        \/ up = {} /\ StartBackup(n)
        \/ StartVerify(n)
        \/ \E cutoff \in 0..seq, reviewed \in BOOLEAN :
            /\ up = {}
            /\ StartPrune(n, cutoff, reviewed) \/ StartInlinePrune(n, cutoff, reviewed)

\* The process ends.
Reap ==
    /\ job.step \in {"failed", "done"}
    /\ job' = NoJob
    /\ UNCHANGED <<data, store, up>>

Operator ==
    \/ \E n, m \in Names : ReplaceBackup(n, m)
    \/ \E n \in Names : Restore(n)
    \/ \E ws \in SUBSET Writers : SwitchWriters(ws)
    \/ Command
    \/ Reap

Work ==
    \/ \E s \in Snapshots \cup {None} : InsertRow(s)
    \/ \E i \in Ids : Review(i)

RetentionNext == Work \/ Maintain \/ JobFails \/ Operator

RetentionSpec == RetentionInit /\ [][RetentionNext]_retentionVars

-----------------------------------------------------------------------------
(* Properties.                                                             *)

\* Every variable has its declared shape.
RetentionTypeOK ==
    /\ rows \in Tables
    /\ seq \in 0..MaxInserts /\ inserted \in seq..MaxInserts
    /\ snaps \subseteq Snapshots
    /\ db \in 1..(MaxRestores + 1)
    /\ up \subseteq Writers
    /\ \A n \in Names : backups[n] \in Backup
    /\ prov \in [Names -> Evidence]
    /\ manifest \in [Names -> Evidence]
    /\ files \in 0..MaxFiles
    /\ job \in Job

Deleted(i) == DeleteBatch /\ rows[i].body # 0 /\ rows'[i].body = 0

\* A prune that names a backup deletes nothing that the backup does not hold, in
\* sound shape, with the feedback the row has when it is deleted; although the
\* writers ran since the backup, the database may have been restored and backup
\* files exchanged.
PrunedIsBackedUp ==
    [][\A i \in Ids : Deleted(i) =>
        LET b == backups[job.name] IN
        /\ b.sound
        /\ b.rows[i].body = rows[i].body
        /\ rows[i].review # 0 => b.rows[i].review = rows[i].review]_retentionVars
=============================================================================
