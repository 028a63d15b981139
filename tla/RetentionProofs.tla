--------------------------- MODULE RetentionProofs ---------------------------
(***************************************************************************)
(* What the maintenance commands keep, for any rows, backup names, files   *)
(* and restores: no prune deletes what its backup does not hold.           *)
(*                                                                         *)
(* PrunedIsBackedUp speaks of one step; what makes that step right was     *)
(* established by other commands long before.  RetentionInv says what each *)
(* piece of evidence still means: identities are never used twice          *)
(* (Identities), a provenance whose identities are current describes rows  *)
(* that are gone or unchanged (Proven), a manifest whose file is still     *)
(* there describes a sound one (Verified), and a prune under way has its   *)
(* rows in the backup (Covered), as no writer runs beside it.              *)
(***************************************************************************)
EXTENDS Retention, TLAPS, FiniteSetTheorems, WellFoundedInduction

Present == {i \in Ids : rows[i].body # 0}

Identities ==
    /\ backups \in [Names -> Backup]
    /\ \A n \in Names :
        /\ backups[n].file <= files /\ backups[n].seq <= inserted
        /\ backups[n] # NoBackup => backups[n].file > 0
        /\ prov[n].file <= files /\ prov[n].db <= db
        /\ prov[n] # NoEvidence => prov[n].file > 0
        /\ manifest[n].file <= files
        /\ manifest[n] # NoEvidence => manifest[n].file > 0

JobSound ==
    /\ job.step \in {"copy", "published", "verify", "delete", "limited", "clean"} => job.name \in Names
    /\ job.step = "copy" => files < MaxFiles
    /\ job.step = "verify" => job.seen > 0
    /\ Pruning => up = {}
    /\ job.step = "delete" => job.deleted + Cardinality(Present) <= MaxInserts

\* No row of the copy has changed but for its reviews.
Copied ==
    job.step = "published" =>
        /\ backups[job.name].file > 0
        /\ backups[job.name].seq <= seq
        /\ \A i \in 1..backups[job.name].seq : rows[i].body = backups[job.name].rows[i].body

Proven ==
    \A n \in Names : prov[n].db = db /\ prov[n].file = backups[n].file =>
        /\ prov[n].seq <= seq
        /\ \A i \in 1..prov[n].seq : rows[i].body \in {0, backups[n].rows[i].body}

Verified ==
    \A n \in Names : manifest[n] # NoEvidence /\ manifest[n].file = backups[n].file =>
        backups[n].sound

\* Every row that a prune may delete is in b with its latest feedback.
Holds(b, cutoff, reviewed) ==
    /\ b.sound
    /\ \A i \in Eligible(cutoff, reviewed) :
        /\ b.rows[i].body = rows[i].body
        /\ rows[i].review # 0 => b.rows[i].review = rows[i].review

Covered ==
    job.step = "delete" =>
        /\ job.cutoff <= seq
        /\ Holds(backups[job.name], job.cutoff, job.reviewed)

RetentionInv ==
    /\ RetentionTypeOK
    /\ Identities
    /\ JobSound
    /\ Copied
    /\ Proven
    /\ Verified
    /\ Covered

-----------------------------------------------------------------------------
LEMMA RetentionInit0 == RetentionInit => RetentionInv
<1> SUFFICES ASSUME RetentionInit PROVE RetentionInv OBVIOUS
<1> USE RetentionAssumption DEF RetentionInit
<1>1. NoRow \in Row /\ NoBackup \in Backup /\ NoEvidence \in Evidence /\ NoJob \in Job
  BY DEF NoRow, Row, NoBackup, Backup, Tables, NoEvidence, Evidence, NoJob, Job, JobSteps, Ids
<1>2. RetentionTypeOK BY <1>1 DEF RetentionTypeOK, Tables
<1>3. Identities BY <1>1 DEF Identities, NoBackup, NoEvidence
<1>4. job.step = "none" BY DEF NoJob
<1>5. JobSound BY <1>4 DEF JobSound, Pruning
<1>6. Proven BY DEF Proven, NoEvidence
<1>7. Verified BY DEF Verified
<1> QED BY <1>2, <1>3, <1>4, <1>5, <1>6, <1>7 DEF RetentionInv, Copied, Covered

-----------------------------------------------------------------------------
(* The writers.                                                            *)

\* A row gets an id that no provenance and no copy speaks of.
LEMMA InsertStep ==
    ASSUME RetentionInv, NEW s \in Snapshots \cup {None}, InsertRow(s)
    PROVE  RetentionInv'
<1> USE RetentionAssumption DEF RetentionInv, InsertRow, store
<1>1. ~Pruning BY DEF JobSound, Writers
<1>2. seq + 1 \in Ids /\ inserted + 1 \in 0..MaxInserts BY DEF RetentionTypeOK, Ids
<1>3. rows' \in Tables
  <2>1. [body |-> inserted + 1, review |-> 0, snap |-> s] \in Row BY <1>2 DEF Row
  <2> QED BY <2>1, <1>2 DEF RetentionTypeOK, Tables
<1>4. RetentionTypeOK' BY <1>2, <1>3 DEF RetentionTypeOK
<1>5. Identities' BY <1>2 DEF Identities, RetentionTypeOK, Backup
<1>6. JobSound' /\ Covered' BY <1>1 DEF JobSound, Covered, Pruning
<1>7. \A i \in 1..seq : rows'[i] = rows[i] BY DEF RetentionTypeOK, Tables, Ids
<1>8. Copied' BY <1>7 DEF Copied, RetentionTypeOK, Identities, Backup, JobSound
<1>9. Proven' BY <1>7 DEF Proven, RetentionTypeOK, Evidence
<1>10. Verified' BY DEF Verified
<1> QED BY <1>4, <1>5, <1>6, <1>8, <1>9, <1>10

LEMMA ReviewStep ==
    ASSUME RetentionInv, NEW i \in Ids, Review(i)
    PROVE  RetentionInv'
<1> USE RetentionAssumption DEF RetentionInv, Review, store
<1>1. ~Pruning BY DEF JobSound, Writers
<1>2. rows' \in Tables /\ \A k \in Ids : rows'[k].body = rows[k].body
  BY DEF RetentionTypeOK, Tables, Row
<1>3. RetentionTypeOK' BY <1>2 DEF RetentionTypeOK
<1>4. Identities' /\ Verified' BY DEF Identities, Verified
<1>5. JobSound' /\ Covered' BY <1>1 DEF JobSound, Covered, Pruning
<1>6. \A k \in 1..seq : k \in Ids BY DEF RetentionTypeOK, Ids
<1>7. Copied' BY <1>2, <1>6 DEF Copied, RetentionTypeOK, Identities, Backup, JobSound
<1>8. Proven' BY <1>2, <1>6 DEF Proven, RetentionTypeOK, Evidence
<1> QED BY <1>3, <1>4, <1>5, <1>7, <1>8

-----------------------------------------------------------------------------
(* Steps that change nothing durable but snapshots.                        *)

LEMMA JobTypes ==
    /\ NoJob \in Job
    /\ NoJob.deleted = 0
    /\ \A n \in Names \cup {None} :
        /\ Fail([NoJob EXCEPT !.name = n]) \in Job
        /\ Fail([NoJob EXCEPT !.name = n]).step = "failed"
    /\ \A j \in Job :
        /\ Fail(j) \in Job /\ Fail(j).step = "failed"
        /\ Done(j) \in Job /\ Done(j).step = "done"
        /\ [Done(j) EXCEPT !.deferred = TRUE] \in Job
        /\ [Done(j) EXCEPT !.deferred = TRUE].step = "done"
<1> USE RetentionAssumption
<1>1. NoJob \in Job /\ NoJob.deleted = 0 BY DEF NoJob, Job, JobSteps
<1>2. ASSUME NEW j \in Job
      PROVE  Fail(j) \in Job /\ Fail(j).step = "failed"
  <2>1. [NoJob EXCEPT !.step = "failed", !.name = j.name] \in Job
    BY <1>1 DEF Job, JobSteps
  <2>2. [NoJob EXCEPT !.step = "failed", !.name = j.name].step = "failed"
    BY <1>1 DEF Job
  <2> QED BY <2>1, <2>2 DEF Fail
<1>3. ASSUME NEW n \in Names \cup {None}
      PROVE  Fail([NoJob EXCEPT !.name = n]) \in Job
             /\ Fail([NoJob EXCEPT !.name = n]).step = "failed"
  <2>1. [NoJob EXCEPT !.name = n] \in Job BY <1>1 DEF Job
  <2> QED BY <2>1, <1>2
<1>4. ASSUME NEW j \in Job
      PROVE  /\ Done(j) \in Job /\ Done(j).step = "done"
             /\ [Done(j) EXCEPT !.deferred = TRUE] \in Job
             /\ [Done(j) EXCEPT !.deferred = TRUE].step = "done"
  BY DEF Job, JobSteps, Done
<1> QED BY <1>1, <1>2, <1>3, <1>4

\* The job ends, or goes on to a step about which JobSound says nothing more.
LEMMA QuietStep ==
    ASSUME RetentionInv, UNCHANGED <<rows, seq, inserted, db, store>>,
           snaps' \subseteq snaps, up' \subseteq Writers,
           job' \in Job, JobSound', Covered',
           job'.step = "published" => job' = job
    PROVE  RetentionInv'
<1> USE RetentionAssumption DEF RetentionInv, store
<1>1. RetentionTypeOK' BY DEF RetentionTypeOK
<1>2. Identities' /\ Verified' BY DEF Identities, Verified
<1>3. Copied' BY DEF Copied
<1>4. Proven' BY DEF Proven
<1> QED BY <1>1, <1>2, <1>3, <1>4

\* A job that is over, or is not yet about to delete.
LEMMA IdleStep ==
    ASSUME RetentionInv, UNCHANGED <<rows, seq, inserted, db, store>>,
           snaps' \subseteq snaps, up' \subseteq Writers,
           job' \in Job,
           \/ job'.step \in {"none", "failed", "done"}
           \/ job'.step = "copy" /\ job'.name \in Names /\ files < MaxFiles
           \/ job'.step = "verify" /\ job'.name \in Names /\ job'.seen > 0
    PROVE  RetentionInv'
<1>1. JobSound' BY DEF JobSound, Pruning, store
<1>2. Covered' BY DEF Covered
<1> QED BY <1>1, <1>2, QuietStep

LEMMA StopDeletingStep == RetentionInv /\ StopDeleting => RetentionInv'
<1> SUFFICES ASSUME RetentionInv, StopDeleting PROVE RetentionInv' OBVIOUS
<1> USE DEF StopDeleting, data
<1>1. job \in Job /\ up \subseteq Writers BY DEF RetentionInv, RetentionTypeOK
<1>2. CASE job' = [Done(job) EXCEPT !.deferred = TRUE]
  BY <1>1, <1>2, JobTypes, IdleStep
<1>3. CASE job' = [job EXCEPT !.step = "clean", !.exhausted = TRUE]
  <2>1. job' \in Job /\ job'.step = "clean" /\ job'.name = job.name
    BY <1>1, <1>3 DEF Job, JobSteps
  <2>2. JobSound' BY <2>1 DEF RetentionInv, JobSound, Pruning
  <2>3. Covered' BY <2>1 DEF Covered
  <2> QED BY <1>1, <2>1, <2>2, <2>3, QuietStep
<1> QED BY <1>2, <1>3

LEMMA CleanStep == RetentionInv /\ CleanOrphans => RetentionInv'
<1> SUFFICES ASSUME RetentionInv, CleanOrphans PROVE RetentionInv' OBVIOUS
<1>1. job \in Job /\ up \subseteq Writers BY DEF RetentionInv, RetentionTypeOK
<1>2. snaps' \subseteq snaps BY DEF CleanOrphans
<1>3. job' \in Job /\ job'.step \in {"done", "failed"} BY <1>1, JobTypes DEF CleanOrphans
<1> QED BY <1>1, <1>2, <1>3, IdleStep DEF CleanOrphans

\* Jobs that fail, are reaped or are refused, and writers that are switched.
LEMMA EndStep ==
    ASSUME RetentionInv, UNCHANGED <<data, store>>,
           \/ JobFails
           \/ Reap
           \/ \E ws \in SUBSET Writers : SwitchWriters(ws)
    PROVE  RetentionInv'
<1>1. job \in Job /\ up \subseteq Writers BY DEF RetentionInv, RetentionTypeOK
<1>2. CASE JobFails BY <1>1, <1>2, JobTypes, IdleStep DEF JobFails, data
<1>3. CASE Reap
  BY <1>1, <1>3, JobTypes, IdleStep DEF Reap, data, NoJob
<1>4. ASSUME NEW ws \in SUBSET Writers, SwitchWriters(ws) PROVE RetentionInv'
  <2>1. up' \subseteq Writers /\ job' = job /\ ~Pruning BY <1>1, <1>4 DEF SwitchWriters
  <2>2. JobSound' BY <2>1 DEF RetentionInv, JobSound, Pruning, store
  <2>3. Covered' BY <2>1 DEF Covered, Pruning
  <2> QED BY <1>1, <2>1, <2>2, <2>3, QuietStep DEF data
<1> QED BY <1>2, <1>3, <1>4

LEMMA StartBackupStep ==
    ASSUME RetentionInv, NEW n \in Names, StartBackup(n)
    PROVE  RetentionInv'
<1>1. up \subseteq Writers BY DEF RetentionInv, RetentionTypeOK
<1>2. CASE job' = Fail([NoJob EXCEPT !.name = n])
  BY <1>1, <1>2, JobTypes, IdleStep DEF StartBackup, data
<1>3. CASE job' = [NoJob EXCEPT !.step = "copy", !.name = n]
  <2>1. job' \in Job /\ job'.step = "copy" /\ job'.name = n
    <3>1. NoJob \in Job /\ "copy" \in JobSteps BY JobTypes DEF JobSteps
    <3> QED BY <1>3, <3>1 DEF Job
  <2> QED BY <1>1, <2>1, IdleStep DEF StartBackup, data
<1> QED BY <1>2, <1>3 DEF StartBackup

LEMMA StartVerifyStep ==
    ASSUME RetentionInv, NEW n \in Names, StartVerify(n)
    PROVE  RetentionInv'
<1>1. up \subseteq Writers BY DEF RetentionInv, RetentionTypeOK
<1>2. CASE ~ProvenanceHolds(n)
  BY <1>1, <1>2, JobTypes, IdleStep DEF StartVerify, data
<1>3. CASE ProvenanceHolds(n)
  <2>1. backups[n].file \in 1..MaxFiles
    BY <1>3 DEF ProvenanceHolds, RetentionInv, Identities, Backup
  <2> DEFINE f == backups[n].file
  <2>2. job' = [NoJob EXCEPT !.step = "verify", !.name = n, !.seen = f] /\ f \in 0..MaxFiles
    BY <1>3, <2>1 DEF StartVerify
  <2>3. f > 0 BY <2>1
  <2> HIDE DEF f
  <2>4. job' \in Job /\ job'.step = "verify" /\ job'.name = n /\ job'.seen > 0
    <3>1. NoJob \in Job /\ "verify" \in JobSteps BY JobTypes DEF JobSteps
    <3> QED BY <2>2, <2>3, <3>1 DEF Job
  <2> QED BY <1>1, <2>4, IdleStep DEF StartVerify, data
<1> QED BY <1>2, <1>3

LEMMA PresentFinite ==
    ASSUME RetentionTypeOK
    PROVE  /\ IsFiniteSet(Ids) /\ Cardinality(Ids) = MaxInserts
           /\ IsFiniteSet(Present) /\ Cardinality(Present) \in 0..MaxInserts
<1>1. IsFiniteSet(Ids) /\ Cardinality(Ids) = MaxInserts
  BY RetentionAssumption, FS_Interval DEF Ids
<1>2. IsFiniteSet(Present) /\ Cardinality(Present) <= Cardinality(Ids)
  BY <1>1, FS_Subset DEF Present
<1>3. Cardinality(Present) \in Nat BY <1>2, FS_CardinalityType
<1> QED BY <1>1, <1>2, <1>3, RetentionAssumption

\* The evidence that authorizes a prune says that its rows are in the backup.
LEMMA AuthorizedIsHeld ==
    ASSUME RetentionInv, NEW n \in Names, NEW cutoff \in 0..seq, NEW reviewed \in BOOLEAN,
           Authorizes(n, cutoff, reviewed)
    PROVE  Holds(backups[n], cutoff, reviewed)
<1> USE DEF RetentionInv, Authorizes, ManifestHolds, RowsInBackup, ProvenanceHolds
<1>1. backups[n].sound BY DEF Verified
<1>2. ASSUME NEW i \in Eligible(cutoff, reviewed)
      PROVE  /\ backups[n].rows[i].body = rows[i].body
             /\ rows[i].review # 0 => backups[n].rows[i].review = rows[i].review
  <2>1. i \in 1..prov[n].seq /\ rows[i].body # 0
    BY DEF Eligible, RetentionTypeOK, Evidence
  <2> QED BY <2>1 DEF Proven
<1> QED BY <1>1, <1>2 DEF Holds

LEMMA StartPruneStep ==
    ASSUME RetentionInv, NEW n \in Names, NEW cutoff \in 0..seq, NEW reviewed \in BOOLEAN,
           StartPrune(n, cutoff, reviewed), up = {}
    PROVE  RetentionInv'
<1>1. up \subseteq Writers BY DEF RetentionInv, RetentionTypeOK
<1>2. CASE ~Authorizes(n, cutoff, reviewed)
  BY <1>1, <1>2, JobTypes, IdleStep DEF StartPrune, data
<1>3. CASE Authorizes(n, cutoff, reviewed)
  <2>1. cutoff \in 0..MaxInserts BY RetentionAssumption DEF RetentionInv, RetentionTypeOK
  <2>2. /\ job' \in Job /\ job'.step = "delete" /\ job'.name = n
        /\ job'.cutoff = cutoff /\ job'.reviewed = reviewed /\ job'.deleted = 0
    <3>1. NoJob \in Job /\ "delete" \in JobSteps /\ NoJob.deleted = 0
      BY JobTypes DEF JobSteps, NoJob
    <3>2. job' = [NoJob EXCEPT !.step = "delete", !.name = n, !.cutoff = cutoff,
                               !.reviewed = reviewed]
      BY <1>3 DEF StartPrune
    <3> QED BY <2>1, <3>1, <3>2 DEF Job
  <2>3. JobSound'
    BY <2>2, PresentFinite DEF StartPrune, data, RetentionInv, JobSound, Pruning, Present
  <2>4. Holds(backups[n], cutoff, reviewed) BY <1>3, AuthorizedIsHeld
  <2>5. Covered'
    BY <2>2, <2>4 DEF StartPrune, data, store, Covered, Holds, Eligible
  <2> QED BY <1>1, <2>2, <2>3, <2>5, QuietStep DEF StartPrune, data
<1> QED BY <1>2, <1>3

-----------------------------------------------------------------------------
(* backup and verify-backup.                                               *)

LEMMA CopyTypes ==
    ASSUME RetentionInv, NEW sound \in BOOLEAN, files < MaxFiles
    PROVE  /\ CopyOfDatabase(sound) \in Backup
           /\ CopyOfDatabase(sound).file = files + 1 /\ files + 1 \in 1..MaxFiles
           /\ CopyOfDatabase(sound).seq = seq
           /\ CopyOfDatabase(sound).rows = rows /\ CopyOfDatabase(sound).sound = sound
<1> USE RetentionAssumption DEF RetentionInv, RetentionTypeOK
<1>1. files + 1 \in 1..MaxFiles OBVIOUS
<1> QED BY <1>1 DEF CopyOfDatabase, Backup

\* A name that gets a file nobody has seen before: no evidence speaks of it.
LEMMA NewFile ==
    ASSUME RetentionInv, NEW n \in Names, NEW b \in Backup, files < MaxFiles,
           b.file = files + 1, b.seq <= inserted,
           files' = files + 1, backups' = [backups EXCEPT ![n] = b],
           UNCHANGED <<data, prov, manifest, up>>, job' \in Job
    PROVE  RetentionTypeOK' /\ Identities' /\ Proven' /\ Verified'
<1> USE RetentionAssumption DEF RetentionInv, data
<1>1. backups' \in [Names -> Backup] BY DEF Identities
<1>2. RetentionTypeOK' BY <1>1 DEF RetentionTypeOK
<1>3. Identities'
  <2>1. ASSUME NEW m \in Names
        PROVE  /\ backups'[m].file <= files' /\ backups'[m].seq <= inserted'
               /\ backups'[m] # NoBackup => backups'[m].file > 0
    <3>1. CASE m = n BY <3>1 DEF Identities, RetentionTypeOK
    <3>2. CASE m # n BY <3>2 DEF Identities, RetentionTypeOK, Backup
    <3> QED BY <3>1, <3>2
  <2>2. ASSUME NEW m \in Names
        PROVE  prov'[m].file <= files' /\ manifest'[m].file <= files'
    BY DEF Identities, RetentionTypeOK, Evidence
  <2> QED BY <1>1, <2>1, <2>2 DEF Identities
<1>4. /\ \A m \in Names : prov[m].file # files + 1 /\ manifest[m].file # files + 1
      /\ backups'[n].file = files + 1
      /\ \A m \in Names \ {n} : backups'[m] = backups[m]
  BY DEF Identities, RetentionTypeOK, Evidence
<1>5. Proven' BY <1>4 DEF Proven
<1>6. Verified' BY <1>4 DEF Verified
<1> QED BY <1>2, <1>3, <1>5, <1>6

LEMMA PublishStep ==
    ASSUME RetentionInv, NEW sound \in BOOLEAN, PublishBackup(sound)
    PROVE  RetentionInv'
<1> DEFINE n == job.name
<1> USE DEF PublishBackup
<1>1. n \in Names /\ files < MaxFiles /\ job \in Job /\ inserted \in Nat /\ seq \in Nat /\ seq <= inserted
  BY RetentionAssumption DEF RetentionInv, RetentionTypeOK, JobSound
<1>2. job' \in Job /\ job'.step = "published" /\ job'.name = n
  BY <1>1 DEF Job, JobSteps
<1>3. RetentionTypeOK' /\ Identities' /\ Proven' /\ Verified'
  BY <1>1, <1>2, CopyTypes, NewFile
<1>4. JobSound' /\ Covered' BY <1>1, <1>2 DEF JobSound, Covered, Pruning
<1>5. backups'[n] = CopyOfDatabase(sound) BY <1>1 DEF RetentionInv, Identities
<1>6. Copied' BY <1>1, <1>2, <1>5, CopyTypes DEF Copied, data
<1> QED BY <1>3, <1>4, <1>6 DEF RetentionInv

LEMMA ProvenanceStep == RetentionInv /\ WriteProvenance => RetentionInv'
<1> SUFFICES ASSUME RetentionInv, WriteProvenance PROVE RetentionInv' OBVIOUS
<1> DEFINE n == job.name
           e == [db |-> db, file |-> backups[n].file, seq |-> seq]
<1> USE RetentionAssumption DEF RetentionInv, WriteProvenance, data
<1>1. n \in Names /\ job \in Job BY DEF RetentionTypeOK, JobSound
<1>2. e \in Evidence /\ e.db = db /\ e.file = backups[n].file /\ e.seq = seq
  BY <1>1 DEF RetentionTypeOK, Evidence, Backup
<1> HIDE DEF e
<1>3. /\ prov' = [prov EXCEPT ![n] = e] /\ prov' \in [Names -> Evidence] /\ prov'[n] = e
      /\ \A m \in Names \ {n} : prov'[m] = prov[m]
  BY <1>1, <1>2 DEF RetentionTypeOK, e
<1>4. job' \in Job /\ job'.step = "done" BY <1>1, JobTypes
<1>5. RetentionTypeOK' BY <1>3, <1>4 DEF RetentionTypeOK
<1>6. JobSound' /\ Covered' /\ Copied' BY <1>4 DEF JobSound, Covered, Copied, Pruning
<1>7. backups[n].file > 0 /\ backups[n].file <= files /\ db \in Nat
  BY <1>1 DEF Copied, Identities, RetentionTypeOK
<1>8. Identities'
  <2>1. ASSUME NEW m \in Names
        PROVE  /\ prov'[m].file <= files /\ prov'[m].db <= db
               /\ prov'[m] # NoEvidence => prov'[m].file > 0
    BY <1>2, <1>3, <1>7 DEF Identities
  <2> QED BY <2>1 DEF Identities
<1>9. \A i \in 1..seq : rows[i].body = backups[n].rows[i].body BY DEF Copied
<1>10. Proven'
  <2>1. ASSUME NEW m \in Names, prov'[m].db = db, prov'[m].file = backups[m].file
        PROVE  /\ prov'[m].seq <= seq
               /\ \A i \in 1..prov'[m].seq : rows[i].body \in {0, backups[m].rows[i].body}
    <3>1. CASE m = n BY <3>1, <1>2, <1>3, <1>9 DEF RetentionTypeOK
    <3>2. CASE m # n BY <3>2, <2>1, <1>3 DEF Proven
    <3> QED BY <3>1, <3>2
  <2> QED BY <2>1 DEF Proven
<1>11. Verified' BY DEF Verified
<1> QED BY <1>5, <1>6, <1>8, <1>10, <1>11

LEMMA WithdrawStep == RetentionInv /\ WithdrawBackup => RetentionInv'
<1> SUFFICES ASSUME RetentionInv, WithdrawBackup PROVE RetentionInv' OBVIOUS
<1> DEFINE n == job.name
<1> USE RetentionAssumption DEF RetentionInv, WithdrawBackup, data
<1>1. n \in Names /\ job \in Job BY DEF RetentionTypeOK, JobSound
<1>2. NoBackup \in Backup /\ NoBackup.file = 0 /\ NoBackup.seq = 0
  BY DEF NoBackup, Backup, Tables, NoRow, Row, Ids
<1>3. /\ backups' \in [Names -> Backup] /\ backups'[n] = NoBackup
      /\ \A m \in Names \ {n} : backups'[m] = backups[m]
  BY <1>1, <1>2 DEF Identities
<1>4. job' \in Job /\ job'.step = "failed" BY <1>1, JobTypes
<1>5. RetentionTypeOK' BY <1>3, <1>4 DEF RetentionTypeOK
<1>6. JobSound' /\ Covered' /\ Copied' BY <1>4 DEF JobSound, Covered, Copied, Pruning
<1>7. Identities'
  <2>1. ASSUME NEW m \in Names
        PROVE  /\ backups'[m].file <= files /\ backups'[m].seq <= inserted
               /\ backups'[m] # NoBackup => backups'[m].file > 0
    BY <1>2, <1>3 DEF Identities, RetentionTypeOK
  <2> QED BY <2>1, <1>3 DEF Identities
<1>8. \A m \in Names : /\ prov[m].db = db => prov[m].file # 0
                       /\ manifest[m] # NoEvidence => manifest[m].file # 0
  BY DEF Identities, RetentionTypeOK, Evidence, NoEvidence
<1>9. Proven' /\ Verified' BY <1>2, <1>3, <1>8 DEF Proven, Verified
<1> QED BY <1>5, <1>6, <1>7, <1>9

LEMMA FinishVerifyStep == RetentionInv /\ FinishVerify => RetentionInv'
<1> SUFFICES ASSUME RetentionInv, FinishVerify PROVE RetentionInv' OBVIOUS
<1> DEFINE n == job.name
           e == [db |-> db, file |-> backups[n].file, seq |-> seq]
<1> USE RetentionAssumption DEF RetentionInv
<1>1. n \in Names /\ job \in Job /\ up \subseteq Writers
  BY DEF RetentionTypeOK, JobSound, FinishVerify
<1>2. CASE job' = Fail(job) /\ UNCHANGED manifest
  BY <1>1, <1>2, JobTypes, IdleStep DEF FinishVerify, data, store
<1>3. CASE /\ backups[n].sound /\ backups[n].file = job.seen
           /\ manifest' = [manifest EXCEPT ![n] = e] /\ job' = Done(job)
  <2>1. e \in Evidence /\ e.file = backups[n].file /\ e.file > 0 /\ e.file <= files
    BY <1>1, <1>3 DEF RetentionTypeOK, Evidence, Backup, Identities, JobSound, FinishVerify
  <2> HIDE DEF e
  <2>2. /\ manifest' \in [Names -> Evidence] /\ manifest'[n] = e
        /\ \A m \in Names \ {n} : manifest'[m] = manifest[m]
    BY <1>1, <1>3, <2>1 DEF RetentionTypeOK
  <2>3. job' \in Job /\ job'.step = "done" BY <1>1, <1>3, JobTypes
  <2> USE DEF FinishVerify, data
  <2>4. RetentionTypeOK' BY <2>2, <2>3 DEF RetentionTypeOK
  <2>5. JobSound' /\ Covered' /\ Copied' BY <2>3 DEF JobSound, Covered, Copied, Pruning
  <2>6. Identities' BY <2>1, <2>2 DEF Identities
  <2>7. Proven' BY DEF Proven
  <2>8. Verified' BY <1>3, <2>2 DEF Verified
  <2> QED BY <2>4, <2>5, <2>6, <2>7, <2>8
<1> QED BY <1>2, <1>3 DEF FinishVerify

-----------------------------------------------------------------------------
(* prune.                                                                  *)

\* A copy made for the prune itself holds everything.
LEMMA InlinePruneStep ==
    ASSUME RetentionInv, NEW n \in Names, NEW cutoff \in 0..seq, NEW reviewed \in BOOLEAN,
           StartInlinePrune(n, cutoff, reviewed), up = {}
    PROVE  RetentionInv'
<1>1. /\ cutoff \in 0..MaxInserts /\ cutoff <= seq
      /\ seq \in Nat /\ inserted \in Nat /\ seq <= inserted
  BY RetentionAssumption DEF RetentionInv, RetentionTypeOK
<1>2. /\ job' = [NoJob EXCEPT !.step = "delete", !.name = n, !.cutoff = cutoff,
                              !.reviewed = reviewed]
      /\ backups' = [backups EXCEPT ![n] = CopyOfDatabase(TRUE)]
      /\ files < MaxFiles /\ files' = files + 1
      /\ UNCHANGED <<rows, seq, snaps, inserted, db, prov, manifest, up>>
  BY DEF StartInlinePrune, data
<1>3. /\ job' \in Job /\ job'.step = "delete" /\ job'.name = n
      /\ job'.cutoff = cutoff /\ job'.reviewed = reviewed /\ job'.deleted = 0
  <2>1. job' = [NoJob EXCEPT !.step = "delete", !.name = n, !.cutoff = cutoff,
                             !.reviewed = reviewed]
    BY <1>2
  <2>2. cutoff \in 0..MaxInserts /\ "delete" \in JobSteps BY <1>1 DEF JobSteps
  <2>3. NoJob \in Job /\ NoJob.deleted = 0 BY JobTypes
  <2>4. job' \in Job BY <2>1, <2>2, <2>3 DEF Job
  <2>5. /\ job'.step = "delete" /\ job'.name = n
        /\ job'.cutoff = cutoff /\ job'.reviewed = reviewed /\ job'.deleted = 0
    BY <2>1, <2>3 DEF Job
  <2> QED BY <2>4, <2>5
<1>4. RetentionTypeOK' /\ Identities' /\ Proven' /\ Verified'
  BY <1>1, <1>2, <1>3, CopyTypes, NewFile DEF data
<1>5. JobSound'
  BY <1>2, <1>3, PresentFinite DEF RetentionInv, JobSound, Pruning, Present
<1>6. backups'[n] = CopyOfDatabase(TRUE) BY <1>2 DEF RetentionInv, Identities
<1>7. Holds(backups'[n], cutoff, reviewed) BY <1>2, <1>6, CopyTypes DEF Holds
<1>8. Covered'
  <2>1. Eligible(cutoff, reviewed)' = Eligible(cutoff, reviewed) BY <1>2 DEF Eligible
  <2>2. cutoff <= seq' /\ rows' = rows BY <1>1, <1>2
  <2>3. Eligible(job.cutoff, job.reviewed)' = Eligible(cutoff, reviewed)
    BY <1>3, <2>1 DEF Eligible
  <2>4. backups'[job'.name] = backups'[n] BY <1>3
  <2> QED BY <1>3, <1>7, <2>2, <2>3, <2>4 DEF Covered, Holds
<1> QED BY <1>3, <1>4, <1>5, <1>8 DEF RetentionInv, Copied

LEMMA BatchFacts ==
    ASSUME RetentionInv, job.step = "delete", NEW limit
    PROVE  /\ Batch(limit) \subseteq Present
           /\ Batch(limit) \subseteq Eligible(job.cutoff, job.reviewed)
           /\ IsFiniteSet(Batch(limit)) /\ Cardinality(Batch(limit)) \in Nat
           /\ Cardinality(Present \ Batch(limit)) =
                Cardinality(Present) - Cardinality(Batch(limit))
<1> DEFINE B == Batch(limit)
<1>1. job.cutoff <= seq /\ job.cutoff \in Nat /\ seq <= MaxInserts /\ seq \in Nat
  BY RetentionAssumption DEF RetentionInv, Covered, RetentionTypeOK, Job
<1>2. Eligible(job.cutoff, job.reviewed) \subseteq Present
  BY <1>1, RetentionAssumption DEF Eligible, Present, Ids
<1>3. B \subseteq Eligible(job.cutoff, job.reviewed) BY DEF Batch
<1> HIDE DEF B
<1>4. IsFiniteSet(Present) BY PresentFinite DEF RetentionInv
<1>5. B \subseteq Present BY <1>2, <1>3
<1>6. IsFiniteSet(B) /\ Cardinality(B) \in Nat
  BY <1>4, <1>5, FS_Subset, FS_CardinalityType
<1>7. Cardinality(Present \ B) = Cardinality(Present) - Cardinality(Present \cap B)
  BY <1>4, FS_Difference
<1>8. Present \cap B = B BY <1>5
<1> QED BY <1>3, <1>5, <1>6, <1>7, <1>8 DEF B

\* A batch that is not full has taken everything: the first row it left out would
\* have fewer than limit rows before it.
LEMMA ShortBatchIsAll ==
    ASSUME RetentionInv, job.step = "delete", NEW limit \in 1..BatchSize,
           Cardinality(Batch(limit)) < limit
    PROVE  Batch(limit) = Eligible(job.cutoff, job.reviewed)
<1> DEFINE E == Eligible(job.cutoff, job.reviewed)
           B == Batch(limit)
<1>1. job.cutoff \in Nat /\ limit \in Nat
  BY RetentionAssumption DEF RetentionInv, RetentionTypeOK, Job
<1>2. E \subseteq Nat BY <1>1 DEF Eligible
<1>3. B = {i \in E : Cardinality({k \in E : k < i}) < limit} BY DEF Batch
<1>b. IsFiniteSet(B) /\ Cardinality(B) \in Nat /\ Cardinality(B) < limit BY BatchFacts
<1>4. SUFFICES ASSUME E \ B # {} PROVE FALSE
  <2> HIDE DEF E
  <2> QED BY <1>3 DEF E
<1> HIDE DEF E, B
<1>5. PICK i \in E \ B : \A k \in E \ B : <<k, i>> \notin OpToRel(<, Nat)
  BY <1>2, <1>4, WFMin, NatLessThanWellFounded
<1>6. {k \in E : k < i} \subseteq B BY <1>2, <1>5 DEF OpToRel
<1>7. /\ IsFiniteSet({k \in E : k < i})
      /\ Cardinality({k \in E : k < i}) <= Cardinality(B)
  BY <1>6, <1>b, FS_Subset
<1>8. Cardinality({k \in E : k < i}) < limit
  BY <1>1, <1>7, <1>b, FS_CardinalityType
<1> QED BY <1>3, <1>5, <1>8

LEMMA BatchFrame ==
    ASSUME DeleteBatch
    PROVE  job.step = "delete" /\ UNCHANGED <<seq, snaps, inserted, db, store, up>>
BY Zenon DEF DeleteBatch

\* One batch, with the limit it had and where it leads.
LEMMA BatchTaken ==
    ASSUME DeleteBatch
    PROVE  \E limit \in 1..BatchSize, step \in {"delete", "limited", "clean"} :
               /\ rows' = RowsWithout(Batch(limit))
               /\ step = "clean" <=> Cardinality(Batch(limit)) < limit
               /\ job' = [job EXCEPT !.deleted = @ + Cardinality(Batch(limit)),
                                     !.exhausted = Cardinality(Batch(limit)) < limit,
                                     !.step = step]
BY ZenonT(60) DEF DeleteBatch

LEMMA DeleteStep == RetentionInv /\ DeleteBatch => RetentionInv'
<1> SUFFICES ASSUME RetentionInv, DeleteBatch PROVE RetentionInv' OBVIOUS
<1>0. job.step = "delete" /\ UNCHANGED <<seq, snaps, inserted, db, store, up>>
  BY BatchFrame
<1>a. PICK limit \in 1..BatchSize, s \in {"delete", "limited", "clean"} :
        /\ rows' = RowsWithout(Batch(limit))
        /\ job' = [job EXCEPT !.deleted = @ + Cardinality(Batch(limit)),
                              !.exhausted = Cardinality(Batch(limit)) < limit,
                              !.step = s]
  BY BatchTaken, Zenon
<1> DEFINE B == Batch(limit)
           m == Cardinality(B)
<1> USE RetentionAssumption, <1>0 DEF store
<1>1. m \in Nat /\ Cardinality(Present \ B) = Cardinality(Present) - m
      /\ B \subseteq Present
  BY BatchFacts
<1>2. /\ job \in Job /\ job.name \in Names /\ up = {}
      /\ job.deleted + Cardinality(Present) <= MaxInserts
      /\ Cardinality(Present) \in Nat /\ m <= Cardinality(Present)
  <2>1. IsFiniteSet(Present) BY PresentFinite DEF RetentionInv
  <2>2. Cardinality(Present \ B) \in Nat
    BY <2>1, FS_Difference, FS_CardinalityType
  <2> HIDE DEF B, m
  <2> QED BY <1>1, <2>2, PresentFinite DEF RetentionInv, RetentionTypeOK, JobSound, Pruning
<1>4. /\ rows' = RowsWithout(B)
      /\ job' = [job EXCEPT !.deleted = @ + m, !.exhausted = m < limit, !.step = s]
  BY <1>a
<1> HIDE DEF B, m
<1>3. job.deleted \in Nat /\ job.deleted + m \in 0..MaxInserts
  BY <1>1, <1>2 DEF Job
<1>5. job' \in Job
  <2> DEFINE d == job.deleted + m
             e == m < limit
  <2>1. job' = [job EXCEPT !.deleted = d, !.exhausted = e, !.step = s] BY <1>2, <1>4 DEF Job
  <2>2. d \in 0..MaxInserts /\ e \in BOOLEAN /\ s \in JobSteps BY <1>3 DEF JobSteps
  <2> HIDE DEF d, e
  <2> QED BY <1>2, <2>1, <2>2 DEF Job
<1>6. /\ job'.name = job.name /\ job'.step \in {"delete", "limited", "clean"}
      /\ job'.cutoff = job.cutoff /\ job'.reviewed = job.reviewed
      /\ job'.deleted = job.deleted + m
  BY <1>2, <1>4 DEF Job
<1>7. rows' \in Tables /\ \A i \in Ids : rows'[i] = IF i \in B THEN NoRow ELSE rows[i]
  BY <1>4 DEF RowsWithout, RetentionInv, RetentionTypeOK, Tables, NoRow, Row
<1>8. RetentionTypeOK' BY <1>5, <1>7 DEF RetentionInv, RetentionTypeOK
<1>9. Identities' /\ Verified' BY DEF RetentionInv, Identities, Verified
<1>10. JobSound'
  <2>1. Present' = Present \ B BY <1>7 DEF Present, NoRow
  <2> QED BY <1>1, <1>2, <1>3, <1>6, <2>1 DEF RetentionInv, JobSound, Pruning
<1>11. Copied' BY <1>6 DEF Copied
<1>12. \A i \in 1..seq : i \in Ids /\ rows'[i].body \in {0, rows[i].body}
  BY <1>7 DEF RetentionInv, RetentionTypeOK, Ids, NoRow
<1>b. Proven /\ prov \in [Names -> Evidence] /\ seq \in Nat
  BY DEF RetentionInv, RetentionTypeOK
<1>13. Proven'
  <2>1. ASSUME NEW n \in Names, prov[n].db = db, prov[n].file = backups[n].file
        PROVE  /\ prov[n].seq <= seq
               /\ \A i \in 1..prov[n].seq : rows'[i].body \in {0, backups[n].rows[i].body}
    <3>a. prov[n] \in Evidence BY ONLY <1>b, <2>1
    <3>b. prov[n].seq \in Nat BY ONLY <3>a, RetentionAssumption DEF Evidence
    <3>c. /\ prov[n].seq <= seq
          /\ \A i \in 1..prov[n].seq : rows[i].body \in {0, backups[n].rows[i].body}
      BY ONLY <1>b, <2>1 DEF Proven
    <3>1. /\ prov[n].seq <= seq /\ prov[n].seq \in Nat /\ seq \in Nat
          /\ \A i \in 1..prov[n].seq : rows[i].body \in {0, backups[n].rows[i].body}
      BY ONLY <1>b, <3>b, <3>c
    <3>2. 1..prov[n].seq \subseteq 1..seq BY <3>1
    <3> QED BY <1>12, <3>1, <3>2
  <2> QED BY <2>1 DEF Proven
<1>14. Covered'
  <2>1. job.cutoff \in Nat /\ job.cutoff <= seq BY <1>2 DEF RetentionInv, Covered, Job
  <2>2. Eligible(job.cutoff, job.reviewed)' \subseteq Eligible(job.cutoff, job.reviewed)
    BY <1>6, <1>7, <2>1 DEF RetentionInv, RetentionTypeOK, Eligible, Ids, NoRow
  <2>3. \A i \in Eligible(job.cutoff, job.reviewed)' : rows'[i] = rows[i]
    BY <1>6, <1>7, <2>1 DEF RetentionInv, RetentionTypeOK, Eligible, Ids, NoRow
  <2> QED BY <1>6, <2>2, <2>3 DEF RetentionInv, Covered, Holds
<1> QED BY <1>8, <1>9, <1>10, <1>11, <1>13, <1>14 DEF RetentionInv

-----------------------------------------------------------------------------
(* The operator.                                                           *)

LEMMA ReplaceStep ==
    ASSUME RetentionInv, NEW n \in Names, NEW m \in Names, ReplaceBackup(n, m)
    PROVE  RetentionInv'
<1> DEFINE b == [backups[m] EXCEPT !.file = files + 1]
<1> USE DEF ReplaceBackup
<1>1. backups[m] \in Backup /\ files + 1 \in 0..MaxFiles /\ job \in Job
  BY RetentionAssumption DEF RetentionInv, Identities, RetentionTypeOK
<1>2. b \in Backup /\ b.file = files + 1 /\ b.seq = backups[m].seq
  BY <1>1 DEF Backup
<1>3. b.seq <= inserted BY <1>2 DEF RetentionInv, Identities
<1>4. backups' = [backups EXCEPT ![n] = b] OBVIOUS
<1> HIDE DEF b
<1>5. RetentionTypeOK' /\ Identities' /\ Proven' /\ Verified'
  BY <1>1, <1>2, <1>3, <1>4, NewFile
<1>6. JobSound' /\ Covered' /\ Copied'
  BY DEF RetentionInv, JobSound, Covered, Copied, Pruning
<1> QED BY <1>5, <1>6 DEF RetentionInv

\* No provenance speaks of the new database.
LEMMA RestoreStep ==
    ASSUME RetentionInv, NEW n \in Names, Restore(n)
    PROVE  RetentionInv'
<1> USE RetentionAssumption DEF RetentionInv, Restore, store
<1>1. backups[n] \in Backup /\ backups[n].seq <= inserted /\ db + 1 \in 1..(MaxRestores + 1)
  BY DEF Identities, RetentionTypeOK
<1>2. /\ rows' \in Tables /\ seq' \in 0..MaxInserts /\ inserted' \in seq'..MaxInserts
      /\ snaps' \subseteq Snapshots /\ db' \in 1..(MaxRestores + 1)
  BY <1>1 DEF Backup, RetentionTypeOK
<1>3. RetentionTypeOK' BY <1>2 DEF RetentionTypeOK
<1>4. \A k \in Names : prov[k].db <= db' /\ prov[k].db # db'
  BY DEF Identities, RetentionTypeOK, Evidence
<1>5. Identities' BY <1>4 DEF Identities
<1>6. Proven' BY <1>4 DEF Proven
<1>7. job'.step = "none" /\ job' = job BY DEF NoJob
<1>8. JobSound' /\ Covered' /\ Copied' BY <1>7 DEF JobSound, Covered, Copied, Pruning
<1>9. Verified' BY DEF Verified
<1> QED BY <1>3, <1>5, <1>6, <1>8, <1>9

-----------------------------------------------------------------------------
(* The theorems.                                                           *)

LEMMA MaintainStep == RetentionInv /\ (Maintain \/ JobFails) => RetentionInv'
<1> SUFFICES ASSUME RetentionInv, Maintain \/ JobFails PROVE RetentionInv' OBVIOUS
<1>1. CASE JobFails BY <1>1, EndStep DEF JobFails
<1>2. ASSUME NEW sound \in BOOLEAN, PublishBackup(sound) PROVE RetentionInv'
  BY <1>2, PublishStep
<1> QED
  BY <1>1, <1>2, ProvenanceStep, WithdrawStep, FinishVerifyStep, DeleteStep,
     StopDeletingStep, CleanStep DEF Maintain

LEMMA WorkStep == RetentionInv /\ Work => RetentionInv'
BY InsertStep, ReviewStep DEF Work

LEMMA RetentionInductive == RetentionInv /\ [RetentionNext]_retentionVars => RetentionInv'
<1> SUFFICES ASSUME RetentionInv, [RetentionNext]_retentionVars PROVE RetentionInv'
  OBVIOUS
<1>1. CASE Operator
  <2>1. ASSUME NEW n \in Names, NEW m \in Names, ReplaceBackup(n, m) PROVE RetentionInv'
    BY <2>1, ReplaceStep
  <2>2. ASSUME NEW n \in Names, Restore(n) PROVE RetentionInv'
    BY <2>2, RestoreStep
  <2>3. CASE \E ws \in SUBSET Writers : SwitchWriters(ws)
    BY <2>3, EndStep DEF SwitchWriters
  <2>4. CASE Command
    <3>1. PICK n \in Names :
            \/ StartBackup(n)
            \/ StartVerify(n)
            \/ \E cutoff \in 0..seq, reviewed \in BOOLEAN :
                up = {} /\ (StartPrune(n, cutoff, reviewed) \/ StartInlinePrune(n, cutoff, reviewed))
      BY <2>4 DEF Command
    <3> QED BY <3>1, StartBackupStep, StartVerifyStep, StartPruneStep, InlinePruneStep
  <2>5. CASE Reap BY <2>5, EndStep DEF Reap
  <2> QED BY <1>1, <2>1, <2>2, <2>3, <2>4, <2>5 DEF Operator
<1>2. CASE UNCHANGED retentionVars
  BY <1>2 DEF retentionVars, data, store, RetentionInv, RetentionTypeOK, Identities, JobSound,
     Copied, Proven, Verified, Covered, Holds, Eligible, Pruning, Present
<1> QED BY <1>1, <1>2, MaintainStep, WorkStep DEF RetentionNext

\* What the evidence beside the database means stays true over every command,
\* restore and exchange of files.
THEOREM EvidenceMeans == RetentionSpec => []RetentionInv
  BY RetentionInit0, RetentionInductive, PTL DEF RetentionSpec

\* The tables, the evidence and the maintenance job keep their shape; in
\* particular ids and counters stay within their bounds over restores.
THEOREM RetentionTypeCorrect == RetentionSpec => []RetentionTypeOK
  BY EvidenceMeans, PTL DEF RetentionInv

LEMMA DeletedIsHeld ==
    ASSUME RetentionInv, NEW i \in Ids, Deleted(i)
    PROVE  /\ backups[job.name].sound
           /\ backups[job.name].rows[i].body = rows[i].body
           /\ rows[i].review # 0 => backups[job.name].rows[i].review = rows[i].review
<1>1. job.step = "delete" BY BatchFrame DEF Deleted
<1>2. PICK limit \in 1..BatchSize : rows' = RowsWithout(Batch(limit)) BY BatchTaken, Zenon DEF Deleted
<1>3. i \in Batch(limit) BY <1>2 DEF Deleted, RowsWithout
<1>4. i \in Eligible(job.cutoff, job.reviewed) BY <1>1, <1>3, BatchFacts
<1> QED BY <1>1, <1>4 DEF RetentionInv, Covered, Holds

\* A prune deletes nothing that its backup does not hold, although the writers ran
\* since the backup was taken and verified, and databases and files may have been
\* exchanged in between.
THEOREM PrunesAreBackedUp == RetentionSpec => PrunedIsBackedUp
<1>1. RetentionInv /\ [RetentionNext]_retentionVars =>
        [\A i \in Ids : Deleted(i) =>
            LET b == backups[job.name] IN
            /\ b.sound
            /\ b.rows[i].body = rows[i].body
            /\ rows[i].review # 0 => b.rows[i].review = rows[i].review]_retentionVars
  BY DeletedIsHeld
<1> QED BY <1>1, EvidenceMeans, PTL DEF RetentionSpec, PrunedIsBackedUp
=============================================================================
