------------------------ MODULE RetentionCycleProofs ------------------------
(***************************************************************************)
(* Proofs about the unattended cycle: it maintains only beside stopped     *)
(* writers, its exit status says whether monitoring is back, its prunes    *)
(* delete only what its backup holds, and its success is real.             *)
(***************************************************************************)
EXTENDS RetentionCycle, RetentionProofs

\* What writersStopped tells of the phase and of the writers.
Monitored ==
    /\ pc \in {"stopping", "backup", "prune", "restoring", "recovering"} => writersStopped = TRUE
    /\ pc \in {"verify", "decide", "cooldown"} => writersStopped = FALSE
    /\ pc \in Working \cup Trapped /\ writersStopped = FALSE => up = Writers

CycleInv == Monitored /\ QuietMaintenance /\ writersStopped \in BOOLEAN

-----------------------------------------------------------------------------
\* Writers at work and a maintenance command leave the script and the writers'
\* containers as they are.
LEMMA WorkKeeps ==
    ASSUME Work \/ Maintain \/ JobFails
    PROVE  UNCHANGED up
<1>1. CASE Work
  BY <1>1 DEF Work, InsertRow, Review
<1>2. CASE Maintain
  BY <1>2, BatchFrame DEF Maintain, PublishBackup, WriteProvenance, WithdrawBackup,
              FinishVerify, StopDeleting, CleanOrphans
<1>3. CASE JobFails
  BY <1>3 DEF JobFails
<1> QED BY <1>1, <1>2, <1>3

\* The maintenance container is started beside writers in any state.
LEMMA RunJobKeeps ==
    ASSUME RunJob
    PROVE  UNCHANGED <<up, pc, writersStopped>>
BY DEF RunJob, StartBackup, StartVerify, StartPrune, scriptVars

LEMMA CycleInvInit == Init => CycleInv
BY DEF Init, RetentionInit, CycleInv, Monitored, QuietMaintenance, Working, Trapped

LEMMA CycleInductive == CycleInv /\ [Next]_vars => CycleInv'
<1> SUFFICES ASSUME CycleInv, [Next]_vars
             PROVE  CycleInv'
  OBVIOUS
<1> USE DEF CycleInv, Monitored, QuietMaintenance
<1>1. CASE (Work \/ Maintain \/ JobFails) /\ UNCHANGED scriptVars
  BY <1>1, WorkKeeps DEF scriptVars
<1>2. ASSUME NEW n \in Names, NEW k \in 0..seq, Launch(n, k)
      PROVE  CycleInv'
  BY <1>2 DEF Launch, BeginStop, retentionVars
<1>3. CASE Script
  <2>1. ASSUME NEW w \in Writers, StopWriter(w)
        PROVE  CycleInv'
    BY <2>1 DEF StopWriter, scriptVars, Working, Trapped
  <2>2. CASE Stopped
    BY <2>2 DEF Stopped, retentionVars, Working, Trapped
  <2>3. CASE Restored
    BY <2>3 DEF Restored, Working, Trapped
  <2>4. CASE AttemptFails
    BY <2>4 DEF AttemptFails, Working, Trapped
  <2>5. CASE RunJob
    BY <2>5, RunJobKeeps
  <2>6. CASE BackupDone \/ PruneDone
    BY <2>6 DEF BackupDone, PruneDone, BeginRestore, Working, Trapped
  <2>7. CASE VerifyDone
    BY <2>7 DEF VerifyDone, BeginStop, Working, Trapped
  <2>8. CASE Decide
    BY <2>8 DEF Decide, Working, Trapped
  <2>9. CASE NextPause
    BY <2>9 DEF NextPause, BeginStop, retentionVars, Working, Trapped
  <2>10. CASE Trap
    BY <2>10 DEF Trap, BeginRestore, retentionVars, Working, Trapped
  <2> QED BY <1>3, <2>1, <2>2, <2>3, <2>4, <2>5, <2>6, <2>7, <2>8, <2>9, <2>10 DEF Script
<1>4. CASE Recover
  BY <1>4 DEF Recover, Reap, SwitchWriters, scriptVars, Ended, Working, Trapped
<1>5. CASE Interrupt
  BY <1>5 DEF Interrupt, Working, Trapped
<1>6. CASE Kill
  BY <1>6 DEF Kill, retentionVars, Working, Trapped
<1>7. CASE UNCHANGED vars
  BY <1>7 DEF vars, retentionVars, scriptVars
<1> QED BY <1>1, <1>2, <1>3, <1>4, <1>5, <1>6, <1>7 DEF Next

-----------------------------------------------------------------------------
\* Theorem: what the script believes of the writers it stopped is true in every
\* phase, wherever it is interrupted.
THEOREM CycleInvHolds == Spec => []CycleInv
<1>1. Init => CycleInv
  BY CycleInvInit
<1>2. CycleInv /\ [Next]_vars => CycleInv'
  BY CycleInductive
<1> QED BY <1>1, <1>2, PTL DEF Spec

\* Theorem: no backup is copied and no row is deleted beside a running writer.
THEOREM MaintenanceQuiet == Spec => []QuietMaintenance
<1>1. CycleInv => QuietMaintenance
  BY DEF CycleInv
<1> QED BY <1>1, CycleInvHolds, PTL

\* An exit that claims nothing is wrong with the writers.
LEMMA ExitStep ==
    ASSUME CycleInv, Next, pc \notin Ended, pc' \in {"exited", "completed"}
    PROVE  up' = Writers
<1> USE DEF CycleInv, Monitored
<1>1. pc \in Working \cup Trapped /\ pc # pc' /\ pc' \notin Working \cup Trapped
  <2>1. pc # pc'
    BY DEF Ended
  <2>2. pc' \notin Working \cup Trapped
    BY DEF Working, Trapped
  <2>3. pc \in Working \cup Trapped
    BY <2>1, WorkKeeps DEF Next, scriptVars, Launch, Script, StopWriter, Stopped, Restored,
       AttemptFails, RunJob, BackupDone, VerifyDone, PruneDone, Decide, NextPause, Trap,
       Recover, Interrupt, Kill, Working, Trapped, Ended
  <2> QED BY <2>1, <2>2, <2>3
<1>2. Restored \/ Decide \/ Trap
  BY <1>1 DEF Next, scriptVars, Launch, BeginStop, Script, StopWriter, Stopped,
     AttemptFails, RunJob, BackupDone, BeginRestore, VerifyDone, PruneDone, NextPause,
     Recover, Interrupt, Kill, Working, Trapped, Ended
<1>3. CASE Restored
  BY <1>3 DEF Restored
<1>4. CASE Decide
  BY <1>4, <1>1 DEF Decide, Working
<1>5. CASE Trap
  BY <1>5, <1>1 DEF Trap, BeginRestore, retentionVars, Working, Trapped
<1> QED BY <1>2, <1>3, <1>4, <1>5

\* Theorem: unless it reports status 75 or is killed, the script ends with every
\* writer running.
THEOREM ExitTruthful == Spec => ExitTellsTruth
<1>1. CycleInv /\ [Next]_vars =>
        [pc \notin Ended /\ pc' \in {"exited", "completed"} => up' = Writers]_vars
  BY ExitStep
<1>2. Spec => [][Next]_vars
  BY DEF Spec
<1> QED BY <1>1, <1>2, CycleInvHolds, PTL DEF ExitTellsTruth

-----------------------------------------------------------------------------
(* The evidence in the cycle.  Every step of the cycle is one that an      *)
(* operator could take by hand, so RetentionInv carries over.              *)

ScriptTypes ==
    /\ pc \in Working \cup Trapped \cup Ended
    /\ target \in Names \cup {None} /\ (pc \in Working => target \in Names)
    /\ cutoff \in 0..MaxInserts /\ cutoff <= seq
    /\ cycle \in 0..MaxCycles
    /\ writersStopped \in BOOLEAN /\ attempted \in BOOLEAN
    /\ attempts \in 0..RecoveryAttempts
    /\ pc \in {"restoring", "recovering"} => attempts < RecoveryAttempts
    /\ pc = "verify" => cycle = 0

\* Which job a phase may find.
PhaseJob ==
    /\ job.step = "none" => job = NoJob
    /\ pc \in {"stopping", "cooldown"} => job = NoJob
    /\ pc = "prune" =>
        /\ job.step \in {"none", "delete", "limited", "clean", "failed", "done"}
        /\ job = NoJob \/ job.step = "failed" \/ (job.cutoff = cutoff /\ job.reviewed = FALSE)
    /\ pc \in {"restoring", "decide", "trap", "recovering"} => job = NoJob \/ job.step = "done"

\* What a result that counts as complete says, from the last batch to the decision.
Cleaned ==
    /\ \A i \in Ids : i > seq => rows[i].body = 0
    /\ pc = "prune" /\ job.step = "clean" => Eligible(cutoff, FALSE) = {}
    /\ pc \in {"prune", "restoring", "decide"} /\ job.step = "done"
            /\ job.exhausted /\ ~job.deferred =>
        Eligible(cutoff, FALSE) = {} /\ Orphans = {}

EvidenceInv == RetentionInv /\ CycleInv /\ ScriptTypes /\ PhaseJob /\ Cleaned

LEMMA Limits ==
    /\ MaxCycles \in Nat /\ 0 \in 0..MaxCycles /\ 1 \in 0..MaxCycles
    /\ RecoveryAttempts \in Nat /\ 0 \in 0..RecoveryAttempts /\ 0 < RecoveryAttempts
    /\ MaxInserts \in Nat /\ 0 \in 0..MaxInserts
BY RetentionAssumption, CycleAssumption

LEMMA EvidenceInit == Init => EvidenceInv
<1> SUFFICES ASSUME Init PROVE EvidenceInv OBVIOUS
<1>1. RetentionInv BY RetentionInit0 DEF Init
<1>2. CycleInv BY CycleInvInit
<1>3. ScriptTypes
  <2>1. cutoff \in 0..MaxInserts /\ cutoff <= seq BY Limits DEF Init, RetentionInit
  <2>2. writersStopped \in BOOLEAN /\ attempted \in BOOLEAN BY DEF Init
  <2>3. pc = "exited" /\ cycle = 0 /\ attempts = 0 /\ target = None BY DEF Init
  <2> QED BY <2>1, <2>2, <2>3, Limits DEF ScriptTypes, Working, Trapped, Ended
<1>4. PhaseJob BY DEF Init, RetentionInit, PhaseJob
<1>5. Cleaned BY DEF Init, RetentionInit, Cleaned, NoRow
<1> QED BY <1>1, <1>2, <1>3, <1>4, <1>5 DEF EvidenceInv

\* The containers of the writers are switched while nothing is deleted.
LEMMA SwitchedByHand ==
    ASSUME UNCHANGED <<data, store, job>>, up' \subseteq Writers, ~Pruning
    PROVE  RetentionNext
BY DEF RetentionNext, Operator, SwitchWriters

\* A command is over, and its result is forgotten.
LEMMA ReapedByHand ==
    ASSUME UNCHANGED <<data, store, up>>, job' = NoJob,
           job = NoJob \/ job.step \in {"failed", "done"}
    PROVE  [RetentionNext]_retentionVars
BY DEF RetentionNext, Operator, Reap, retentionVars

\* Each step of the script is a command, a switch of writers, the end of a
\* command, or none of them.
LEMMA ScriptByHand == EvidenceInv /\ Script => [RetentionNext]_retentionVars
<1> SUFFICES ASSUME EvidenceInv, Script PROVE [RetentionNext]_retentionVars OBVIOUS
<1> USE DEF EvidenceInv
<1>0. up \subseteq Writers BY DEF RetentionInv, RetentionTypeOK
<1>1. ASSUME NEW w \in Writers, StopWriter(w) PROVE RetentionNext
  <2>1. ~Pruning BY <1>1 DEF StopWriter, PhaseJob, NoJob, Pruning
  <2> QED BY <1>0, <1>1, <2>1, SwitchedByHand DEF StopWriter
<1>2. CASE Stopped \/ NextPause \/ Trap \/ PruneDone
  BY <1>2 DEF Stopped, NextPause, Trap, PruneDone, retentionVars
<1>3. CASE Restored \/ AttemptFails
  <2>1. ~Pruning BY <1>3 DEF Restored, AttemptFails, PhaseJob, NoJob, Pruning
  <2> QED BY <1>0, <1>3, <2>1, SwitchedByHand DEF Restored, AttemptFails
<1>4. CASE RunJob
  <2>1. target \in Names BY <1>4 DEF RunJob, ScriptTypes, Working
  <2>2. cutoff \in 0..seq
    BY RetentionAssumption DEF ScriptTypes, RetentionInv, RetentionTypeOK
  <2>3. pc \in {"backup", "prune"} => up = {} BY DEF CycleInv, QuietMaintenance
  <2>4. Command BY <1>4, <2>1, <2>2, <2>3 DEF RunJob, Command
  <2> QED BY <2>4 DEF RetentionNext, Operator
<1>5. CASE BackupDone \/ VerifyDone \/ Decide
  BY <1>5, ReapedByHand DEF BackupDone, VerifyDone, Decide, PhaseJob
<1> QED BY <1>1, <1>2, <1>3, <1>4, <1>5 DEF Script

LEMMA CycleByHand == EvidenceInv /\ [Next]_vars => [RetentionNext]_retentionVars
<1> SUFFICES ASSUME EvidenceInv, [Next]_vars PROVE [RetentionNext]_retentionVars OBVIOUS
<1>1. CASE Work \/ Maintain \/ JobFails BY <1>1 DEF RetentionNext
<1>2. ASSUME NEW n \in Names, NEW k \in 0..seq, Launch(n, k)
      PROVE  [RetentionNext]_retentionVars
  BY <1>2 DEF Launch
<1>3. CASE Recover BY <1>3 DEF Recover, RetentionNext, Operator
<1>4. CASE Interrupt
  BY <1>4, ReapedByHand DEF EvidenceInv, Interrupt, PhaseJob, Working
<1>5. CASE Kill \/ UNCHANGED vars BY <1>5 DEF Kill, vars
<1> QED BY <1>1, <1>2, <1>3, <1>4, <1>5, ScriptByHand DEF Next

LEMMA CycleKeepsEvidence == EvidenceInv /\ [Next]_vars => RetentionInv'
BY CycleByHand, RetentionInductive DEF EvidenceInv

\* No step of the cycle takes an id back.
LEMMA SequenceGrows ==
    ASSUME EvidenceInv, [Next]_vars
    PROVE  seq \in Nat /\ seq' \in Nat /\ seq <= seq'
<1>1. seq \in Nat BY RetentionAssumption DEF EvidenceInv, RetentionInv, RetentionTypeOK
<1>2. seq' = seq \/ seq' = seq + 1
  BY BatchFrame DEF Next, vars, retentionVars, data, store, Work, InsertRow, Review, Maintain,
     PublishBackup, WriteProvenance, WithdrawBackup, FinishVerify, StopDeleting,
     CleanOrphans, JobFails, Launch, Script, StopWriter, Stopped, Restored, AttemptFails,
     RunJob, StartBackup, StartVerify, StartPrune, BackupDone, VerifyDone, PruneDone, Decide,
     NextPause, Trap, Recover, Reap, SwitchWriters, Interrupt, Kill
<1> QED BY <1>1, <1>2

LEMMA ScriptTypesStep == EvidenceInv /\ [Next]_vars => ScriptTypes'
<1> SUFFICES ASSUME EvidenceInv, [Next]_vars PROVE ScriptTypes' OBVIOUS
<1> USE Limits DEF ScriptTypes, Working, Trapped, Ended
<1>0. /\ ScriptTypes /\ seq \in Nat /\ seq' \in Nat /\ seq <= seq' /\ seq <= MaxInserts
      /\ cutoff \in Nat /\ cutoff <= seq'
  <2>1. ScriptTypes /\ seq \in 0..MaxInserts
    BY DEF EvidenceInv, RetentionInv, RetentionTypeOK
  <2> QED BY <2>1, SequenceGrows
<1>1. CASE UNCHANGED scriptVars BY <1>0, <1>1 DEF scriptVars
<1>2. ASSUME NEW n \in Names, NEW k \in 0..seq, Launch(n, k) PROVE ScriptTypes'
  <2>1. k \in 0..MaxInserts /\ k <= seq' BY <1>0
  <2>2. writersStopped' \in BOOLEAN /\ attempted' \in BOOLEAN
    BY <1>0, <1>2, Zenon DEF Launch, BeginStop
  <2>3. /\ pc' \in {"stopping", "trap"} /\ cycle' = 0 /\ attempts' = attempts
        /\ target' = n /\ cutoff' = k
    BY <1>2 DEF Launch, BeginStop
  <2> QED BY <1>0, <2>1, <2>2, <2>3
<1>3. CASE Script
  <2>1. CASE Stopped BY <1>0, <2>1 DEF Stopped
  <2>2. CASE Restored BY <1>0, <2>2 DEF Restored
  <2>3. CASE AttemptFails BY <1>0, <2>3 DEF AttemptFails
  <2>4. CASE BackupDone \/ PruneDone BY <1>0, <2>4 DEF BackupDone, PruneDone, BeginRestore
  <2>5. CASE VerifyDone BY <1>0, <2>5 DEF VerifyDone, BeginStop
  <2>6. CASE Decide BY <1>0, <2>6 DEF Decide
  <2>7. CASE NextPause BY <1>0, <2>7 DEF NextPause, BeginStop
  <2>8. CASE Trap BY <1>0, <2>8 DEF Trap, BeginRestore
  <2> QED BY <1>1, <1>3, <2>1, <2>2, <2>3, <2>4, <2>5, <2>6, <2>7, <2>8
          DEF Script, StopWriter, RunJob
<1>4. CASE Interrupt BY <1>0, <1>4 DEF Interrupt
<1>5. CASE Kill BY <1>0, <1>5 DEF Kill
<1> QED BY <1>1, <1>2, <1>3, <1>4, <1>5 DEF Next, Recover, vars

\* A command that was started is under way or has failed.
LEMMA JobStarts ==
    ASSUME RunJob, target \in Names
    PROVE  job'.step \notin {"none", "clean", "done"}
<1>1. Fail([NoJob EXCEPT !.name = target]).step = "failed" BY DEF Fail, NoJob
<1> QED BY <1>1 DEF RunJob, StartBackup, StartVerify, StartPrune, NoJob

\* What a batch makes of the rows and the job.
LEMMA BatchStep ==
    ASSUME RetentionInv, DeleteBatch
    PROVE  /\ job.step = "delete"
           /\ \E limit \in 1..BatchSize, step \in {"delete", "limited", "clean"} :
                /\ rows' = RowsWithout(Batch(limit))
                /\ step = "clean" <=> Cardinality(Batch(limit)) < limit
                /\ job'.step = step /\ job'.cutoff = job.cutoff /\ job'.reviewed = job.reviewed
<1>1. job.step = "delete" BY BatchFrame
<1>2. PICK limit \in 1..BatchSize, step \in {"delete", "limited", "clean"} :
        /\ rows' = RowsWithout(Batch(limit))
        /\ step = "clean" <=> Cardinality(Batch(limit)) < limit
        /\ job' = [job EXCEPT !.deleted = @ + Cardinality(Batch(limit)),
                              !.exhausted = Cardinality(Batch(limit)) < limit,
                              !.step = step]
  BY BatchTaken, Zenon
<1> DEFINE d == job.deleted + Cardinality(Batch(limit))
           e == Cardinality(Batch(limit)) < limit
<1>3. job \in Job BY DEF RetentionInv, RetentionTypeOK
<1>4. job' = [job EXCEPT !.deleted = d, !.exhausted = e, !.step = step] BY <1>2, <1>3 DEF Job
<1> HIDE DEF d, e
<1>5. job'.step = step /\ job'.cutoff = job.cutoff /\ job'.reviewed = job.reviewed
  BY <1>3, <1>4 DEF Job
<1> QED BY <1>1, <1>2, <1>5

\* What the maintenance process makes of its job.
LEMMA JobStepTo ==
    ASSUME RetentionInv, Maintain \/ JobFails
    PROVE  /\ job.step \notin {"none", "failed", "done"} /\ job \in Job
           /\ job'.step # "none"
           /\ job'.step = "failed" \/ (job'.cutoff = job.cutoff /\ job'.reviewed = job.reviewed)
           /\ Pruning => job'.step \in {"delete", "limited", "clean", "failed", "done"}
<1> USE DEF Pruning
<1>1. job \in Job BY DEF RetentionInv, RetentionTypeOK
<1>2. CASE JobFails BY <1>1, <1>2, JobTypes DEF JobFails
<1>3. CASE Maintain
  <2> DEFINE Same(j) == j.cutoff = job.cutoff /\ j.reviewed = job.reviewed
  <2>1. /\ Done(job).step = "done" /\ Fail(job).step = "failed"
        /\ [Done(job) EXCEPT !.deferred = TRUE].step = "done"
    BY <1>1, JobTypes
  <2> DEFINE d == Done(job)
  <2>a. Same(d) /\ d \in Job BY <1>1, JobTypes, ZenonT(60) DEF Job, Done
  <2> HIDE DEF d
  <2>b. Same([d EXCEPT !.deferred = TRUE]) BY <2>a DEF Job
  <2> USE DEF d
  <2>2. CASE \E sound \in BOOLEAN : PublishBackup(sound) BY <1>1, <2>2 DEF PublishBackup, Job
  <2>3. CASE WriteProvenance \/ WithdrawBackup \/ FinishVerify
    BY <1>1, <2>1, <2>a, <2>3 DEF WriteProvenance, WithdrawBackup, FinishVerify
  <2>4. CASE DeleteBatch BY <1>1, <2>4, BatchStep
  <2>5. CASE StopDeleting BY <1>1, <2>1, <2>5, <2>b DEF StopDeleting, Job
  <2>6. CASE CleanOrphans BY <1>1, <2>1, <2>6, <2>a, <2>b DEF CleanOrphans
  <2> QED BY <1>3, <2>2, <2>3, <2>4, <2>5, <2>6 DEF Maintain
<1> QED BY <1>2, <1>3

LEMMA PhaseJobStep == EvidenceInv /\ [Next]_vars => PhaseJob'
<1> SUFFICES ASSUME EvidenceInv, [Next]_vars PROVE PhaseJob' OBVIOUS
<1> USE DEF PhaseJob
<1>0. PhaseJob /\ RetentionInv /\ NoJob.step = "none" BY DEF EvidenceInv, NoJob
<1>1. CASE job' = NoJob BY <1>0, <1>1
<1>2. CASE UNCHANGED scriptVars /\ (Maintain \/ JobFails)
  BY <1>0, <1>2, JobStepTo DEF scriptVars, Pruning
<1>3. CASE UNCHANGED <<pc, cutoff, job>> BY <1>0, <1>3
<1>4. CASE UNCHANGED scriptVars /\ Work BY <1>3, <1>4 DEF scriptVars, Work, InsertRow, Review
<1>5. ASSUME NEW n \in Names, NEW k \in 0..seq, Launch(n, k) PROVE PhaseJob'
  BY <1>1, <1>5 DEF Launch, retentionVars
<1>6. CASE Script
  <2>1. CASE Stopped \/ NextPause
    BY <1>0, <1>1, <2>1 DEF Stopped, NextPause, retentionVars
  <2>2. CASE Restored \/ AttemptFails BY <1>0, <2>2 DEF Restored, AttemptFails
  <2>3. CASE RunJob
    <3>1. target \in Names BY <2>3 DEF RunJob, EvidenceInv, ScriptTypes, Working
    <3>2. job'.step # "none" BY <2>3, <3>1, JobStarts
    <3>3. CASE pc = "prune" /\ StartPrune(target, cutoff, FALSE)
      <4>1. CASE Authorizes(target, cutoff, FALSE)
        <5>1. job' = [NoJob EXCEPT !.step = "delete", !.name = target, !.cutoff = cutoff,
                                   !.reviewed = FALSE]
          BY <3>3, <4>1 DEF StartPrune
        <5>2. job'.step = "delete" /\ job'.cutoff = cutoff /\ job'.reviewed = FALSE
          BY <5>1, JobTypes DEF Job
        <5> QED BY <2>3, <3>2, <3>3, <5>2 DEF RunJob, scriptVars
      <4>2. CASE ~Authorizes(target, cutoff, FALSE)
        <5>1. job'.step = "failed" BY <3>3, <3>1, <4>2, JobTypes DEF StartPrune
        <5> QED BY <2>3, <3>3, <5>1 DEF RunJob, scriptVars
      <4> QED BY <4>1, <4>2
    <3> QED BY <2>3, <3>2, <3>3 DEF RunJob, scriptVars
  <2>4. CASE PruneDone BY <2>4 DEF PruneDone, BeginRestore
  <2>5. CASE Trap BY <1>0, <2>5 DEF Trap, BeginRestore, retentionVars
  <2> QED BY <1>1, <1>3, <1>6, <2>1, <2>2, <2>3, <2>4, <2>5
          DEF Script, StopWriter, BackupDone, VerifyDone, Decide, scriptVars
<1>7. CASE Recover BY <1>1, <1>3, <1>7 DEF Recover, Reap, SwitchWriters, scriptVars
<1>8. CASE Kill BY <1>0, <1>8 DEF Kill, retentionVars
<1> QED BY <1>1, <1>2, <1>3, <1>4, <1>5, <1>6, <1>7, <1>8
        DEF Next, Interrupt, vars, retentionVars, scriptVars

\* A new row belongs to a snapshot that is there, and lies behind the cutoff; a
\* review makes no row eligible.
LEMMA WorkKeepsClean ==
    ASSUME EvidenceInv, Work
    PROVE  /\ Eligible(cutoff, FALSE) = {} => Eligible(cutoff, FALSE)' = {} \/ cutoff' # cutoff
           /\ Orphans' \subseteq Orphans
           /\ \A i \in Ids : i > seq' => rows'[i].body = 0
<1>0. /\ rows \in Tables /\ seq \in Nat /\ inserted \in Nat /\ MaxInserts \in Nat
      /\ cutoff \in Nat /\ cutoff <= seq /\ seq <= inserted /\ seq <= MaxInserts
      /\ \A i \in Ids : i > seq => rows[i].body = 0
  <2>1. RetentionTypeOK /\ cutoff \in 0..MaxInserts /\ cutoff <= seq
    BY DEF EvidenceInv, RetentionInv, ScriptTypes
  <2>2. \A i \in Ids : i > seq => rows[i].body = 0 BY DEF EvidenceInv, Cleaned
  <2> QED BY <2>1, <2>2, RetentionAssumption DEF RetentionTypeOK
<1>1. ASSUME NEW s \in Snapshots \cup {None}, InsertRow(s)
      PROVE  /\ Eligible(cutoff, FALSE) = {} /\ cutoff' = cutoff => Eligible(cutoff, FALSE)' = {}
             /\ Orphans' \subseteq Orphans
             /\ \A i \in Ids : i > seq' => rows'[i].body = 0
  <2>1. /\ seq + 1 \in Ids /\ seq' = seq + 1
        /\ rows'[seq + 1].snap = s /\ rows'[seq + 1].body # 0
        /\ \A i \in Ids \ {seq + 1} : rows'[i] = rows[i]
        /\ snaps' = snaps \cup ({s} \ {None})
    BY <1>0, <1>1 DEF InsertRow, Ids, Tables
  <2>2. \A i \in Ids : rows[i].body # 0 => i # seq + 1 BY <1>0, <2>1 DEF Ids
  <2>3. ASSUME NEW x \in Orphans' PROVE x \in Orphans
    <3>1. x # s BY <2>1 DEF Orphans
    <3>2. \A i \in Ids : rows[i].body # 0 => rows[i].snap # x BY <2>1, <2>2 DEF Orphans
    <3> QED BY <2>1, <3>1, <3>2 DEF Orphans
  <2>4. \A i \in 1..cutoff : i \in Ids \ {seq + 1} BY <1>0 DEF Ids
  <2>5. Eligible(cutoff, FALSE) = {} /\ cutoff' = cutoff => Eligible(cutoff, FALSE)' = {}
    BY <2>1, <2>4 DEF Eligible
  <2>6. \A i \in Ids : i > seq' => rows'[i].body = 0 BY <1>0, <2>1 DEF Ids
  <2> QED BY <2>3, <2>5, <2>6
<1>2. ASSUME NEW i \in Ids, Review(i)
      PROVE  /\ Eligible(cutoff, FALSE) = {} /\ cutoff' = cutoff => Eligible(cutoff, FALSE)' = {}
             /\ Orphans' \subseteq Orphans
             /\ \A k \in Ids : k > seq' => rows'[k].body = 0
  <2>1. /\ seq' = seq /\ snaps' = snaps
        /\ \A k \in Ids : /\ rows'[k].body = rows[k].body /\ rows'[k].snap = rows[k].snap
                          /\ rows'[k].review = 0 => rows[k].review = 0
    BY <1>0, <1>2 DEF Review, Tables, Row
  <2>2. \A k \in 1..cutoff : k \in Ids BY <1>0 DEF Ids
  <2> QED BY <1>0, <2>1, <2>2 DEF Eligible, Orphans
<1> QED BY <1>1, <1>2 DEF Work

\* Rows, snapshots and result as they were, in a phase that comes from one that
\* had them.
LEMMA CleanedKept ==
    ASSUME Cleaned, UNCHANGED <<rows, seq, snaps, job, cutoff>>,
           pc' = "prune" => pc = "prune" \/ job = NoJob,
           pc' \in {"restoring", "decide"} => pc \in {"prune", "restoring", "decide"}
    PROVE  Cleaned'
<1>1. NoJob.step = "none" BY DEF NoJob
<1> QED BY <1>1 DEF Cleaned, Eligible, Orphans

LEMMA MaintainCleaned ==
    ASSUME EvidenceInv, Maintain \/ JobFails, UNCHANGED scriptVars
    PROVE  Cleaned'
<1>0. /\ RetentionInv /\ job \in Job /\ seq' = seq
      /\ \A i \in Ids : i > seq => rows[i].body = 0
      /\ UNCHANGED <<pc, cutoff>>
  BY BatchFrame DEF EvidenceInv, RetentionInv, RetentionTypeOK, Cleaned, scriptVars, Maintain, JobFails,
     data, PublishBackup, WriteProvenance, WithdrawBackup, FinishVerify,
     StopDeleting, CleanOrphans
<1>1. job.step \notin {"none", "failed", "done"} BY <1>0, JobStepTo
<1>2. pc \notin {"restoring", "decide"} BY <1>1 DEF EvidenceInv, PhaseJob, NoJob
<1>3. pc = "prune" =>
        Pruning /\ job.cutoff = cutoff /\ job.reviewed = FALSE
  BY <1>1 DEF EvidenceInv, PhaseJob, NoJob, Pruning
<1>4. CASE pc # "prune"
  <2>1. rows' = rows \/ \E limit : rows' = RowsWithout(Batch(limit))
    <3>1. CASE DeleteBatch BY <3>1, BatchTaken, Zenon
    <3>2. CASE ~DeleteBatch
      BY <3>2 DEF Maintain, JobFails, data, PublishBackup, WriteProvenance, WithdrawBackup,
         FinishVerify, StopDeleting, CleanOrphans
    <3> QED BY <3>1, <3>2
  <2>2. \A i \in Ids : i > seq => rows'[i].body = 0 BY <1>0, <2>1 DEF NoRow, RowsWithout
  <2> QED BY <1>0, <1>2, <1>4, <2>2 DEF Cleaned
<1>5. CASE pc = "prune"
  <2>1. CASE DeleteBatch
    <3>0. PICK limit \in 1..BatchSize, step \in {"delete", "limited", "clean"} :
            /\ rows' = RowsWithout(Batch(limit))
            /\ step = "clean" <=> Cardinality(Batch(limit)) < limit
            /\ job'.step = step
      BY <1>0, <2>1, BatchStep
    <3> DEFINE B == Batch(limit)
    <3>1. \A i \in Ids : rows'[i] = IF i \in B THEN NoRow ELSE rows[i] BY <3>0 DEF RowsWithout
    <3>2. \A i \in Ids : i > seq => rows'[i].body = 0 BY <1>0, <3>1 DEF NoRow
    <3>3. job'.step # "done" BY <3>0
    <3>4. ASSUME job'.step = "clean" PROVE Eligible(cutoff, FALSE)' = {}
      <4>1. Cardinality(B) < limit /\ job.step = "delete" BY <2>1, <3>0, <3>4, BatchFrame
      <4>2. B = Eligible(cutoff, FALSE) BY <1>0, <1>3, <1>5, <4>1, ShortBatchIsAll
      <4> HIDE DEF B
      <4>3. \A i \in 1..cutoff : i \in Ids
        BY RetentionAssumption DEF EvidenceInv, ScriptTypes, Ids
      <4> QED BY <1>0, <3>1, <4>2, <4>3 DEF Eligible, NoRow
    <3> QED BY <1>0, <1>5, <3>2, <3>3, <3>4 DEF Cleaned
  <2>2. CASE StopDeleting
    <3>1. UNCHANGED <<rows, seq, snaps>> BY <2>2 DEF StopDeleting, data
    <3>2. CASE job' = [Done(job) EXCEPT !.deferred = TRUE]
      <4>1. job'.step = "done" BY <1>0, <3>2, JobTypes
      <4> DEFINE d == Done(job)
      <4>2. d \in Job BY <1>0, JobTypes
      <4> HIDE DEF d
      <4>3. [d EXCEPT !.deferred = TRUE].deferred = TRUE BY <4>2 DEF Job
      <4>4. job'.deferred = TRUE BY <3>2, <4>3 DEF d
      <4> QED BY <1>0, <1>5, <3>1, <4>1, <4>4 DEF Cleaned
    <3>3. CASE /\ Eligible(job.cutoff, job.reviewed) = {}
               /\ job' = [job EXCEPT !.step = "clean", !.exhausted = TRUE]
      <4>1. job'.step = "clean" BY <1>0, <3>3 DEF Job
      <4>2. Eligible(cutoff, FALSE)' = {} BY <1>0, <1>3, <1>5, <3>1, <3>3 DEF Eligible
      <4> QED BY <1>0, <1>5, <3>1, <4>1, <4>2 DEF Cleaned
    <3> QED BY <2>2, <3>2, <3>3 DEF StopDeleting
  <2>3. CASE CleanOrphans
    <3>1. rows' = rows /\ Eligible(cutoff, FALSE) = {}
      BY <1>5, <2>3 DEF CleanOrphans, EvidenceInv, Cleaned
    <3>2. Eligible(cutoff, FALSE)' = {} BY <1>0, <3>1 DEF Eligible
    <3>3. CASE job' = Fail(job)
      <4>1. job'.step = "failed" BY <1>0, <3>3, JobTypes
      <4> QED BY <1>0, <1>5, <3>1, <4>1 DEF Cleaned
    <3>4. CASE snaps' = snaps \ Orphans /\ job' = Done(job)
      <4>1. Orphans' = {} BY <3>1, <3>4 DEF Orphans
      <4>2. job'.step = "done" BY <1>0, <3>4, JobTypes
      <4> QED BY <1>0, <1>5, <3>1, <3>2, <4>1, <4>2 DEF Cleaned
    <3>5. CASE job' = [Done(job) EXCEPT !.deferred = TRUE]
      <4> DEFINE d == Done(job)
      <4>1. d \in Job BY <1>0, JobTypes
      <4> HIDE DEF d
      <4>2. [d EXCEPT !.deferred = TRUE].deferred = TRUE BY <4>1 DEF Job
      <4>3. job'.deferred = TRUE BY <3>5, <4>2 DEF d
      <4>4. job'.step = "done" BY <1>0, <3>5, JobTypes
      <4> QED BY <1>0, <1>5, <3>1, <3>2, <4>3, <4>4 DEF Cleaned
    <3> QED BY <2>3, <3>3, <3>4, <3>5 DEF CleanOrphans
  <2>4. CASE JobFails
    <3>1. job'.step = "failed" BY <1>0, <2>4, JobTypes DEF JobFails
    <3> QED BY <1>0, <1>5, <2>4, <3>1 DEF JobFails, data, Cleaned
  <2>5. ~(PublishBackup(TRUE) \/ PublishBackup(FALSE) \/ WriteProvenance \/ WithdrawBackup \/ FinishVerify)
    BY <1>3, <1>5 DEF Pruning, PublishBackup, WriteProvenance, WithdrawBackup, FinishVerify
  <2> QED BY <2>1, <2>2, <2>3, <2>4, <2>5 DEF Maintain
<1> QED BY <1>4, <1>5

\* A result that is forgotten says nothing.
LEMMA ForgottenIsClean ==
    ASSUME Cleaned, UNCHANGED <<rows, seq>>, job'.step \notin {"clean", "done"}
    PROVE  Cleaned'
BY DEF Cleaned

LEMMA CleanedStep == EvidenceInv /\ [Next]_vars => Cleaned'
<1> SUFFICES ASSUME EvidenceInv, [Next]_vars PROVE Cleaned' OBVIOUS
<1>0. /\ Cleaned /\ PhaseJob /\ RetentionInv
      /\ NoJob.step = "none"
  BY DEF EvidenceInv, NoJob
<1>1. CASE Work /\ UNCHANGED scriptVars
  <2>1. UNCHANGED <<pc, cutoff, job>> BY <1>1 DEF scriptVars, Work, InsertRow, Review
  <2>2. Eligible(cutoff, FALSE) = {} => Eligible(cutoff, FALSE)' = {}
    BY <1>1, <2>1, WorkKeepsClean
  <2>3. Orphans' \subseteq Orphans /\ \A i \in Ids : i > seq' => rows'[i].body = 0
    BY <1>1, WorkKeepsClean
  <2> QED BY <1>0, <2>1, <2>2, <2>3 DEF Cleaned
<1>2. CASE (Maintain \/ JobFails) /\ UNCHANGED scriptVars BY <1>2, MaintainCleaned
<1>3. ASSUME NEW n \in Names, NEW k \in 0..seq, Launch(n, k) PROVE Cleaned'
  BY <1>0, <1>3, ForgottenIsClean DEF Launch, retentionVars, data
<1>4. CASE Script
  <2>1. CASE (\E w \in Writers : StopWriter(w)) \/ Restored \/ AttemptFails \/ PruneDone
    BY <1>0, <2>1, CleanedKept DEF StopWriter, Restored, AttemptFails, PruneDone, BeginRestore,
       data, scriptVars, PhaseJob
  <2>2. CASE Stopped \/ NextPause
    BY <1>0, <2>2, ForgottenIsClean DEF Stopped, NextPause, PhaseJob, retentionVars, data
  <2>3. CASE RunJob
    <3>1. UNCHANGED <<rows, seq>> BY <2>3 DEF RunJob, StartBackup, StartVerify, StartPrune, data
    <3>2. target \in Names BY <2>3 DEF RunJob, EvidenceInv, ScriptTypes, Working
    <3>3. job'.step \notin {"clean", "done"} BY <2>3, <3>2, JobStarts
    <3> QED BY <1>0, <3>1, <3>3, ForgottenIsClean
  <2>4. CASE BackupDone \/ VerifyDone \/ Decide
    BY <1>0, <2>4, ForgottenIsClean DEF BackupDone, VerifyDone, Decide, data
  <2>5. CASE Trap
    BY <1>0, <2>5, CleanedKept DEF Trap, BeginRestore, retentionVars, data
  <2> QED BY <1>4, <2>1, <2>2, <2>3, <2>4, <2>5 DEF Script
<1>5. CASE Recover
  <2>1. CASE Reap BY <1>0, <2>1, ForgottenIsClean DEF Reap, data
  <2>2. CASE UNCHANGED scriptVars /\ \E ws \in SUBSET Writers : SwitchWriters(ws)
    BY <1>0, <2>2, CleanedKept DEF SwitchWriters, scriptVars, data
  <2> QED BY <1>5, <2>1, <2>2 DEF Recover
<1>6. CASE Interrupt BY <1>0, <1>6, ForgottenIsClean DEF Interrupt, data
<1>7. CASE Kill BY <1>0, <1>7, CleanedKept DEF Kill, retentionVars, data
<1>8. CASE UNCHANGED vars
  BY <1>0, <1>8, CleanedKept DEF vars, retentionVars, scriptVars, data
<1> QED BY <1>1, <1>2, <1>3, <1>4, <1>5, <1>6, <1>7, <1>8 DEF Next

-----------------------------------------------------------------------------
\* Theorem: through every phase, interruption and recovery, the evidence means
\* what it says and a kept result says what the database still shows.
THEOREM EvidenceHolds == Spec => []EvidenceInv
<1>1. EvidenceInv /\ [Next]_vars => EvidenceInv'
  BY CycleKeepsEvidence, CycleInductive, ScriptTypesStep, PhaseJobStep, CleanedStep
  DEF EvidenceInv
<1> QED BY <1>1, EvidenceInit, PTL DEF Spec

\* Theorem: the script counts its pauses and its attempts within their limits, and
\* its tables keep their shape.
THEOREM TypeCorrect == Spec => []TypeOK
<1>1. EvidenceInv => TypeOK BY DEF EvidenceInv, RetentionInv, ScriptTypes, TypeOK
<1> QED BY <1>1, EvidenceHolds, PTL

\* Theorem: the script is an honest operator.  Whatever fails in it or interrupts it,
\* all it does could be done by hand with the commands and the writers, stopped
\* before a backup and for the length of a prune.
THEOREM CycleImplementsCommands == Spec => RetentionSpec
<1>1. Init => RetentionInit BY DEF Init
<1> QED BY <1>1, CycleByHand, EvidenceHolds, PTL DEF Spec, RetentionSpec

\* Theorem: what the unattended cycle deletes, its backup holds, although
\* monitoring ran between the backup and the prune.
THEOREM CyclePrunesAreBackedUp == Spec => PrunedIsBackedUp
BY CycleImplementsCommands, PrunesAreBackedUp

\* The one step that reports success.
LEMMA CompletionStep ==
    ASSUME EvidenceInv, Next, pc # "completed", pc' = "completed"
    PROVE  Eligible(cutoff, FALSE)' = {} /\ Orphans' = {}
<1>1. Decide
  BY DEF Next, scriptVars, Launch, BeginStop, Script, StopWriter, Stopped, Restored,
     AttemptFails, RunJob, BackupDone, BeginRestore, VerifyDone, PruneDone, NextPause, Trap,
     Recover, Interrupt, Kill
<1>2. pc = "decide" /\ job.exhausted /\ ~job.deferred BY <1>1 DEF Decide
<1>3. job.step = "done" BY <1>2 DEF EvidenceInv, PhaseJob, NoJob
<1>4. Eligible(cutoff, FALSE) = {} /\ Orphans = {}
  BY <1>2, <1>3 DEF EvidenceInv, Cleaned
<1>5. UNCHANGED <<rows, snaps, cutoff>> BY <1>1 DEF Decide, data
<1> QED BY <1>4, <1>5 DEF Eligible, Orphans

\* Theorem: success is reported only over a database without a row that was to go
\* and without an abandoned snapshot, although the writers were started again
\* before the decision.
THEOREM CompletionIsClean == Spec => CompletedIsClean
<1>1. EvidenceInv /\ [Next]_vars =>
        [pc # "completed" /\ pc' = "completed" =>
            Eligible(cutoff, FALSE)' = {} /\ Orphans' = {}]_vars
  BY CompletionStep
<1> QED BY <1>1, EvidenceHolds, PTL DEF Spec, CompletedIsClean
-----------------------------------------------------------------------------
(* The cycle ends.  What is left of it: the pauses, the phases of this     *)
(* pause, the steps of this phase, and the rows that a prune may still     *)
(* take.  The order is lexicographic, and has no infinite descent.         *)

PausesLeft == MaxCycles - cycle

Phase ==
    CASE pc = "cooldown" -> 8
      [] pc = "stopping" -> 7
      [] pc \in {"backup", "prune"} -> 6
      [] pc = "restoring" -> 5
      [] pc \in {"verify", "decide"} -> 4
      [] pc = "trap" -> 2
      [] pc = "recovering" -> 1
      [] OTHER -> 0

JobStepsLeft ==
    CASE job.step = "none" -> 5
      [] job.step = "copy" -> 4
      [] job.step \in {"published", "verify", "delete"} -> 3
      [] job.step = "limited" -> 2
      [] job.step = "clean" -> 1
      [] OTHER -> 0

StepsLeft ==
    CASE pc = "stopping" -> Cardinality(up)
      [] pc \in {"restoring", "recovering"} -> RecoveryAttempts - attempts
      [] pc \in {"backup", "verify", "prune"} -> JobStepsLeft
      [] OTHER -> 0

RowsLeft == IF job.step = "delete" THEN Cardinality(Present) ELSE 0

Remaining == <<<<PausesLeft, Phase>>, <<StepsLeft, RowsLeft>>>>

Numbers == OpToRel(<, Nat)
Pairs == Nat \X Nat
PairOrder == LexPairOrdering(Numbers, Numbers, Nat, Nat)
Order == LexPairOrdering(PairOrder, PairOrder, Pairs, Pairs)

\* Nothing descends for ever in it.
LEMMA OrderDescends == IsWellFoundedOn(Order, Pairs \X Pairs)
<1>1. IsWellFoundedOn(Numbers, Nat) BY NatLessThanWellFounded, Zenon DEF Numbers
<1>2. IsWellFoundedOn(PairOrder, Pairs) BY <1>1, WFLexPairOrdering DEF PairOrder, Pairs
<1> QED BY <1>2, WFLexPairOrdering DEF Order

LEMMA WritersFinite == IsFiniteSet(Writers)
<1>1. IsFiniteSet({"dashboard"}) /\ IsFiniteSet({"ingest"}) BY FS_Singleton
<1>2. Writers = {"dashboard"} \cup {"ingest"} BY DEF Writers
<1> QED BY <1>1, <1>2, FS_Union

Counted ==
    PausesLeft \in Nat /\ Phase \in Nat /\ StepsLeft \in Nat /\ RowsLeft \in Nat

LEMMA RemainingCounted == EvidenceInv => Counted
<1> SUFFICES ASSUME EvidenceInv PROVE Counted OBVIOUS
<1>1. ScriptTypes /\ RetentionTypeOK BY DEF EvidenceInv, RetentionInv
<1>2. PausesLeft \in Nat BY <1>1, Limits DEF ScriptTypes, PausesLeft
<1>3. Phase \in Nat BY DEF Phase
<1>4. StepsLeft \in Nat
  <2>1. Cardinality(up) \in Nat
    BY <1>1, WritersFinite, FS_Subset, FS_CardinalityType DEF RetentionTypeOK
  <2>2. RecoveryAttempts - attempts \in Nat BY <1>1, Limits DEF ScriptTypes
  <2>3. JobStepsLeft \in Nat BY DEF JobStepsLeft
  <2> QED BY <2>1, <2>2, <2>3 DEF StepsLeft
<1>5. RowsLeft \in Nat BY <1>1, PresentFinite DEF RowsLeft
<1> QED BY <1>2, <1>3, <1>4, <1>5 DEF Counted

LEMMA Descent ==
    ASSUME Counted, Counted',
           \/ PausesLeft' < PausesLeft
           \/ PausesLeft' = PausesLeft /\ Phase' < Phase
           \/ PausesLeft' = PausesLeft /\ Phase' = Phase /\ StepsLeft' < StepsLeft
           \/ /\ PausesLeft' = PausesLeft /\ Phase' = Phase
              /\ StepsLeft' = StepsLeft /\ RowsLeft' < RowsLeft
    PROVE  <<Remaining', Remaining>> \in Order
<1>1. \A m, n \in Nat : m < n => <<m, n>> \in Numbers BY DEF Numbers, OpToRel
<1>2. /\ <<PausesLeft, Phase>> \in Pairs /\ <<PausesLeft', Phase'>> \in Pairs
      /\ <<StepsLeft, RowsLeft>> \in Pairs /\ <<StepsLeft', RowsLeft'>> \in Pairs
  BY DEF Counted, Pairs
<1>3. CASE PausesLeft' < PausesLeft \/ (PausesLeft' = PausesLeft /\ Phase' < Phase)
  <2>1. <<<<PausesLeft', Phase'>>, <<PausesLeft, Phase>>>> \in PairOrder
    BY <1>1, <1>2, <1>3 DEF Counted, PairOrder, LexPairOrdering, Pairs
  <2> QED BY <1>2, <2>1 DEF Order, LexPairOrdering, Remaining
<1>4. CASE /\ PausesLeft' = PausesLeft /\ Phase' = Phase
           /\ StepsLeft' < StepsLeft \/ (StepsLeft' = StepsLeft /\ RowsLeft' < RowsLeft)
  <2>1. <<<<StepsLeft', RowsLeft'>>, <<StepsLeft, RowsLeft>>>> \in PairOrder
    BY <1>1, <1>2, <1>4 DEF Counted, PairOrder, LexPairOrdering, Pairs
  <2> QED BY <1>2, <1>4, <2>1 DEF Order, LexPairOrdering, Remaining
<1> QED BY <1>3, <1>4

\* A command in its container comes nearer to its end.
LEMMA MaintainAdvances ==
    ASSUME EvidenceInv, Counted, Counted', Maintain \/ JobFails, UNCHANGED scriptVars,
           pc \notin Ended
    PROVE  <<Remaining', Remaining>> \in Order
<1>0. job \in Job /\ RetentionInv BY DEF EvidenceInv, RetentionInv, RetentionTypeOK
<1>1. job.step \notin {"none", "failed", "done"} BY <1>0, JobStepTo
<1>2. pc \in {"backup", "verify", "prune"}
  BY <1>1 DEF EvidenceInv, PhaseJob, ScriptTypes, NoJob, Working, Trapped
<1>3. PausesLeft' = PausesLeft /\ Phase' = Phase BY DEF scriptVars, PausesLeft, Phase
<1>4. StepsLeft = JobStepsLeft /\ StepsLeft' = JobStepsLeft'
  BY <1>2 DEF scriptVars, StepsLeft
<1>5. CASE job'.step \in {"failed", "done"}
  BY <1>0, <1>1, <1>3, <1>4, <1>5, Descent DEF JobStepsLeft, Job, JobSteps
<1>6. ASSUME NEW sound \in BOOLEAN, PublishBackup(sound)
      PROVE  <<Remaining', Remaining>> \in Order
  <2>1. job.step = "copy" /\ job'.step = "published" BY <1>0, <1>6 DEF PublishBackup, Job
  <2> QED BY <1>3, <1>4, <2>1, Descent DEF JobStepsLeft
<1>7. CASE StopDeleting \/ CleanOrphans
  <2>1. \/ job'.step \in {"done", "failed"}
        \/ job.step = "limited" /\ job'.step = "clean"
    <3>1. CASE StopDeleting
      <4>1. CASE job' = [Done(job) EXCEPT !.deferred = TRUE] BY <1>0, <4>1, JobTypes
      <4>2. CASE job.step = "limited" /\ job' = [job EXCEPT !.step = "clean", !.exhausted = TRUE]
        BY <1>0, <3>1, <4>2 DEF StopDeleting, Job
      <4> QED BY <3>1, <4>1, <4>2 DEF StopDeleting
    <3>2. CASE CleanOrphans BY <1>0, <3>2, JobTypes DEF CleanOrphans
    <3> QED BY <1>7, <3>1, <3>2
  <2> QED BY <1>3, <1>4, <1>5, <2>1, Descent DEF JobStepsLeft
<1>8. CASE DeleteBatch
  <2>1. job.step = "delete" BY <1>8, BatchFrame
  <2>2. PICK limit \in 1..BatchSize, step \in {"delete", "limited", "clean"} :
          /\ rows' = RowsWithout(Batch(limit))
          /\ step = "clean" <=> Cardinality(Batch(limit)) < limit
          /\ job'.step = step
    BY <1>0, <1>8, BatchStep
  <2>3. CASE step # "delete"
    <3>1. job'.step \in {"limited", "clean"} BY <2>2, <2>3
    <3> QED BY <1>3, <1>4, <2>1, <3>1, Descent DEF JobStepsLeft
  <2>4. CASE step = "delete"
    <3> DEFINE B == Batch(limit)
    <3>1. job'.step = "delete" /\ limit > 0 /\ ~(Cardinality(B) < limit)
      BY <2>2, <2>4, RetentionAssumption
    <3>2. Present' = Present \ B BY <2>2 DEF Present, NoRow, RowsWithout
    <3>3. RowsLeft' = RowsLeft - Cardinality(B)
      BY <1>0, <2>1, <3>1, <3>2, BatchFacts DEF RowsLeft
    <3>4. Cardinality(B) \in Nat BY <1>0, <2>1, BatchFacts
    <3> HIDE DEF B
    <3>5. Cardinality(B) > 0 BY <3>1, <3>4, RetentionAssumption
    <3>6. RowsLeft' < RowsLeft BY <3>3, <3>4, <3>5 DEF Counted
    <3> QED BY <1>3, <1>4, <2>1, <3>1, <3>6, Descent DEF JobStepsLeft
  <2> QED BY <2>3, <2>4
<1>9. CASE WriteProvenance \/ WithdrawBackup \/ FinishVerify \/ JobFails
  BY <1>0, <1>5, <1>9, JobTypes
  DEF WriteProvenance, WithdrawBackup, FinishVerify, JobFails
<1> QED BY <1>6, <1>7, <1>8, <1>9 DEF Maintain

\* The writers at work take nothing from it and add nothing to it.
LEMMA WorkWaits ==
    ASSUME EvidenceInv, Work, UNCHANGED scriptVars
    PROVE  UNCHANGED Remaining
<1>1. UNCHANGED <<pc, cycle, attempts, job, up>> /\ up # {}
  BY DEF scriptVars, Work, InsertRow, Review
<1>2. job.step # "delete" BY <1>1 DEF EvidenceInv, RetentionInv, JobSound, Pruning
<1> QED BY <1>1, <1>2
        DEF Remaining, PausesLeft, Phase, StepsLeft, JobStepsLeft, RowsLeft

LEMMA ScriptAdvances ==
    ASSUME EvidenceInv, Counted, Counted', Script
    PROVE  <<Remaining', Remaining>> \in Order
<1>0. ScriptTypes /\ RetentionTypeOK BY DEF EvidenceInv, RetentionInv
<1>1. ASSUME NEW w \in Writers, StopWriter(w) PROVE <<Remaining', Remaining>> \in Order
  <2>1. IsFiniteSet(up) BY <1>0, WritersFinite, FS_Subset DEF RetentionTypeOK
  <2>2. Cardinality(up \ {w}) = Cardinality(up) - 1 /\ Cardinality(up) \in Nat
    BY <1>1, <2>1, FS_RemoveElement, FS_CardinalityType DEF StopWriter
  <2>3. pc = "stopping" /\ UNCHANGED scriptVars /\ up' = up \ {w} BY <1>1 DEF StopWriter
  <2>4. StepsLeft' < StepsLeft BY <2>2, <2>3 DEF StepsLeft, scriptVars
  <2> QED BY <2>3, <2>4, Descent DEF scriptVars, PausesLeft, Phase
<1>2. CASE Stopped \/ Restored \/ BackupDone \/ PruneDone \/ NextPause \/ Trap
  <2>1. cycle' = cycle /\ Phase' < Phase
    BY <1>2 DEF Stopped, Restored, BackupDone, PruneDone, NextPause, Trap, BeginRestore,
       BeginStop, Phase
  <2> QED BY <2>1, Descent DEF PausesLeft
<1>3. CASE AttemptFails
  <2>1. attempts' = attempts + 1 /\ cycle' = cycle /\ pc \in {"restoring", "recovering"}
    BY <1>3 DEF AttemptFails
  <2>2. CASE pc' = pc
    <3>1. StepsLeft' < StepsLeft BY <1>0, <2>1, <2>2, Limits DEF StepsLeft, ScriptTypes
    <3> QED BY <2>1, <2>2, <3>1, Descent DEF PausesLeft, Phase
  <2>3. CASE pc' # pc
    <3>1. Phase' < Phase BY <1>3, <2>1, <2>3 DEF AttemptFails, Phase
    <3> QED BY <2>1, <3>1, Descent DEF PausesLeft
  <2> QED BY <2>2, <2>3
<1>4. CASE RunJob
  <2>1. job = NoJob /\ pc \in {"backup", "verify", "prune"} /\ UNCHANGED scriptVars
    BY <1>4 DEF RunJob, StartBackup, StartVerify, StartPrune
  <2>2. target \in Names BY <1>0, <2>1 DEF ScriptTypes, Working
  <2>3. JobStepsLeft = 5 /\ JobStepsLeft' < 5
    BY <1>4, <2>1, <2>2, JobStarts DEF JobStepsLeft, NoJob
  <2>4. StepsLeft' < StepsLeft BY <2>1, <2>3 DEF StepsLeft, scriptVars
  <2> QED BY <2>1, <2>4, Descent DEF scriptVars, PausesLeft, Phase
<1>5. CASE VerifyDone
  <2>1. cycle = 0 /\ cycle' = 1 BY <1>0, <1>5 DEF VerifyDone, ScriptTypes
  <2> QED BY <2>1, Limits, Descent DEF PausesLeft
<1>6. CASE Decide
  <2>1. \/ cycle' = cycle + 1
        \/ cycle' = cycle /\ pc = "decide" /\ pc' \in {"completed", "trap"}
    BY <1>6 DEF Decide
  <2>2. CASE cycle' = cycle + 1 BY <1>0, <2>2, Limits, Descent DEF PausesLeft, ScriptTypes
  <2>3. CASE cycle' = cycle /\ pc = "decide" /\ pc' \in {"completed", "trap"}
    <3>1. Phase' < Phase BY <2>3 DEF Phase
    <3> QED BY <2>3, <3>1, Descent DEF PausesLeft
  <2> QED BY <2>1, <2>2, <2>3
<1> QED BY <1>1, <1>2, <1>3, <1>4, <1>5, <1>6 DEF Script

LEMMA CycleStepAdvances ==
    ASSUME EvidenceInv, EvidenceInv', Next, pc \notin Ended
    PROVE  (Work /\ UNCHANGED Remaining) \/ <<Remaining', Remaining>> \in Order
<1>0. Counted /\ Counted' BY RemainingCounted, PTL
<1>1. CASE Work /\ UNCHANGED scriptVars BY <1>1, WorkWaits
<1>2. CASE (Maintain \/ JobFails) /\ UNCHANGED scriptVars BY <1>0, <1>2, MaintainAdvances
<1>3. CASE Script BY <1>0, <1>3, ScriptAdvances
<1>4. CASE Interrupt \/ Kill
  <2>1. cycle' = cycle /\ Phase' < Phase
    BY <1>4 DEF Interrupt, Kill, Working, Trapped, Phase
  <2> QED BY <1>0, <2>1, Descent DEF PausesLeft
<1> QED BY <1>1, <1>2, <1>3, <1>4 DEF Next, Launch, Recover

\* Theorem: the cycle ends.  From its launch, every step but those of the writers
\* at work brings it nearer to its end, and the order has no infinite descent: it
\* cannot pause, retry, prune or fail for ever, whatever the limits and the rows.
THEOREM CycleTerminates ==
    /\ IsWellFoundedOn(Order, Pairs \X Pairs)
    /\ Spec => [][pc \notin Ended =>
                    (Work /\ UNCHANGED Remaining) \/ <<Remaining', Remaining>> \in Order]_vars
<1>1. EvidenceInv /\ EvidenceInv' /\ [Next]_vars =>
        [pc \notin Ended =>
            (Work /\ UNCHANGED Remaining) \/ <<Remaining', Remaining>> \in Order]_vars
  BY CycleStepAdvances
<1> QED BY <1>1, EvidenceHolds, OrderDescends, PTL DEF Spec
=============================================================================
