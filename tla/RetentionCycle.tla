--------------------------- MODULE RetentionCycle ---------------------------
(***************************************************************************)
(* scripts/retention-cycle.sh: the unattended cycle that stops the         *)
(* writers, takes a backup, restores monitoring, verifies the backup and   *)
(* prunes in bounded pauses, with the trap that restores monitoring when   *)
(* anything fails.  The operator leaves a running cycle alone, and starts  *)
(* the writers again after one that ended badly.                           *)
(***************************************************************************)
EXTENDS Retention

CONSTANTS
    MaxCycles,         \* --max-cycles
    RecoveryAttempts   \* writer_recovery_attempts

ASSUME CycleAssumption ==
    /\ MaxCycles \in Nat \ {0}
    /\ RecoveryAttempts \in Nat \ {0}

VARIABLES
    pc,
    target, cutoff,  \* backup_name and the last id processed before the cutoff
    cycle,           \* 0 until the backup is verified
    writersStopped,
    attempted,       \* writer_recovery_attempted
    attempts

scriptVars == <<pc, target, cutoff, cycle, writersStopped, attempted, attempts>>
vars == <<retentionVars, scriptVars>>

Ended == {"exited", "completed", "critical", "killed"}
Working == {"stopping", "backup", "restoring", "verify", "prune", "decide", "cooldown"}
Trapped == {"trap", "recovering"}

Init ==
    /\ RetentionInit
    /\ pc = "exited"
    /\ target = None
    /\ cutoff = 0
    /\ cycle = 0
    /\ writersStopped = FALSE
    /\ attempted = FALSE
    /\ attempts = 0

-----------------------------------------------------------------------------
(* Stopping and restoring the writers.                                     *)

\* stop_writers notes that the writers are stopped before it stops the first; a
\* signal may come before it forgets the last restart.
BeginStop ==
    /\ writersStopped' = TRUE
    /\ \/ pc' = "stopping" /\ attempted' = FALSE
       \/ pc' = "trap" /\ UNCHANGED attempted

\* All writers run, and the names of this cycle are free.
Launch(n, k) ==
    /\ pc \in Ended
    /\ job = NoJob
    /\ up = Writers
    /\ files < MaxFiles
    /\ backups[n] = NoBackup /\ prov[n] = NoEvidence /\ manifest[n] = NoEvidence
    /\ target' = n
    /\ cutoff' = k
    /\ cycle' = 0
    /\ BeginStop
    /\ UNCHANGED <<retentionVars, attempts>>

StopWriter(w) ==
    /\ pc = "stopping"
    /\ w \in up
    /\ up' = up \ {w}
    /\ UNCHANGED <<data, store, job, scriptVars>>

\* Mutant: the time limit of docker compose stop is no failure.
StoppedWhatever ==
    /\ pc = "stopping"
    /\ pc' = IF cycle = 0 THEN "backup" ELSE "prune"
    /\ UNCHANGED <<retentionVars, target, cutoff, cycle, writersStopped, attempted, attempts>>

Stopped ==
    /\ pc = "stopping"
    /\ up = {}
    /\ pc' = IF cycle = 0 THEN "backup" ELSE "prune"
    /\ UNCHANGED <<retentionVars, target, cutoff, cycle, writersStopped, attempted, attempts>>

\* restore_writers, first line.
BeginRestore(as) ==
    /\ pc' = as
    /\ attempted' = TRUE
    /\ attempts' = 0

\* docker compose start, and both checks: all writers run and the dashboard
\* answers.
Restored ==
    /\ pc \in {"restoring", "recovering"}
    /\ up' = Writers
    /\ writersStopped' = FALSE
    /\ pc' = IF pc = "recovering" THEN "exited"
             ELSE IF cycle = 0 THEN "verify" ELSE "decide"
    /\ UNCHANGED <<data, store, job, target, cutoff, cycle, attempted, attempts>>

\* Mutant: one attempt more than configured.
AttemptOnceMore ==
    /\ pc \in {"restoring", "recovering"}
    /\ \E ws \in SUBSET Writers : up' = up \cup ws
    /\ attempts' = attempts + 1
    /\ pc' = IF attempts + 1 <= RecoveryAttempts THEN pc
             ELSE IF pc = "recovering" THEN "critical" ELSE "trap"
    /\ UNCHANGED <<data, store, job, target, cutoff, cycle, writersStopped, attempted>>

\* Mutant: after the last failure the count starts again.
AttemptForEver ==
    /\ pc \in {"restoring", "recovering"}
    /\ \E ws \in SUBSET Writers : up' = up \cup ws
    /\ attempts' = (attempts + 1) % RecoveryAttempts
    /\ UNCHANGED <<pc, data, store, job, target, cutoff, cycle, writersStopped, attempted>>

\* A start that fails may have started some; the last failure ends the script.
AttemptFails ==
    /\ pc \in {"restoring", "recovering"}
    /\ \E ws \in SUBSET Writers : up' = up \cup ws
    /\ attempts' = attempts + 1
    /\ pc' = IF attempts + 1 < RecoveryAttempts THEN pc
             ELSE IF pc = "recovering" THEN "critical" ELSE "trap"
    /\ UNCHANGED <<data, store, job, target, cutoff, cycle, writersStopped, attempted>>

-----------------------------------------------------------------------------
(* The phases.                                                             *)

\* The maintenance container of the phase.
RunJob ==
    /\ \/ pc = "backup" /\ StartBackup(target)
       \/ pc = "verify" /\ StartVerify(target)
       \/ pc = "prune" /\ StartPrune(target, cutoff, FALSE)
    /\ UNCHANGED scriptVars

\* The writers are restored after a backup or a prune that succeeded; its result
\* is kept for the decision.
BackupDone ==
    /\ pc = "backup" /\ job.step = "done"
    /\ job' = NoJob
    /\ BeginRestore("restoring")
    /\ UNCHANGED <<data, store, up, target, cutoff, cycle, writersStopped>>

VerifyDone ==
    /\ pc = "verify" /\ job.step = "done"
    /\ job' = NoJob
    /\ cycle' = 1
    /\ BeginStop
    /\ UNCHANGED <<data, store, up, target, cutoff, attempts>>

PruneDone ==
    /\ pc = "prune" /\ job.step = "done"
    /\ BeginRestore("restoring")
    /\ UNCHANGED <<data, store, up, job, target, cutoff, cycle, writersStopped>>

\* Mutant: a deferred clean-up counts as complete.
DecideByRows ==
    /\ pc = "decide"
    /\ job' = NoJob
    /\ IF job.exhausted
       THEN pc' = "completed" /\ UNCHANGED cycle
       ELSE IF job.deleted < 1 \/ cycle = MaxCycles
            THEN pc' = "trap" /\ UNCHANGED cycle
            ELSE pc' = "cooldown" /\ cycle' = cycle + 1
    /\ UNCHANGED <<data, store, up, target, cutoff, writersStopped, attempted, attempts>>

\* Complete, no progress, another pause, or too many of them.
Decide ==
    /\ pc = "decide"
    /\ job' = NoJob
    /\ IF job.exhausted /\ ~job.deferred
       THEN pc' = "completed" /\ UNCHANGED cycle
       ELSE IF (~job.exhausted /\ job.deleted < 1) \/ cycle = MaxCycles
            THEN pc' = "trap" /\ UNCHANGED cycle
            ELSE pc' = "cooldown" /\ cycle' = cycle + 1
    /\ UNCHANGED <<data, store, up, target, cutoff, writersStopped, attempted, attempts>>

NextPause ==
    /\ pc = "cooldown"
    /\ BeginStop
    /\ UNCHANGED <<retentionVars, target, cutoff, cycle, attempts>>

-----------------------------------------------------------------------------
(* Failure.                                                                *)

\* A command fails under set -e, or a signal arrives; bash waits for the command
\* in the foreground, which may have been ended by the same signal.
Interrupt ==
    /\ pc \in Working
    /\ pc \in {"backup", "verify", "prune"} => job.step \in {"none", "failed", "done"}
    /\ job' = NoJob
    /\ pc' = "trap"
    /\ UNCHANGED <<data, store, up, target, cutoff, cycle, writersStopped, attempted, attempts>>

\* Mutant: the trap only reports.
TrapWithoutRecovery ==
    /\ pc = "trap"
    /\ pc' = "exited"
    /\ UNCHANGED <<retentionVars, target, cutoff, cycle, writersStopped, attempted, attempts>>

\* recover_writers_on_exit: it restores the writers unless that was tried already.
Trap ==
    /\ pc = "trap"
    /\ IF writersStopped /\ ~attempted
       THEN BeginRestore("recovering")
       ELSE /\ pc' = IF writersStopped THEN "critical" ELSE "exited"
            /\ UNCHANGED <<attempted, attempts>>
    /\ UNCHANGED <<retentionVars, target, cutoff, cycle, writersStopped>>

\* SIGKILL, or a second signal once the trap has given the signals up; a
\* maintenance container goes on.
Kill ==
    /\ pc \in Working \cup Trapped
    /\ pc' = "killed"
    /\ UNCHANGED <<retentionVars, target, cutoff, cycle, writersStopped, attempted, attempts>>

-----------------------------------------------------------------------------
Script ==
    \/ \E w \in Writers : StopWriter(w)
    \/ Stopped
    \/ Restored \/ AttemptFails
    \/ RunJob
    \/ BackupDone \/ VerifyDone \/ PruneDone
    \/ Decide
    \/ NextPause
    \/ Trap

\* The container that a killed script has left comes to its end, and the operator
\* starts what does not run.
Recover ==
    /\ pc \in Ended
    /\ Reap \/ \E ws \in SUBSET Writers : up \subseteq ws /\ SwitchWriters(ws)
    /\ UNCHANGED scriptVars

Next ==
    \/ (Work \/ Maintain \/ JobFails) /\ UNCHANGED scriptVars
    \/ \E n \in Names, k \in 0..seq : Launch(n, k)
    \/ Script
    \/ Recover
    \/ Interrupt
    \/ Kill

Spec == Init /\ [][Next]_vars

\* The script and the container it waits for run, and bounded commands end; a
\* stop that does not succeed is cut off by its time limit.
Fairness ==
    /\ WF_vars(Script \/ (pc \in Working /\ job.step = "failed" /\ Interrupt))
    /\ WF_vars(Maintain /\ UNCHANGED scriptVars)

FairSpec == Spec /\ Fairness

-----------------------------------------------------------------------------
(* Properties.                                                             *)

\* The variables of the script have their declared shape.
TypeOK ==
    /\ RetentionTypeOK
    /\ pc \in Working \cup Trapped \cup Ended
    /\ target \in Names \cup {None} /\ cutoff \in 0..MaxInserts
    /\ cycle \in 0..MaxCycles
    /\ writersStopped \in BOOLEAN /\ attempted \in BOOLEAN
    /\ attempts \in 0..RecoveryAttempts

\* While a cycle copies or deletes, no writer runs, although stopping them takes
\* several steps and may be cut off.
QuietMaintenance ==
    pc \in {"backup", "prune"} => up = {}

\* A script that ends with any other status than 75, and was not killed, leaves
\* every writer running, wherever it failed.
ExitTellsTruth ==
    [][pc \notin Ended /\ pc' \in {"exited", "completed"} => up' = Writers]_vars

\* A cycle that reports success left no row that it was to delete, and no asset
\* snapshot without a row.
CompletedIsClean ==
    [][pc # "completed" /\ pc' = "completed" => Eligible(cutoff, FALSE)' = {} /\ Orphans' = {}]_vars

\* Once stopped, the writers come back, or the script ends with status 75, which
\* says that they did not, or is killed, which says nothing.
MonitoringReturns ==
    pc = "stopping" ~> up = Writers \/ pc \in {"critical", "killed"}
=============================================================================
