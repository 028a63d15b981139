----------------------------- MODULE WazuhIngest -----------------------------
(***************************************************************************)
(* wazuh_ingest.py: process_available, which catches up over the archives  *)
(* of the days behind its checkpoint (date, offset, inode) and then reads  *)
(* alerts.json, _process_stream with its checkpoint after every record,    *)
(* and the loop of tail_wazuh around them.  Each look at the directory is  *)
(* a step of its own, so that the manager acts between them; the database  *)
(* commit and the checkpoint are two steps, so that a crash can fall       *)
(* between them.  Offsets count records.                                   *)
(*                                                                         *)
(* The state in memory equals the durable checkpoint whenever the loop     *)
(* goes on: a checkpoint that cannot be written ends the process.          *)
(***************************************************************************)
EXTENDS WazuhArchives

CONSTANTS
    StartMode,         \* WAZUH_START_MODE
    MaxStops,          \* bound on crashes and stop signals together
    StopWhileDraining, \* whether a stop signal may come while archives hold unread
                       \* records
    DayChangeInside    \* whether a day change may fall inside a drain or before the
                       \* first checkpoint

ASSUME IngestAssumption ==
    /\ StartMode \in {"beginning", "end"}
    /\ MaxStops \in Nat
    /\ StopWhileDraining \in BOOLEAN
    /\ DayChangeInside \in BOOLEAN

VARIABLES
    ckpt,      \* wazuh-position.json: date (NoDay at first), offset and inode
    rows,      \* how many rows each record has in triage_events or ingest_failures
    pc,
    current,   \* current_date, read at the top of process_available
    source,    \* whether the open stream is an archive or the live file
    handle,    \* the file behind it
    expected,  \* the inode stat-ed before the live file is opened
    stopping,  \* _stop
    stops,
    origin     \* the position of the first checkpoint

loopVars == <<pc, current, source, handle, expected, stopping>>
vars == <<worldVars, ckpt, rows, loopVars, stops, origin>>

Records == Days \X (1..MaxRecords)
NoPosition == [date |-> NoDay, offset |-> 0, inode |-> NoDay]
Origins == [date : Days \cup {NoDay}, offset : 0..MaxRecords]

\* r is not before the position p.
AtOrAfter(r, p) == r[1] > p.date \/ (r[1] = p.date /\ r[2] > p.offset)

Init ==
    /\ WorldInit
    /\ ckpt = NoPosition
    /\ rows = [r \in Records |-> 0]
    /\ pc = "down"
    /\ current = NoDay
    /\ source = "none"
    /\ handle = NoDay
    /\ expected = NoDay
    /\ stopping = FALSE
    /\ stops = 0
    /\ origin = [date |-> NoDay, offset |-> 0]

-----------------------------------------------------------------------------
(* Leaving a stream.                                                       *)

Go(next) ==
    /\ pc' = next
    /\ source' = "none"
    /\ handle' = NoDay
    /\ expected' = NoDay

\* The end of the process; a checkpoint error leaves the checkpoint as it is.
\* The container starts again.
Exit ==
    /\ Go("down")
    /\ current' = NoDay
    /\ stopping' = FALSE

\* process_available returns, or a rotation race is retried.
Repoll ==
    /\ Go("poll")
    /\ current' = NoDay
    /\ UNCHANGED stopping

-----------------------------------------------------------------------------
(* Start.                                                                  *)

Restart ==
    /\ pc = "down"
    /\ ckpt # NoPosition
    /\ Repoll
    /\ UNCHANGED <<worldVars, ckpt, rows, stops, origin>>

\* initialize_position stats the file, then reads its end, then its day.
FirstStart ==
    /\ pc = "down"
    /\ ckpt = NoPosition
    /\ live # NoDay
    /\ pc' = "first"
    /\ expected' = live
    /\ UNCHANGED <<worldVars, ckpt, rows, current, source, handle, stopping, stops, origin>>

FirstOffset == IF StartMode = "end" THEN Len(log[live]) ELSE 0

InitializePosition ==
    /\ pc = "first"
    /\ IF live = NoDay
       THEN Exit /\ UNCHANGED <<ckpt, origin>>
       ELSE /\ ckpt' = [date |-> mtime[live], offset |-> FirstOffset, inode |-> expected]
            /\ origin' = [date |-> mtime[live], offset |-> FirstOffset]
            /\ Repoll
    /\ UNCHANGED <<worldVars, rows, stops>>

-----------------------------------------------------------------------------
(* process_available.                                                      *)

\* Else the loop ends: a stop, a missing file, a checkpoint in the future.
MayPoll ==
    /\ ~stopping
    /\ live # NoDay
    /\ ckpt.date <= mtime[live]

LeaveLoop ==
    /\ pc = "poll"
    /\ ~MayPoll
    /\ Exit
    /\ UNCHANGED <<worldVars, ckpt, rows, stops, origin>>

Poll ==
    /\ pc = "poll"
    /\ MayPoll
    /\ current' = mtime[live]
    /\ pc' = "drain"
    /\ UNCHANGED <<worldVars, ckpt, rows, source, handle, expected, stopping, stops, origin>>

Behind == pc = "drain" /\ ckpt.date < current

\* The archive of the day is there and does not end before the checkpoint.  Only
\* gzip notices the second: a plain file can be positioned behind its end.
ArchiveReadable ==
    \/ archive[ckpt.date] = "plain"
    \/ archive[ckpt.date] = "gz" /\ ckpt.offset <= Len(log[ckpt.date])

MissingArchive ==
    /\ Behind
    /\ ~ArchiveReadable
    /\ Exit
    /\ UNCHANGED <<worldVars, ckpt, rows, stops, origin>>

OpenArchive ==
    /\ Behind
    /\ ArchiveReadable
    /\ source' = "archive"
    /\ handle' = ckpt.date
    /\ pc' = "read"
    /\ UNCHANGED <<worldVars, ckpt, rows, current, expected, stopping, stops, origin>>

\* Mutant: the inode of the live file is not compared with the checkpoint's.
AnyLiveAccepted == live # NoDay /\ Len(log[live]) >= ckpt.offset

\* The live file is the checkpointed one, or the first after a drain.
LiveAccepted ==
    /\ live # NoDay
    /\ ckpt.inode \in {NoDay, live}
    /\ Len(log[live]) >= ckpt.offset

StatLive ==
    /\ pc = "drain"
    /\ ckpt.date >= current
    /\ IF LiveAccepted
       THEN /\ expected' = live
            /\ pc' = "open"
            /\ UNCHANGED <<current, source, handle, stopping>>
       ELSE Exit
    /\ UNCHANGED <<worldVars, ckpt, rows, stops, origin>>

OpensExpected == live = expected

\* A name that holds another file by now is resolved again (WazuhRotationRace);
\* one that holds none ends the process.
OpenLive ==
    /\ pc = "open"
    /\ \/ OpensExpected /\ source' = "live" /\ handle' = live /\ pc' = "read"
                        /\ UNCHANGED <<current, expected, stopping>>
       \/ live = NoDay /\ Exit
       \/ ~OpensExpected /\ live # NoDay /\ Repoll
    /\ UNCHANGED <<worldVars, ckpt, rows, stops, origin>>

-----------------------------------------------------------------------------
(* One record (process_wazuh_record) and its checkpoint.                   *)

Here == <<handle, ckpt.offset + 1>>
HasRecord == pc = "read" /\ ~stopping /\ ckpt.offset < Len(log[handle])
Kind == log[handle][ckpt.offset + 1]

\* Mutant: no duplicate check.
NeverDuplicate == FALSE

\* The source's event id already has a row.
IsDuplicate == Kind = "alert" /\ rows[Here] > 0

SkipRecord ==
    /\ HasRecord
    /\ Kind = "low" \/ IsDuplicate
    /\ pc' = "save"
    /\ UNCHANGED <<worldVars, ckpt, rows, current, source, handle, expected, stopping,
                   stops, origin>>

MakeDurable ==
    /\ rows' = [rows EXCEPT ![Here] = @ + 1]
    /\ pc' = "save"
    /\ UNCHANGED <<worldVars, ckpt, current, source, handle, expected, stopping, stops, origin>>

PersistAlert == HasRecord /\ Kind = "alert" /\ ~IsDuplicate /\ MakeDurable

\* A complete line that is malformed or longer than MAX_RECORD_BYTES.
QuarantineLine == HasRecord /\ Kind = "bad" /\ MakeDurable

\* The model or the database failed: the stream is blocked at this record.
RetryRecord ==
    /\ HasRecord
    /\ Kind = "alert" /\ ~IsDuplicate
    /\ Repoll
    /\ UNCHANGED <<worldVars, ckpt, rows, stops, origin>>

\* Mutant: the offset is taken after the next line.
SaveLaterOffset ==
    /\ pc = "save"
    /\ ckpt' = [date |-> IF source = "archive" THEN handle ELSE current,
                offset |-> ckpt.offset + 2,
                inode |-> IF source = "archive" THEN NoDay ELSE expected]
    /\ pc' = "read"
    /\ UNCHANGED <<worldVars, rows, current, source, handle, expected, stopping, stops, origin>>

SaveOffset ==
    /\ pc = "save"
    /\ ckpt' = [date |-> IF source = "archive" THEN handle ELSE current,
                offset |-> ckpt.offset + 1,
                inode |-> IF source = "archive" THEN NoDay ELSE expected]
    /\ pc' = "read"
    /\ UNCHANGED <<worldVars, rows, current, source, handle, expected, stopping, stops, origin>>

-----------------------------------------------------------------------------
(* The end of a stream.                                                    *)

AtEnd == ckpt.offset >= Len(log[handle])

\* Mutant: the inode of the file before stays in the checkpoint.
NextDayKeepingInode ==
    /\ ckpt' = [ckpt EXCEPT !.date = @ + 1, !.offset = 0]
    /\ Go("drain")
    /\ UNCHANGED <<current, stopping>>

NextDay ==
    /\ ckpt' = [date |-> ckpt.date + 1, offset |-> 0, inode |-> NoDay]
    /\ Go("drain")
    /\ UNCHANGED <<current, stopping>>

\* Mutant: an archive without a final newline is taken for drained, and so is
\* one that was not read to its end.
FinishArchiveEarly ==
    /\ pc = "read" /\ source = "archive"
    /\ ~stopping
    /\ NextDay
    /\ UNCHANGED <<worldVars, rows, stops, origin>>

FinishArchive ==
    /\ pc = "read" /\ source = "archive"
    /\ ~stopping
    /\ AtEnd /\ handle \notin torn
    /\ NextDay
    /\ UNCHANGED <<worldVars, rows, stops, origin>>

\* A stop signal ends the loop over the records, and the result says complete.
StopInArchive ==
    /\ pc = "read" /\ source = "archive"
    /\ stopping
    /\ NextDay
    /\ UNCHANGED <<worldVars, rows, stops, origin>>

IncompleteArchive ==
    /\ pc = "read" /\ source = "archive"
    /\ ~stopping
    /\ AtEnd /\ handle \in torn
    /\ Exit
    /\ UNCHANGED <<worldVars, ckpt, rows, stops, origin>>

\* The end of the live file, or a record without its newline, waits for a poll.
FinishLive ==
    /\ pc = "read" /\ source = "live"
    /\ stopping \/ AtEnd
    /\ Repoll
    /\ UNCHANGED <<worldVars, ckpt, rows, stops, origin>>

-----------------------------------------------------------------------------
\* Records of earlier days still have to be read in this call, or may still come.
Unread ==
    /\ current # NoDay
    /\ \/ \E r \in Written : r[1] < current /\ AtOrAfter(r, ckpt)
       \/ live # NoDay /\ live < current

Draining ==
    \/ pc \in {"read", "save"} /\ source = "archive"
    \/ pc = "drain" /\ (ckpt.date < current \/ ckpt.inode = NoDay)

\* SIGTERM or SIGINT: the flag is looked at between records and between polls.
StopSignal ==
    /\ pc # "down" /\ ~stopping
    /\ stops < MaxStops
    /\ Unread => StopWhileDraining
    /\ stopping' = TRUE
    /\ stops' = stops + 1
    /\ UNCHANGED <<worldVars, ckpt, rows, pc, current, source, handle, expected, origin>>

\* The process dies, an archive is unreadable, or the checkpoint cannot be written.
Crash ==
    /\ pc # "down"
    /\ stops < MaxStops
    /\ stops' = stops + 1
    /\ Exit
    /\ UNCHANGED <<worldVars, ckpt, rows, origin>>

Ingest ==
    \/ Restart \/ FirstStart \/ InitializePosition
    \/ LeaveLoop \/ Poll
    \/ MissingArchive \/ OpenArchive
    \/ StatLive \/ OpenLive
    \/ SkipRecord \/ PersistAlert \/ QuarantineLine \/ RetryRecord \/ SaveOffset
    \/ FinishArchive \/ StopInArchive \/ IncompleteArchive \/ FinishLive

\* The live file changes under a drain or a first start, or was written to after
\* its day before there is a checkpoint.
DayChange ==
    \/ live = NoDay /\ live' # NoDay /\ (Draining \/ pc = "first")
    \/ ckpt = NoPosition /\ \E d \in Days : mtime'[d] # d

\* The Wazuh manager.
World ==
    /\ Write \/ Rotate
    /\ DayChange => DayChangeInside
    /\ UNCHANGED <<ckpt, rows, loopVars, stops, origin>>

Next == Ingest \/ StopSignal \/ Crash \/ World

Spec == Init /\ [][Next]_vars

\* The container is restarted and its loop runs on; the database and the model
\* do not fail on one record for ever; the manager ends its lines and completes
\* a rotation it began.
Fairness ==
    /\ WF_vars(Ingest)
    /\ SF_vars(PersistAlert \/ QuarantineLine)
    /\ WF_vars(World /\ \E k \in Kinds : FinishLine(k))
    /\ WF_vars(World /\ MoveToArchive)
    /\ SF_vars(World /\ CreateLive)

FairSpec == Spec /\ Fairness

-----------------------------------------------------------------------------
(* Properties.                                                             *)

Position == [date : Days \cup {NoDay}, offset : 0..MaxRecords, inode : Days \cup {NoDay}]

\* Every variable has its declared shape.
TypeOK ==
    /\ log \in [Days -> Seq(Kinds)]
    /\ torn \subseteq Days
    /\ today \in Days
    /\ live \in Days \cup {NoDay}
    /\ mtime \in [Days -> Days]
    /\ archive \in [Days -> {"none", "plain", "gz", "gone"}]
    /\ ckpt \in Position
    /\ rows \in [Records -> Nat]
    /\ pc \in {"down", "first", "poll", "drain", "open", "read", "save"}
    /\ current \in Days \cup {NoDay}
    /\ source \in {"none", "archive", "live"}
    /\ handle \in Days \cup {NoDay}
    /\ expected \in Days \cup {NoDay}
    /\ stopping \in BOOLEAN
    /\ stops \in 0..MaxStops
    /\ origin \in Origins

NeedsRow(r) == log[r[1]][r[2]] # "low"

\* No alert gap: every alert or malformed line between the first checkpoint and
\* the present one has a row, through day changes, compression, retries,
\* crashes and restarts.
NoGap ==
    ckpt # NoPosition =>
        \A r \in Written :
            AtOrAfter(r, origin) /\ ~AtOrAfter(r, ckpt) /\ NeedsRow(r) => rows[r] > 0

\* However often a record is read again, an alert is stored once (is_duplicate).
AlertStoredOnce ==
    \A r \in Written : log[r[1]][r[2]] = "alert" => rows[r] <= 1

Handled == {r \in Written : rows[r] > 0}

\* The stream of records, whatever files hold them.
Stream == INSTANCE AlertStream WITH
    MaxFiles <- MaxDays, NoFile <- NoDay, Preset <- TRUE, Ignored <- "low",
    cursor <- [file |-> ckpt.date, pos |-> ckpt.offset],
    handled <- Handled

\* Ingest deals with the records in the order they were written.
StreamInOrder == Stream!Spec

\* What the manager wrote since the first checkpoint and ingest still owes a row.
Pending ==
    IF ckpt = NoPosition THEN {}
    ELSE {r \in Written : AtOrAfter(r, origin) /\ NeedsRow(r) /\ rows[r] = 0}

\* Ingest catches up again and again, through day changes, failures and restarts
\* (CatchesUp), unless the archive it needs next was deleted or lacks its last newline.
Irrecoverable ==
    \E d \in Days : d = ckpt.date /\ (archive[d] = "gone" \/ (d # live /\ d \in torn))

CatchesUp == []<>(Pending = {} \/ Irrecoverable)

-----------------------------------------------------------------------------
(* Claims of the documentation that the code does not keep.                *)

\* "It stops instead of skipping when a required archive is ... incomplete"
\* (wazuh-integration.md): a day is left only when its archive was dealt with.
DayLeftOnlyDrained ==
    [][\A r \in Written :
          ckpt # NoPosition /\ ckpt'.date > ckpt.date /\ r[1] = ckpt.date
              /\ AtOrAfter(r, origin) /\ NeedsRow(r) => rows[r] > 0]_vars

\* "test_local_midnight_rotation_drains_archive_before_new_inode": nothing is
\* read from a file while an older one has records that were not dealt with.
OldDayFirst ==
    pc = "save" => \A r \in Written :
        AtOrAfter(r, origin) /\ r[1] < handle /\ NeedsRow(r) => rows[r] > 0
=============================================================================
