--------------------------- MODULE SuricataIngest ---------------------------
(***************************************************************************)
(* ingest.py: the loop of tail_file that follows eve.json through          *)
(* rotations with a durable checkpoint (inode, offset), and process_line   *)
(* for one record.  Each system call the loop makes about the directory is *)
(* a step of its own, so that Suricata and logrotate act between them; the *)
(* database commit and the checkpoint are two steps, so that a crash can   *)
(* fall between them.                                                      *)
(*                                                                         *)
(* The cursor in memory equals the durable one whenever the loop goes on:  *)
(* a checkpoint that cannot be written ends the process.  Offsets count    *)
(* records.  Files only grow, so no size is ever behind the offset.        *)
(***************************************************************************)
EXTENDS EveDirectory

CONSTANTS
    StableObservations,  \* EOF_STABLE_OBSERVATIONS
    MaxCrashes,          \* bound on the crashes
    ScanRace             \* whether a rotation may fall between the stats of
                         \* one directory scan

ASSUME IngestAssumption ==
    /\ StableObservations \in Nat /\ StableObservations >= 2
    /\ MaxCrashes \in Nat
    /\ ScanRace \in BOOLEAN

VARIABLES
    ckpt,     \* position.json: the inode (NoInode at first) and the offset
    rows,     \* how many rows each record has in triage_events or ingest_failures
    pc,
    source,   \* the EveSource of this poll
    handle,   \* the file behind the open descriptor
    seen,     \* EOF observations made in a row
    purpose,  \* what the scan is for: "resolve" or "successor"
    listed,   \* names the scan still has to stat
    chain,    \* what it found: slot, compressed suffix and inode
    origin,   \* the file that was checkpointed first
    crashes,
    interrupted,  \* records whose row was committed when the process died
    retried       \* records that processing failed on, until they have a row

loopVars == <<pc, source, handle, seen, purpose, listed, chain>>
historyVars == <<origin, crashes, interrupted, retried>>
vars == <<dirVars, ckpt, rows, loopVars, historyVars>>

Records == Files \X (1..MaxRecords)
NoInode == <<NoFile, 0>>
Path == Slots \X BOOLEAN      \* eve.json.n, and whether it ends in .gz
NoHint == [path |-> <<0, FALSE>>, inode |-> NoInode]
NoSource == [path |-> <<0, FALSE>>, inode |-> NoInode, draining |-> FALSE, hint |-> NoHint]

\* os.stat: the inode under a name, NoInode when there is no such file.
StatOf(p) == IF dir[p[1]] # NoFile /\ (dir[p[1]] \in gz <=> p[2])
             THEN Inode(dir[p[1]]) ELSE NoInode
LiveInode == StatOf(<<0, FALSE>>)

Init ==
    /\ DirInit
    /\ ckpt = [inode |-> NoInode, offset |-> 0]
    /\ rows = [r \in Records |-> 0]
    /\ pc = "down"
    /\ source = NoSource
    /\ handle = NoFile
    /\ seen = 0
    /\ purpose = "resolve"
    /\ listed = {}
    /\ chain = {}
    /\ origin = NoFile
    /\ crashes = 0
    /\ interrupted = {}
    /\ retried = {}

-----------------------------------------------------------------------------
(* Choosing the file to read.                                              *)

\* Back to the top of the loop; the descriptor is closed.
Repoll ==
    /\ pc' = "poll"
    /\ source' = NoSource
    /\ handle' = NoFile
    /\ seen' = 0
    /\ listed' = {}
    /\ chain' = {}
    /\ UNCHANGED purpose

\* A checkpoint error ends the process with the checkpoint as it is.
FailClosed ==
    /\ pc' = "stopped"
    /\ source' = NoSource
    /\ handle' = NoFile
    /\ seen' = 0
    /\ listed' = {}
    /\ chain' = {}
    /\ UNCHANGED purpose

Start ==
    /\ pc \in {"down", "stopped"}
    /\ pc' = "poll"
    /\ UNCHANGED <<dirVars, ckpt, rows, source, handle, seen, purpose, listed, chain,
                   historyVars>>

\* The live file owns the checkpoint, or there is no checkpoint yet.
PollLive ==
    /\ pc = "poll"
    /\ LiveInode # NoInode
    /\ ckpt.inode \in {NoInode, LiveInode}
    /\ Len(log[dir[0]]) > ckpt.offset \/ dir[0] \in torn
    /\ source' = [NoSource EXCEPT !.inode = LiveInode]
    /\ pc' = "open"
    /\ UNCHANGED <<dirVars, ckpt, rows, handle, seen, purpose, listed, chain, historyVars>>

\* Another file does: find it.
PollRotated ==
    /\ pc = "poll"
    /\ LiveInode # NoInode
    /\ ckpt.inode \notin {NoInode, LiveInode}
    /\ pc' = "list"
    /\ purpose' = "resolve"
    /\ UNCHANGED <<dirVars, ckpt, rows, source, handle, seen, listed, chain, historyVars>>

ListDirectory ==
    /\ pc = "list"
    /\ listed' = {p \in Path : StatOf(p) # NoInode}
    /\ chain' = {}
    /\ pc' = "scan"
    /\ UNCHANGED <<dirVars, ckpt, rows, source, handle, seen, purpose, historyVars>>

\* A name that is gone by now is passed over.  os.scandir promises no order; it
\* makes no difference while the directory stands still.
StatEntry(p) ==
    /\ pc = "scan"
    /\ p \in listed
    /\ ScanRace \/ \A q \in listed : q[1] <= p[1]
    /\ listed' = listed \ {p}
    /\ chain' = IF StatOf(p) = NoInode THEN chain
                ELSE chain \cup {[path |-> p, inode |-> StatOf(p)]}
    /\ UNCHANGED <<dirVars, ckpt, rows, pc, source, handle, seen, purpose, historyVars>>

\* The oldest entry with the inode, and the entry after an entry: a higher slot
\* is an older file.
EntriesOf(inode) ==
    {e \in chain : e.inode = inode /\ \A d \in chain : d.inode = inode => d.path[1] <= e.path[1]}
Successors(e) ==
    {s \in chain : /\ s.path[1] < e.path[1]
                   /\ \A d \in chain : d.path[1] < e.path[1] => d.path[1] <= s.path[1]}

\* _resolve_checkpoint_source: drain the archive that owns the checkpoint, and
\* remember which file follows it.  An archive that is gone was not read for all
\* an offset says.
ResolveSource ==
    /\ pc = "scan" /\ listed = {} /\ purpose = "resolve"
    /\ \/ EntriesOf(ckpt.inode) = {} /\ FailClosed
       \/ \E e \in EntriesOf(ckpt.inode) :
            \/ e.path[1] = 0 /\ Repoll
            \/ e.path[1] # 0 /\ e.path[2] /\ FailClosed
            \/ /\ e.path[1] # 0 /\ ~e.path[2]
               /\ \E hint \in IF Successors(e) = {} THEN {NoHint} ELSE Successors(e) :
                    source' = [path |-> e.path, inode |-> e.inode,
                               draining |-> TRUE, hint |-> hint]
               /\ pc' = "open"
               /\ UNCHANGED <<handle, seen, purpose, listed, chain>>
    /\ UNCHANGED <<dirVars, ckpt, rows, historyVars>>

\* Mutant: the identity of the opened file is not compared.
OpensAnything == StatOf(source.path) # NoInode

OpensSource == StatOf(source.path) = source.inode

\* A name that is gone or that holds another file by now is not read.
Open ==
    /\ pc = "open"
    /\ IF OpensSource
       THEN /\ handle' = dir[source.path[1]]
            /\ pc' = "read"
            /\ listed' = {} /\ chain' = {}
            /\ UNCHANGED <<source, seen, purpose>>
       ELSE Repoll
    /\ UNCHANGED <<dirVars, ckpt, rows, historyVars>>

-----------------------------------------------------------------------------
(* One record (process_line) and its checkpoint.                           *)

Here == <<handle, ckpt.offset + 1>>
HasRecord == pc = "read" /\ ckpt.offset < Len(log[handle])
Kind == log[handle][ckpt.offset + 1]

\* Mutant: no duplicate check.
NeverDuplicate == FALSE

\* The same flow, signature and timestamp already have a row.
IsDuplicate == Kind = "flow" /\ rows[Here] > 0

\* Nothing to keep: a blank line, another event, a duplicate.
SkipRecord ==
    /\ HasRecord
    /\ Kind = "other" \/ IsDuplicate
    /\ pc' = "save"
    /\ UNCHANGED <<dirVars, ckpt, rows, source, handle, seen, purpose, listed, chain,
                   historyVars>>

MakeDurable ==
    /\ rows' = [rows EXCEPT ![Here] = @ + 1]
    /\ retried' = retried \ {Here}
    /\ pc' = "save"
    /\ UNCHANGED <<dirVars, ckpt, source, handle, seen, purpose, listed, chain,
                   origin, crashes, interrupted>>

\* The triage row is committed (or the alert quarantined, when the table's
\* constraints refuse it).
PersistAlert ==
    /\ HasRecord
    /\ Kind \in {"flow", "flowless"} /\ ~IsDuplicate
    /\ MakeDurable

\* A complete line that is no alert anyone can triage goes to ingest_failures.
QuarantineLine ==
    /\ HasRecord
    /\ Kind = "bad"
    /\ MakeDurable

\* The model or the database failed: the file is reopened at the same record.
RetryRecord ==
    /\ HasRecord
    /\ Kind # "other" /\ ~IsDuplicate
    /\ retried' = retried \cup {Here}
    /\ Repoll
    /\ UNCHANGED <<dirVars, ckpt, rows, origin, crashes, interrupted>>

SaveOffset ==
    /\ pc = "save"
    /\ ckpt' = [inode |-> source.inode, offset |-> ckpt.offset + 1]
    /\ origin' = IF origin = NoFile THEN handle ELSE origin
    /\ pc' = "read"
    /\ UNCHANGED <<dirVars, rows, source, handle, seen, purpose, listed, chain,
                   crashes, interrupted, retried>>

-----------------------------------------------------------------------------
(* The end of a file.                                                      *)

AtEnd == ckpt.offset = Len(log[handle])

\* A record without its newline is left for a later poll.
AwaitNewline ==
    /\ pc = "read" /\ AtEnd
    /\ handle \in torn
    /\ Repoll
    /\ UNCHANGED <<dirVars, ckpt, rows, historyVars>>

SeeEof ==
    /\ pc = "read" /\ AtEnd
    /\ handle \notin torn
    /\ pc' = "eof"
    /\ seen' = 0
    /\ UNCHANGED <<dirVars, ckpt, rows, source, handle, purpose, listed, chain, historyVars>>

\* Mutant: the first end of file is taken for the end of the file.
ObserveOnce ==
    /\ pc = "eof"
    /\ seen' = 1
    /\ pc' = "settled"
    /\ UNCHANGED <<dirVars, ckpt, rows, source, handle, purpose, listed, chain, historyVars>>

\* Mutant: one observation too many.
ObserveBeyond ==
    /\ pc = "eof"
    /\ IF AtEnd /\ handle \notin torn
       THEN /\ seen' = seen + 1
            /\ pc' = IF seen + 1 > StableObservations THEN "settled" ELSE "eof"
       ELSE /\ seen' = 0
            /\ pc' = "read"
    /\ UNCHANGED <<dirVars, ckpt, rows, source, handle, purpose, listed, chain, historyVars>>

\* _await_stable_eof: one look at the size of the open file.
Observe ==
    /\ pc = "eof"
    /\ IF AtEnd /\ handle \notin torn
       THEN /\ seen' = seen + 1
            /\ pc' = IF seen + 1 >= StableObservations THEN "settled" ELSE "eof"
       ELSE /\ seen' = 0
            /\ pc' = "read"
    /\ UNCHANGED <<dirVars, ckpt, rows, source, handle, purpose, listed, chain, historyVars>>

\* Mid-rename, or still the live file.
StayOnFile ==
    /\ pc = "settled"
    /\ LiveInode = NoInode \/ (~source.draining /\ LiveInode = source.inode)
    /\ Repoll
    /\ UNCHANGED <<dirVars, ckpt, rows, historyVars>>

LeaveFile ==
    /\ pc = "settled"
    /\ LiveInode # NoInode
    /\ source.draining \/ LiveInode # source.inode
    /\ pc' = "list"
    /\ purpose' = "successor"
    /\ UNCHANGED <<dirVars, ckpt, rows, source, handle, seen, listed, chain, historyVars>>

\* Mutant: the drained file is followed by the live one.
FollowingLive == {[path |-> <<0, FALSE>>, inode |-> LiveInode]}

\* The entry after the drained file; when the file is no longer in the chain,
\* the one recorded before draining, if its name still holds it.
Following ==
    LET found == UNION {Successors(e) : e \in EntriesOf(source.inode)} IN
    IF found # {} THEN found
    ELSE IF source.hint # NoHint /\ StatOf(source.hint.path) = source.hint.inode
         THEN {source.hint}
         ELSE {}

FollowSuccessor ==
    /\ pc = "scan" /\ listed = {} /\ purpose = "successor"
    /\ \/ \E e \in Following :
            \/ e.path[2] /\ FailClosed /\ UNCHANGED ckpt
            \/ ~e.path[2] /\ ckpt' = [inode |-> e.inode, offset |-> 0] /\ Repoll
       \/ Following = {} /\ FailClosed /\ UNCHANGED ckpt
    /\ UNCHANGED <<dirVars, rows, historyVars>>

\* The process dies, or the checkpoint cannot be written.
Crash ==
    /\ pc \notin {"down", "stopped"}
    /\ crashes < MaxCrashes
    /\ crashes' = crashes + 1
    /\ interrupted' = IF pc = "save" THEN interrupted \cup {Here} ELSE interrupted
    /\ pc' = "down"
    /\ source' = NoSource
    /\ handle' = NoFile
    /\ seen' = 0
    /\ listed' = {}
    /\ chain' = {}
    /\ UNCHANGED <<dirVars, ckpt, rows, purpose, origin, retried>>

-----------------------------------------------------------------------------
Ingest ==
    \/ Start
    \/ PollLive \/ PollRotated
    \/ ListDirectory
    \/ \E p \in Path : StatEntry(p)
    \/ ResolveSource
    \/ Open
    \/ SkipRecord \/ PersistAlert \/ QuarantineLine \/ RetryRecord \/ SaveOffset
    \/ AwaitNewline \/ SeeEof \/ Observe
    \/ StayOnFile \/ LeaveFile
    \/ FollowSuccessor

\* The settle interval is long enough: Suricata writes no more to a file that
\* stayed at its end for all observations, until the loop reads on, and never to
\* one that the loop has left.
LookedAway ==
    \/ pc \in {"settled", "list", "scan"} /\ handle = writer /\ seen >= StableObservations
    \/ ckpt.inode # NoInode /\ writer < ckpt.inode[1]

\* Suricata and logrotate.
World ==
    /\ \/ Write /\ ~LookedAway
       \/ Reopen
       \/ Rotate /\ (ScanRace \/ pc # "scan")
    /\ UNCHANGED <<ckpt, rows, loopVars, historyVars>>

Next == Ingest \/ Crash \/ World

Spec == Init /\ [][Next]_vars

\* The loop keeps running and is restarted; the database and the model do not
\* fail on one record for ever; Suricata ends its lines and moves to the live
\* file, and logrotate ends a rotation it began.
Fairness ==
    /\ WF_vars(Ingest)
    /\ SF_vars(PersistAlert \/ QuarantineLine)
    /\ WF_vars(World /\ \E k \in Kinds : FinishLine(k))
    /\ WF_vars(World /\ Reopen)
    /\ WF_vars(World /\ (Rename \/ CreateLive))

FairSpec == Spec /\ Fairness

-----------------------------------------------------------------------------
(* Properties.                                                             *)

Entry == [path : Path, inode : (Files \cup {NoFile}) \X (0..2)]

\* Every variable has its declared shape.
TypeOK ==
    /\ log \in [Files -> Seq(Kinds)]
    /\ torn \subseteq Files /\ gz \subseteq Files
    /\ born \in Files /\ writer \in Files
    /\ dir \in [Slots -> Files \cup {NoFile}]
    /\ copies \in [Files -> 0..2]
    /\ shift \in Slots \cup {NoFile}
    /\ ckpt \in [inode : (Files \cup {NoFile}) \X (0..2), offset : 0..MaxRecords]
    /\ rows \in [Records -> Nat]
    /\ pc \in {"down", "stopped", "poll", "list", "scan", "open", "read", "save", "eof",
              "settled"}
    /\ source \in [path : Path, inode : (Files \cup {NoFile}) \X (0..2),
                   draining : BOOLEAN, hint : Entry]
    /\ handle \in Files \cup {NoFile}
    /\ seen \in 0..StableObservations
    /\ purpose \in {"resolve", "successor"}
    /\ listed \subseteq Path
    /\ chain \subseteq Entry
    /\ origin \in Files \cup {NoFile}
    /\ crashes \in 0..MaxCrashes
    /\ interrupted \subseteq Records /\ retried \subseteq Records

BehindCursor(r) ==
    /\ ckpt.inode # NoInode
    /\ \/ r[1] >= origin /\ r[1] < ckpt.inode[1]
       \/ r[1] = ckpt.inode[1] /\ r[2] <= ckpt.offset

\* No alert gap: every alert or malformed line behind the durable checkpoint,
\* in its file or an older one, has a row; through rotations, late appends,
\* compression, retries and crashes.
NoGap ==
    \A r \in Written : BehindCursor(r) /\ log[r[1]][r[2]] # "other" => rows[r] > 0

\* A record gets a second row only when the process died between its commit and
\* its checkpoint, and an alert with a flow id never does (is_duplicate).
DuplicatesOnlyAfterCrash ==
    \A r \in Written : rows[r] > 1 =>
        r \in interrupted /\ log[r[1]][r[2]] # "flow"

Handled == {r \in Written : rows[r] > 0}

\* The stream of records, whatever the names and inodes of its files.
Stream == INSTANCE AlertStream WITH
    Ignored <- "other", Preset <- FALSE,
    cursor <- IF ckpt.inode = NoInode THEN [file |-> NoFile, pos |-> 0]
              ELSE [file |-> ckpt.inode[1], pos |-> ckpt.offset],
    handled <- Handled

\* Ingest deals with the records in the order they were written.
StreamInOrder == Stream!Spec

\* The checkpointed file or the one after it was expired, or compressed at some time.
FileLost ==
    \E f \in Files :
        /\ ckpt.inode # NoInode /\ f \in {ckpt.inode[1], ckpt.inode[1] + 1}
        /\ f <= born
        /\ (\A n \in Slots : dir[n] # f) \/ f \in gz \/ copies[f] # 0

\* What Suricata wrote since the first checkpointed file and has no row yet.
Pending ==
    IF origin = NoFile THEN {}
    ELSE {r \in Written : r[1] >= origin /\ log[r[1]][r[2]] # "other" /\ rows[r] = 0}

\* Ingest catches up again and again, through rotations, failures and restarts,
\* unless a file it needs is lost.
CatchesUp == []<>(Pending = {} \/ FileLost)

-----------------------------------------------------------------------------
(* Claims of the documentation that the code does not keep.                *)

NewFile == ckpt.inode # NoInode /\ ckpt'.inode[1] # ckpt.inode[1]

\* "A second rotation that happens while ingest is still catching up drains the
\* displaced file before the new live file" (THREAT_MODEL.md).
DisplacedFileDrained == [][NewFile => ckpt'.inode[1] = ckpt.inode[1] + 1]_vars

\* "Retryable Ollama and SQLite failures block later records and leave the
\* failed record uncheckpointed" (THREAT_MODEL.md).
RetryBlocksLater ==
    \A r \in retried : ckpt.inode # NoInode /\ r[1] < ckpt.inode[1] => rows[r] > 0
=============================================================================
