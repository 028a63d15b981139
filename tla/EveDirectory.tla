---------------------------- MODULE EveDirectory ----------------------------
(***************************************************************************)
(* The world Suricata ingest reads from: Suricata appending JSON lines     *)
(* through the descriptor it holds, and logrotate renaming, compressing    *)
(* and removing the files beside the live eve.json.  None of this is code  *)
(* of the repository; it is what ingest.py expects of it.                  *)
(*                                                                         *)
(* A file is numbered by its birth, a slot is a name: slot 0 is eve.json,  *)
(* slot n is eve.json.n (eve.json.n.gz when the file in it is compressed). *)
(* Rotation shifts the slots one rename at a time.                         *)
(***************************************************************************)
EXTENDS Naturals, Sequences, FiniteSets

CONSTANTS
    MaxFiles,    \* bound on the files ever created
    MaxSlot,     \* the rotate count of logrotate
    MaxRecords,  \* bound on the records ever written
    Kinds,       \* kinds of record Suricata writes
    Compression, \* whether archives are compressed
    NoFile

Files == 1..MaxFiles
Slots == 0..MaxSlot

\* "flow": an alert with a flow_id; "flowless": one without, which no
\* duplicate check covers; "bad": a complete line that cannot be an alert;
\* "other": a blank line or an event that is not an alert.
AllKinds == {"flow", "flowless", "bad", "other"}

ASSUME DirectoryAssumption ==
    /\ MaxFiles \in Nat \ {0}
    /\ MaxSlot \in Nat \ {0}
    /\ MaxRecords \in Nat
    /\ Kinds \subseteq AllKinds
    /\ Compression \in BOOLEAN
    /\ NoFile \notin Nat

VARIABLES
    log,     \* the complete records of each file, in order
    torn,    \* files that end in a record without its newline
    born,    \* the youngest file
    dir,     \* the file in each slot
    gz,      \* files that are compressed
    copies,  \* how often a file was rewritten under a new inode
    writer,  \* the file behind Suricata's descriptor
    shift    \* the slot a rotation moves next, NoFile between rotations

dirVars == <<log, torn, born, dir, gz, copies, writer, shift>>

Inode(f) == <<f, copies[f]>>
Written == {r \in Files \X (1..MaxRecords) : r[2] <= Len(log[r[1]])}

DirInit ==
    /\ log = [f \in Files |-> <<>>]
    /\ torn = {}
    /\ born = 1
    /\ dir = [n \in Slots |-> IF n = 0 THEN 1 ELSE NoFile]
    /\ gz = {}
    /\ copies = [f \in Files |-> 0]
    /\ writer = 1
    /\ shift = NoFile

-----------------------------------------------------------------------------
\* An append that a reader can see before its newline.
StartLine ==
    /\ writer \notin torn
    /\ Cardinality(Written) < MaxRecords
    /\ torn' = torn \cup {writer}
    /\ UNCHANGED <<log, born, dir, gz, copies, writer, shift>>

FinishLine(k) ==
    /\ writer \in torn
    /\ log' = [log EXCEPT ![writer] = Append(@, k)]
    /\ torn' = torn \ {writer}
    /\ UNCHANGED <<born, dir, gz, copies, writer, shift>>

\* Suricata moves to the live file some time after it was created.
Reopen ==
    /\ dir[0] \notin {NoFile, writer}
    /\ writer \notin torn
    /\ writer' = dir[0]
    /\ UNCHANGED <<log, torn, born, dir, gz, copies, shift>>

\* A rotation first unlinks the archive in the last slot.  It does not begin
\* while Suricata still holds a file that an earlier one renamed.
StartRotation ==
    /\ shift = NoFile
    /\ writer = dir[0]
    /\ born < MaxFiles
    /\ shift' = MaxSlot
    /\ dir' = [dir EXCEPT ![MaxSlot] = NoFile]
    /\ UNCHANGED <<log, torn, born, gz, copies, writer>>

Rename ==
    /\ shift # NoFile /\ shift > 0
    /\ dir' = [dir EXCEPT ![shift] = dir[shift - 1], ![shift - 1] = NoFile]
    /\ shift' = shift - 1
    /\ UNCHANGED <<log, torn, born, gz, copies, writer>>

CreateLive ==
    /\ shift = 0
    /\ born' = born + 1
    /\ dir' = [dir EXCEPT ![0] = born + 1]
    /\ shift' = NoFile
    /\ UNCHANGED <<log, torn, gz, copies, writer>>

\* gzip writes a copy and unlinks the original; a tool that works in place
\* keeps the inode.
Compress(n, fresh) ==
    /\ Compression
    /\ n > 0 /\ shift = NoFile
    /\ dir[n] \notin gz \cup {NoFile, writer}
    /\ copies[dir[n]] = 0
    /\ gz' = gz \cup {dir[n]}
    /\ copies' = IF fresh THEN [copies EXCEPT ![dir[n]] = 1] ELSE copies
    /\ UNCHANGED <<log, torn, born, dir, writer, shift>>

\* What a stopped ingest asks of the operator.
Decompress(n) ==
    /\ n > 0 /\ shift = NoFile
    /\ dir[n] \in gz
    /\ gz' = gz \ {dir[n]}
    /\ copies' = [copies EXCEPT ![dir[n]] = 2]
    /\ UNCHANGED <<log, torn, born, dir, writer, shift>>

Write == StartLine \/ \E k \in Kinds : FinishLine(k)

Rotate ==
    \/ StartRotation
    \/ Rename
    \/ CreateLive
    \/ \E n \in Slots : Decompress(n) \/ \E fresh \in BOOLEAN : Compress(n, fresh)
=============================================================================
