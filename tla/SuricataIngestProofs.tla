------------------------ MODULE SuricataIngestProofs ------------------------
(***************************************************************************)
(* What Suricata ingest keeps, for every number of files, slots, records   *)
(* and crashes.                                                            *)
(*                                                                         *)
(* TypeOK holds whatever happens.  The rest holds as long as no rename     *)
(* falls between two stats of one directory scan: the run                  *)
(* suricata_scan_race shows why.                                           *)
(***************************************************************************)
EXTENDS SuricataIngest, TLAPS, FiniteSetTheorems

\* Only Suricata's file ends in an unfinished line, and there is room for it and
\* for the file that a rotation will create.
Room ==
    /\ \A f \in Files : Len(log[f]) <= MaxRecords
    /\ torn \subseteq {writer}
    /\ torn # {} => Cardinality(Written) < MaxRecords
    /\ shift # NoFile => born < MaxFiles

\* The loop goes to the successor of the file it has drained.
Leaving == pc \in {"list", "scan"} /\ purpose = "successor"
Reading == pc \in {"read", "save", "eof", "settled"} \/ Leaving

Loop ==
    /\ Reading => handle \in Files
    /\ pc = "save" => ckpt.offset < Len(log[handle])
    /\ pc = "eof" => seen < StableObservations
    /\ pc = "open" => source.inode # NoInode
    /\ \A e \in chain : e.inode # NoInode

OnlyWritten == \A r \in Records : rows[r] > 0 => r \in Written

BaseInv == TypeOK /\ Room /\ Loop /\ OnlyWritten

\* The slots hold the youngest files in the order of their birth, without a gap.
InOrder ==
    /\ shift # NoFile => dir[shift] = NoFile
    /\ dir[IF shift = 0 THEN 1 ELSE 0] = born
    /\ \A n, m \in Slots : n < m /\ dir[n] # NoFile /\ dir[m] # NoFile => dir[m] < dir[n]
    /\ \A n \in Slots, f \in Files : dir[n] # NoFile /\ dir[n] <= f /\ f <= born =>
            \E k \in Slots : dir[k] = f

\* A scan sees the directory as it is.
Scanned ==
    pc = "scan" =>
        /\ \A e \in chain : e.inode = StatOf(e.path) /\ e.inode # NoInode
        /\ \A p \in Path : StatOf(p) # NoInode =>
                p \in listed \/ [path |-> p, inode |-> StatOf(p)] \in chain

\* The checkpoint lies in a file, and the file that is read is the checkpoint's.
OnTrack ==
    /\ IF ckpt.inode = NoInode
       THEN ckpt.offset = 0 /\ origin = NoFile
       ELSE /\ ckpt.inode[1] \in Files /\ origin \in Files /\ origin <= ckpt.inode[1]
            /\ ckpt.offset <= Len(log[ckpt.inode[1]])
    /\ pc = "open" \/ Reading =>
        /\ ckpt.inode \in {NoInode, source.inode}
        /\ source.inode[1] \in Files
        /\ source.hint # NoHint => source.hint.inode[1] = source.inode[1] + 1
        /\ ckpt.inode = NoInode =>
              Len(log[source.inode[1]]) > 0 \/ source.inode[1] \in torn
    /\ Reading => handle = source.inode[1]
    /\ pc \in {"eof", "settled"} \/ Leaving => ckpt.inode # NoInode
    /\ pc = "settled" \/ Leaving => AtEnd /\ handle \notin torn /\ seen >= StableObservations
    /\ pc = "save" /\ Kind # "other" => rows[Here] > 0

Passed(r) ==
    /\ ckpt.inode # NoInode
    /\ r[1] < ckpt.inode[1] \/ (r[1] = ckpt.inode[1] /\ r[2] <= ckpt.offset)

\* Ahead of the checkpoint, only a crash leaves rows behind.
NothingAhead ==
    \A r \in Records : rows[r] > 0 => r \in interrupted \/ Passed(r) \/ (pc = "save" /\ r = Here)

TrackInv ==
    /\ ~ScanRace
    /\ BaseInv
    /\ InOrder
    /\ Scanned
    /\ OnTrack
    /\ NothingAhead
    /\ DuplicatesOnlyAfterCrash
    /\ NoGap

-----------------------------------------------------------------------------
(* Suricata and logrotate.                                                 *)

Inodes == (Files \cup {NoFile}) \X (0..2)

LEMMA FileFacts ==
    /\ Files \subseteq Nat /\ NoFile \notin Files /\ NoFile \notin Nat /\ 1 \in Files
    /\ MaxFiles \in Nat /\ MaxRecords \in Nat
    /\ Slots \subseteq Nat /\ 0 \in Slots /\ 1 \in Slots /\ MaxSlot \in Slots /\ MaxSlot >= 1
    /\ NoFile \notin Slots
    /\ \A n \in Slots : n > 0 => n - 1 \in Slots
    /\ NoInode \in Inodes /\ NoInode[1] = NoFile
  BY DirectoryAssumption DEF Files, Slots, Inodes, NoInode

\* The records are finitely many, and a file holds no more than all of them.
LEMMA FileFits ==
    ASSUME log \in [Files -> Seq(Kinds)], NEW f \in Files, Len(log[f]) <= MaxRecords,
           Cardinality(Written) < MaxRecords
    PROVE  Len(log[f]) < MaxRecords
<1> DEFINE n == Len(log[f])
<1>1. n \in Nat /\ n <= MaxRecords OBVIOUS
<1>2. ASSUME NEW i \in 1..n PROVE <<f, i>> \in Written
  BY <1>1, FileFacts DEF Written
<1> HIDE DEF n
<1>3. {f} \X (1..n) \subseteq Written BY <1>2
<1>4. IsFiniteSet(Written)
  <2>1. IsFiniteSet(Files) /\ IsFiniteSet(1..MaxRecords)
    BY FileFacts, FS_Interval DEF Files
  <2>2. IsFiniteSet(Files \X (1..MaxRecords)) BY <2>1, FS_Product
  <2> QED BY <2>2, FS_Subset DEF Written
<1>5. IsFiniteSet({f}) /\ Cardinality({f}) = 1
  BY FS_Singleton
<1>6. IsFiniteSet(1..n) /\ Cardinality(1..n) = n
  <2>1. n \in Int /\ 1 \in Int BY <1>1
  <2>2. IsFiniteSet(1..n) /\ Cardinality(1..n) = IF 1 > n THEN 0 ELSE n - 1 + 1
    BY <2>1, FS_Interval
  <2> QED BY <1>1, <2>2
<1>7. Cardinality({f} \X (1..n)) = n
  <2> DEFINE A == {f}
             B == 1..n
  <2>1. /\ IsFiniteSet(A) /\ Cardinality(A) = 1
        /\ IsFiniteSet(B) /\ Cardinality(B) = n
    BY <1>5, <1>6
  <2> HIDE DEF A, B
  <2>2. Cardinality(A \X B) = 1 * n BY <2>1, FS_Product
  <2> QED BY <1>1, <2>2 DEF A, B
<1>8. Cardinality({f} \X (1..n)) <= Cardinality(Written)
  BY <1>3, <1>4, FS_Subset
<1>9. Cardinality(Written) \in Nat
  BY <1>4, FS_CardinalityType
<1>10. n < MaxRecords BY <1>1, <1>7, <1>8, <1>9, FileFacts
<1> QED BY <1>10 DEF n

DirType ==
    /\ log \in [Files -> Seq(Kinds)]
    /\ torn \subseteq Files /\ gz \subseteq Files
    /\ born \in Files /\ writer \in Files
    /\ dir \in [Slots -> Files \cup {NoFile}]
    /\ copies \in [Files -> 0..2]
    /\ shift \in Slots \cup {NoFile}

\* The place of the next record of a file.
Next1(f) == <<f, Len(log[f]) + 1>>

\* Records once written stay, at their place, and a new one comes last in
\* Suricata's file.
LogKept ==
    /\ \A f \in Files : /\ Len(log[f]) <= Len(log'[f])
                        /\ \A i \in 1..Len(log[f]) : log'[f][i] = log[f][i]
                        /\ f # writer => log'[f] = log[f]
    /\ Written \subseteq Written'
    /\ \A r \in Written' : r \in Written \/ r = Next1(writer)

LEMMA FinishLineEffect ==
    ASSUME DirType, Room, NEW k \in Kinds, FinishLine(k)
    PROVE  /\ log' \in [Files -> Seq(Kinds)] /\ LogKept
           /\ \A f \in Files : Len(log'[f]) <= MaxRecords
           /\ Len(log'[writer]) = Len(log[writer]) + 1
           /\ Next1(writer) \in Records \ Written
<1>1. writer \in Files /\ log \in [Files -> Seq(Kinds)] /\ writer \in torn
  BY DEF FinishLine, DirType
<1>2. log' = [log EXCEPT ![writer] = Append(log[writer], k)]
  BY DEF FinishLine
<1>3. Len(log[writer]) \in Nat /\ Len(log[writer]) < MaxRecords
  BY <1>1, FileFits DEF Room
<1>4. /\ log'[writer] = Append(log[writer], k)
      /\ Len(log'[writer]) = Len(log[writer]) + 1
      /\ \A i \in 1..Len(log[writer]) : log'[writer][i] = log[writer][i]
  BY <1>1, <1>2
<1>5. /\ log' \in [Files -> Seq(Kinds)]
      /\ \A f \in Files \ {writer} : log'[f] = log[f]
  BY <1>1, <1>2
<1>6. \A f \in Files : Len(log[f]) \in Nat /\ Len(log'[f]) \in Nat
  BY <1>1, <1>5
<1>7. Written \subseteq Written' /\ \A r \in Written' : r \in Written \/ r = Next1(writer)
  <2>1. ASSUME NEW f \in Files, NEW i \in 1..MaxRecords
        PROVE  i <= Len(log'[f]) <=> i <= Len(log[f]) \/ (f = writer /\ i = Len(log[writer]) + 1)
    BY <1>3, <1>4, <1>5, <1>6, FileFacts
  <2>3. ASSUME NEW r \in Files \X (1..MaxRecords)
        PROVE  r \in Written' <=> r \in Written \/ r = <<writer, Len(log[writer]) + 1>>
    <3>1. r = <<r[1], r[2]>> /\ r[1] \in Files /\ r[2] \in 1..MaxRecords OBVIOUS
    <3> QED BY <2>1, <3>1 DEF Written
  <2>4. /\ Written \subseteq Files \X (1..MaxRecords)
        /\ Written' \subseteq Files \X (1..MaxRecords)
    BY DEF Written
  <2> QED BY <2>3, <2>4 DEF Next1
<1>8. Next1(writer) \in Records \ Written
  BY <1>1, <1>3, FileFacts DEF Written, Records, Next1
<1>9. \A f \in Files : Len(log'[f]) <= MaxRecords
  BY <1>3, <1>4, <1>5, FileFacts, SMTT(60) DEF Room
<1>10. LogKept
  <2>1. ASSUME NEW f \in Files
        PROVE  /\ Len(log[f]) <= Len(log'[f])
               /\ \A i \in 1..Len(log[f]) : log'[f][i] = log[f][i]
               /\ f # writer => log'[f] = log[f]
    BY <1>3, <1>4, <1>5, <1>6
  <2> QED BY <1>7, <2>1 DEF LogKept
<1> QED BY <1>4, <1>5, <1>8, <1>9, <1>10

LEMMA SameLog ==
    ASSUME DirType, UNCHANGED log
    PROVE  LogKept /\ Written' = Written
<1>1. Written' = Written BY DEF Written
<1>2. \A f \in Files : Len(log[f]) \in Nat BY DEF DirType
<1> QED BY <1>1, <1>2 DEF LogKept

LEMMA WriteStep ==
    ASSUME DirType, Room, Write
    PROVE  /\ DirType' /\ Room' /\ LogKept
           /\ UNCHANGED <<born, dir, gz, copies, writer, shift>>
<1>1. CASE StartLine
  <2>1. /\ torn' = torn \cup {writer} /\ Cardinality(Written) < MaxRecords
        /\ UNCHANGED <<log, born, dir, gz, copies, writer, shift>>
    BY <1>1 DEF StartLine
  <2>2. DirType' BY <2>1 DEF DirType
  <2>3. Written' = Written /\ LogKept BY <2>1, SameLog
  <2>4. Room' BY <2>1, <2>3 DEF Room
  <2> QED BY <2>1, <2>2, <2>3, <2>4
<1>2. ASSUME NEW k \in Kinds, FinishLine(k)
      PROVE  /\ DirType' /\ Room' /\ LogKept
             /\ UNCHANGED <<born, dir, gz, copies, writer, shift>>
  <2>1. torn' = torn \ {writer} /\ UNCHANGED <<born, dir, gz, copies, writer, shift>>
    BY <1>2 DEF FinishLine
  <2>2. DirType' BY <1>2, <2>1, FinishLineEffect DEF DirType
  <2>3. torn' = {} BY <2>1 DEF Room
  <2>4. Room' BY <1>2, <2>1, <2>3, FinishLineEffect DEF Room
  <2> QED BY <1>2, <2>1, <2>2, <2>4, FinishLineEffect
<1> QED BY <1>1, <1>2 DEF Write

LEMMA RotateStep ==
    ASSUME DirType, Room, Reopen \/ Rotate
    PROVE  DirType' /\ Room' /\ UNCHANGED <<log, torn>>
<1> USE FileFacts
<1>1. UNCHANGED <<log, torn>> /\ Written' = Written
  BY DEF Reopen, Rotate, StartRotation, Rename, CreateLive, Compress, Decompress, Written
<1>2. CASE Reopen
  <2>1. /\ dir[0] \in Files /\ writer \notin torn /\ writer' = dir[0]
        /\ UNCHANGED <<born, dir, gz, copies, shift>>
    BY <1>2 DEF Reopen, DirType
  <2> QED BY <1>1, <2>1 DEF DirType, Room
<1>3. CASE StartRotation BY <1>1, <1>3 DEF StartRotation, DirType, Room
<1>4. CASE Rename
  <2>1. shift \in Slots /\ shift - 1 \in Slots BY <1>4 DEF Rename, DirType
  <2>2. dir' \in [Slots -> Files \cup {NoFile}] BY <1>4, <2>1 DEF Rename, DirType
  <2> QED BY <1>1, <1>4, <2>1, <2>2 DEF Rename, DirType, Room
<1>5. CASE CreateLive
  <2>1. born + 1 \in Files BY <1>5 DEF CreateLive, DirType, Room, Files
  <2> QED BY <1>1, <1>5, <2>1 DEF CreateLive, DirType, Room
<1>6. ASSUME NEW n \in Slots,
             Decompress(n) \/ \E fresh \in BOOLEAN : Compress(n, fresh)
      PROVE  DirType' /\ Room'
  <2>1. dir[n] \in Files
    <3>1. dir[n] \in Files \cup {NoFile} /\ gz \subseteq Files BY DEF DirType
    <3>2. CASE Decompress(n) BY <3>1, <3>2 DEF Decompress
    <3>3. ASSUME NEW fresh \in BOOLEAN, Compress(n, fresh) PROVE dir[n] \in Files
      BY <3>1, <3>3 DEF Compress
    <3> QED BY <1>6, <3>2, <3>3
  <2>2. gz' \subseteq Files /\ copies' \in [Files -> 0..2]
    <3>1. gz' \in {gz \cup {dir[n]}, gz \ {dir[n]}} BY <1>6 DEF Decompress, Compress
    <3>2. \/ copies' = copies
          \/ copies' = [copies EXCEPT ![dir[n]] = 1]
          \/ copies' = [copies EXCEPT ![dir[n]] = 2]
      <4>1. Decompress(n) => copies' = [copies EXCEPT ![dir[n]] = 2] BY DEF Decompress
      <4>2. \A fresh \in BOOLEAN : Compress(n, fresh) =>
               copies' = copies \/ copies' = [copies EXCEPT ![dir[n]] = 1]
        BY DEF Compress
      <4> QED BY <1>6, <4>1, <4>2
    <3>3. gz' \subseteq Files BY <2>1, <3>1 DEF DirType
    <3>4. copies' \in [Files -> 0..2]
      <4>1. copies \in [Files -> 0..2] /\ 1 \in 0..2 /\ 2 \in 0..2 BY DEF DirType
      <4> HIDE FileFacts
      <4> QED BY <2>1, <3>2, <4>1
    <3> QED BY <3>3, <3>4
  <2>3. UNCHANGED <<born, dir, writer, shift>> BY <1>6 DEF Decompress, Compress
  <2> QED BY <1>1, <2>2, <2>3 DEF DirType, Room
<1> QED BY <1>1, <1>2, <1>3, <1>4, <1>5, <1>6 DEF Rotate

-----------------------------------------------------------------------------
(* The loop: shapes.                                                       *)

LEMMA StatFacts ==
    ASSUME DirType, NEW p \in Path
    PROVE  /\ StatOf(p) \in Inodes
           /\ StatOf(p) # NoInode =>
                /\ dir[p[1]] \in Files /\ StatOf(p) = Inode(dir[p[1]])
                /\ StatOf(p)[1] = dir[p[1]]
           /\ p[1] \in Slots /\ p[2] \in BOOLEAN
<1>1. p[1] \in Slots /\ p[2] \in BOOLEAN BY DEF Path
<1>2. dir[p[1]] \in Files \cup {NoFile} BY <1>1 DEF DirType
<1>3. \A f \in Files : Inode(f) \in Inodes /\ Inode(f)[1] = f
  BY DEF DirType, Inode, Inodes
<1> QED BY <1>1, <1>2, <1>3, FileFacts DEF StatOf

LEMMA LiveFacts ==
    ASSUME DirType
    PROVE  /\ <<0, FALSE>> \in Path /\ LiveInode = StatOf(<<0, FALSE>>)
           /\ LiveInode \in Inodes
           /\ LiveInode # NoInode => /\ dir[0] \in Files /\ LiveInode = Inode(dir[0])
                                     /\ LiveInode[1] = dir[0]
<1>1. <<0, FALSE>> \in Path /\ <<0, FALSE>>[1] = 0 BY FileFacts DEF Path
<1> QED BY <1>1, StatFacts DEF LiveInode

Source == [path : Path, inode : Inodes, draining : BOOLEAN, hint : Entry]
Checkpoint == [inode : Inodes, offset : 0..MaxRecords]

LEMMA SourceFacts ==
    /\ NoHint \in Entry /\ NoHint.inode = NoInode
    /\ NoSource \in Source /\ NoSource.inode = NoInode /\ NoSource.hint = NoHint
    /\ NoSource.draining = FALSE /\ NoSource.path = <<0, FALSE>>
    /\ \A i \in Inodes : /\ [NoSource EXCEPT !.inode = i] \in Source
                         /\ [NoSource EXCEPT !.inode = i].inode = i
                         /\ [NoSource EXCEPT !.inode = i].hint = NoHint
  BY FileFacts DEF NoHint, NoSource, Entry, Source, Path, Inodes

LoopType ==
    /\ ckpt \in Checkpoint
    /\ rows \in [Records -> Nat]
    /\ pc \in {"down", "stopped", "poll", "list", "scan", "open", "read", "save", "eof",
               "settled"}
    /\ source \in Source
    /\ handle \in Files \cup {NoFile}
    /\ seen \in 0..StableObservations
    /\ purpose \in {"resolve", "successor"}
    /\ listed \subseteq Path
    /\ chain \subseteq Entry
    /\ origin \in Files \cup {NoFile}
    /\ crashes \in 0..MaxCrashes
    /\ interrupted \subseteq Records /\ retried \subseteq Records

LEMMA Types == TypeOK <=> DirType /\ LoopType
  BY DEF TypeOK, DirType, LoopType, Inodes, Source, Checkpoint

LEMMA TypesNext == DirType' /\ LoopType' => TypeOK'
  BY DEF TypeOK, DirType, LoopType, Inodes, Source, Checkpoint

\* The record that is read or saved is one of the log.
LEMMA HereWritten ==
    ASSUME BaseInv, HasRecord \/ pc = "save"
    PROVE  /\ Here \in Written /\ Here \in Records
           /\ handle \in Files /\ ckpt.offset \in Nat /\ ckpt.offset + 1 \in 0..MaxRecords
           /\ ckpt.offset + 1 <= Len(log[handle])
<1>1. handle \in Files /\ ckpt.offset < Len(log[handle]) /\ Len(log[handle]) <= MaxRecords
  BY DEF BaseInv, Loop, Room, HasRecord, Reading
<1>2. ckpt.offset \in Nat /\ Len(log[handle]) \in Nat
  BY <1>1, FileFacts, Types DEF BaseInv, LoopType, DirType, Checkpoint
<1> QED BY <1>1, <1>2, FileFacts DEF Here, Written, Records

\* Steps that leave the files and the rows alone.
LEMMA LoopOnly ==
    ASSUME BaseInv, UNCHANGED <<dirVars, rows>>, LoopType', Loop'
    PROVE  BaseInv'
<1>1. UNCHANGED <<log, torn, born, dir, gz, copies, writer, shift>> BY DEF dirVars
<1>2. DirType' /\ Room' /\ Written' = Written
  BY <1>1, Types DEF BaseInv, Room, DirType, Written
<1> QED BY <1>2, TypesNext DEF BaseInv, OnlyWritten

\* The descriptor is closed.
Closed ==
    /\ pc' \in {"poll", "stopped", "down"}
    /\ source' = NoSource /\ handle' = NoFile /\ seen' = 0 /\ listed' = {} /\ chain' = {}
    /\ UNCHANGED purpose

LEMMA CloseBase ==
    ASSUME BaseInv, Closed, UNCHANGED <<dirVars, rows, origin, retried>>,
           ckpt' \in Checkpoint, crashes' \in 0..MaxCrashes, interrupted' \subseteq Records
    PROVE  BaseInv'
<1>1. LoopType' BY SourceFacts, Types, IngestAssumption DEF BaseInv, LoopType, Closed
<1>2. Loop' BY DEF Loop, Reading, Leaving, Closed
<1> QED BY <1>1, <1>2, LoopOnly

LEMMA StopBase ==
    ASSUME BaseInv, Crash
    PROVE  BaseInv'
<1>1. /\ UNCHANGED <<dirVars, ckpt, rows, purpose, origin, retried>>
      /\ Closed /\ crashes' = crashes + 1 /\ crashes < MaxCrashes
      /\ interrupted' = IF pc = "save" THEN interrupted \cup {Here} ELSE interrupted
  BY DEF Crash, Closed
<1>2. interrupted' \subseteq Records
  BY <1>1, HereWritten, Types DEF BaseInv, LoopType
<1>3. ckpt' \in Checkpoint /\ crashes' \in 0..MaxCrashes
  BY <1>1, Types, IngestAssumption DEF BaseInv, LoopType
<1> QED BY <1>1, <1>2, <1>3, CloseBase

LEMMA BaseInit ==
    ASSUME Init
    PROVE  BaseInv
<1> USE FileFacts DEF Init, DirInit
<1>1. DirType BY DEF DirType, Files, Slots
<1>2. LoopType
  BY SourceFacts, IngestAssumption DEF LoopType, Checkpoint
<1>3. Written = {} BY DEF Written
<1>4. Room BY <1>3 DEF Room
<1>5. Loop BY DEF Loop, Reading, Leaving
<1>6. OnlyWritten BY DEF OnlyWritten
<1> QED BY <1>1, <1>2, <1>4, <1>5, <1>6, Types DEF BaseInv

\* An ingest step that only moves the loop.
Moves == UNCHANGED <<dirVars, ckpt, rows, historyVars>>

LEMMA MoveBase ==
    ASSUME BaseInv, Moves, Loop',
           pc' \in {"poll", "list", "scan", "open", "read", "save", "eof", "settled"},
           source' \in Source, handle' \in Files \cup {NoFile},
           seen' \in 0..StableObservations, purpose' \in {"resolve", "successor"},
           listed' \subseteq Path, chain' \subseteq Entry
    PROVE  BaseInv'
<1>1. LoopType' BY Types DEF BaseInv, LoopType, Moves, historyVars
<1> QED BY <1>1, LoopOnly DEF Moves

LEMMA RepollBase ==
    ASSUME BaseInv, Repoll \/ FailClosed, Moves
    PROVE  BaseInv'
<1>1. Closed BY DEF Repoll, FailClosed, Closed
<1>2. ckpt' \in Checkpoint /\ crashes' \in 0..MaxCrashes /\ interrupted' \subseteq Records
  BY Types DEF BaseInv, LoopType, Moves, historyVars
<1> QED BY <1>1, <1>2, CloseBase DEF Moves, historyVars

LEMMA StartBase ==
    ASSUME BaseInv, Start \/ PollLive \/ PollRotated
    PROVE  BaseInv'
<1> USE DEF LoopType, Loop, Reading, Leaving, Moves
<1>1. LoopType BY Types DEF BaseInv
<1>2. CASE Start BY <1>1, <1>2, MoveBase DEF Start, BaseInv
<1>3. CASE PollLive
  <2>1. source' \in Source BY <1>3, LiveFacts, SourceFacts, Types DEF PollLive, BaseInv
  <2> QED BY <1>1, <1>3, <2>1, MoveBase DEF PollLive, BaseInv
<1>4. CASE PollRotated BY <1>1, <1>4, MoveBase DEF PollRotated, BaseInv
<1> QED BY <1>2, <1>3, <1>4

LEMMA EntryType ==
    ASSUME DirType, NEW p \in Path
    PROVE  [path |-> p, inode |-> StatOf(p)] \in Entry
  BY StatFacts DEF Entry, Inodes

LEMMA ScanBase ==
    ASSUME BaseInv, ListDirectory \/ \E p \in Path : StatEntry(p)
    PROVE  BaseInv'
<1> USE DEF LoopType, Loop, Reading, Leaving, Moves
<1>1. LoopType /\ DirType BY Types DEF BaseInv
<1>2. CASE ListDirectory
  <2>1. listed' \subseteq Path /\ chain' \subseteq Entry BY <1>2 DEF ListDirectory
  <2> QED BY <1>1, <1>2, <2>1, MoveBase DEF ListDirectory, BaseInv
<1>3. ASSUME NEW p \in Path, StatEntry(p) PROVE BaseInv'
  <2>1. listed' \subseteq Path /\ chain' \subseteq Entry
    BY <1>1, <1>3, EntryType DEF StatEntry
  <2> QED BY <1>1, <1>3, <2>1, MoveBase DEF StatEntry, BaseInv
<1> QED BY <1>2, <1>3

LEMMA OpenBase ==
    ASSUME BaseInv, ResolveSource \/ Open
    PROVE  BaseInv'
<1> USE DEF Loop, Reading, Leaving, Moves
<1>1. LoopType /\ DirType BY Types DEF BaseInv
<1>2. CASE ResolveSource
  <2>1. Moves BY <1>2 DEF ResolveSource
  <2>2. CASE Repoll \/ FailClosed BY <2>1, <2>2, RepollBase
  <2>3. CASE ~(Repoll \/ FailClosed)
    <3>1. PICK e \in EntriesOf(ckpt.inode) :
            /\ \E hint \in IF Successors(e) = {} THEN {NoHint} ELSE Successors(e) :
                 source' = [path |-> e.path, inode |-> e.inode,
                            draining |-> TRUE, hint |-> hint]
            /\ pc' = "open"
            /\ UNCHANGED <<handle, seen, purpose, listed, chain>>
      BY <1>2, <2>3 DEF ResolveSource
    <3>2. EntriesOf(ckpt.inode) \subseteq Entry /\ Successors(e) \subseteq Entry
      BY <1>1 DEF EntriesOf, Successors, LoopType
    <3>3. source' \in Source /\ source'.inode # NoInode
      <4>1. e \in Entry /\ e.inode # NoInode
        BY <3>2 DEF BaseInv, EntriesOf
      <4>2. PICK hint \in Entry :
              source' = [path |-> e.path, inode |-> e.inode,
                         draining |-> TRUE, hint |-> hint]
        BY <3>1, <3>2, SourceFacts
      <4>3. e.path \in Path /\ e.inode \in Inodes BY <4>1 DEF Entry, Inodes
      <4>4. /\ source'.path = e.path /\ source'.inode = e.inode
            /\ source' \in Source
        BY <4>2, <4>3 DEF Source
      <4> QED BY <4>1, <4>4
    <3> QED BY <1>1, <2>1, <3>1, <3>3, MoveBase DEF LoopType, BaseInv
  <2> QED BY <2>2, <2>3
<1>3. CASE Open
  <2>1. Moves BY <1>3 DEF Open
  <2>2. CASE ~OpensSource BY <1>3, <2>1, <2>2, RepollBase DEF Open
  <2>3. CASE OpensSource
    <3>1. /\ handle' = dir[source.path[1]] /\ pc' = "read"
          /\ listed' = {} /\ chain' = {} /\ UNCHANGED <<source, seen, purpose>>
      BY <1>3, <2>3 DEF Open
    <3>2. handle' \in Files
      <4>1. /\ source.path \in Path /\ StatOf(source.path) = source.inode
            /\ source.inode # NoInode
        BY <1>1, <1>3, <2>3 DEF LoopType, Source, OpensSource, Open, BaseInv
      <4> QED BY <1>1, <3>1, <4>1, StatFacts
    <3> QED BY <1>1, <2>1, <3>1, <3>2, MoveBase DEF LoopType, BaseInv
  <2> QED BY <2>2, <2>3
<1> QED BY <1>2, <1>3

LEMMA RecordBase ==
    ASSUME BaseInv, SkipRecord \/ PersistAlert \/ QuarantineLine \/ RetryRecord \/ SaveOffset
    PROVE  BaseInv'
<1> USE DEF Loop, Reading, Leaving
<1>1. LoopType /\ DirType BY Types DEF BaseInv
<1>2. CASE SkipRecord
  <2>1. Loop' BY <1>2 DEF SkipRecord, HasRecord, BaseInv, dirVars
  <2> QED BY <1>1, <1>2, <2>1, MoveBase DEF SkipRecord, LoopType, Moves
<1>3. CASE PersistAlert \/ QuarantineLine
  <2>1. HasRecord /\ MakeDurable BY <1>3 DEF PersistAlert, QuarantineLine
  <2>2. Here \in Written /\ Here \in Records BY <2>1, HereWritten
  <2>3. rows' \in [Records -> Nat] /\ rows' = [rows EXCEPT ![Here] = rows[Here] + 1]
    BY <1>1, <2>1, <2>2 DEF MakeDurable, LoopType
  <2>4. LoopType'
    <3>1. retried' \subseteq Records BY <1>1, <2>1 DEF MakeDurable, LoopType
    <3> QED BY <1>1, <2>1, <2>3, <3>1 DEF MakeDurable, LoopType
  <2>5. Loop' BY <2>1 DEF MakeDurable, HasRecord, BaseInv, dirVars
  <2>6. UNCHANGED <<log, torn, born, dir, gz, copies, writer, shift>>
    BY <2>1 DEF MakeDurable, dirVars
  <2>7. DirType' /\ Room' /\ Written' = Written
    BY <1>1, <2>6 DEF BaseInv, DirType, Room, Written
  <2>8. OnlyWritten'
    BY <1>1, <2>2, <2>3, <2>7 DEF BaseInv, OnlyWritten, LoopType
  <2> QED BY <2>4, <2>5, <2>7, <2>8, TypesNext DEF BaseInv
<1>4. CASE RetryRecord
  <2>1. UNCHANGED <<dirVars, ckpt, rows, origin, crashes, interrupted>> /\ Repoll
        /\ HasRecord /\ retried' = retried \cup {Here}
    BY <1>4 DEF RetryRecord
  <2>2. Closed /\ retried' \subseteq Records
    BY <1>1, <2>1, HereWritten DEF Repoll, Closed, LoopType
  <2>3. LoopType' BY <1>1, <2>1, <2>2, SourceFacts, IngestAssumption DEF LoopType, Closed
  <2>4. Loop' BY <2>2 DEF Closed
  <2> QED BY <2>1, <2>3, <2>4, LoopOnly
<1>5. CASE SaveOffset
  <2>1. /\ pc = "save" /\ pc' = "read"
        /\ ckpt' = [inode |-> source.inode, offset |-> ckpt.offset + 1]
        /\ origin' = IF origin = NoFile THEN handle ELSE origin
        /\ UNCHANGED <<dirVars, rows, source, handle, seen, purpose, listed, chain,
                       crashes, interrupted, retried>>
    BY <1>5 DEF SaveOffset
  <2>2. ckpt' \in Checkpoint
    BY <1>1, <2>1, HereWritten DEF LoopType, Source, Checkpoint
  <2>3. LoopType' BY <1>1, <2>1, <2>2 DEF LoopType
  <2>4. Loop' BY <2>1 DEF BaseInv
  <2> QED BY <2>1, <2>3, <2>4, LoopOnly
<1> QED BY <1>2, <1>3, <1>4, <1>5

LEMMA EofBase ==
    ASSUME BaseInv, AwaitNewline \/ SeeEof \/ Observe \/ StayOnFile \/ LeaveFile
    PROVE  BaseInv'
<1> USE IngestAssumption DEF Loop, Reading, Leaving, Moves
<1>1. LoopType /\ DirType BY Types DEF BaseInv
<1>2. CASE AwaitNewline BY <1>2, RepollBase DEF AwaitNewline
<1>3. CASE SeeEof BY <1>1, <1>3, MoveBase DEF SeeEof, LoopType, BaseInv
<1>4. CASE Observe
  <2>1. /\ pc = "eof" /\ pc' \in {"read", "eof", "settled"}
        /\ seen' \in 0..StableObservations
        /\ pc' = "eof" => seen' < StableObservations
    BY <1>1, <1>4 DEF Observe, BaseInv, LoopType
  <2>2. UNCHANGED <<dirVars, ckpt, rows, source, handle, purpose, listed, chain, historyVars>>
    BY <1>4 DEF Observe
  <2> QED BY <1>1, <2>1, <2>2, MoveBase DEF LoopType, BaseInv
<1>5. CASE StayOnFile BY <1>5, RepollBase DEF StayOnFile
<1>6. CASE LeaveFile BY <1>1, <1>6, MoveBase DEF LeaveFile, LoopType, BaseInv
<1> QED BY <1>2, <1>3, <1>4, <1>5, <1>6

LEMMA FollowBase ==
    ASSUME BaseInv, FollowSuccessor
    PROVE  BaseInv'
<1>1. LoopType /\ DirType BY Types DEF BaseInv
<1>2. UNCHANGED <<dirVars, rows, historyVars>> BY DEF FollowSuccessor
<1>3. Closed BY DEF FollowSuccessor, Repoll, FailClosed, Closed
<1>4. ckpt' \in Checkpoint
  <2>1. Following \subseteq Entry
    <3>1. \A i, e : EntriesOf(i) \subseteq Entry /\ Successors(e) \subseteq Entry
      BY <1>1 DEF EntriesOf, Successors, LoopType
    <3>2. source.hint \in Entry BY <1>1 DEF LoopType, Source
    <3> QED BY <3>1, <3>2 DEF Following
  <2>2. \/ ckpt' = ckpt
        \/ \E e \in Following : ckpt' = [inode |-> e.inode, offset |-> 0]
    BY DEF FollowSuccessor
  <2>3. ASSUME NEW e \in Entry PROVE [inode |-> e.inode, offset |-> 0] \in Checkpoint
    BY FileFacts DEF Entry, Checkpoint, Inodes
  <2> QED BY <1>1, <2>1, <2>2, <2>3 DEF LoopType
<1>5. crashes' \in 0..MaxCrashes /\ interrupted' \subseteq Records
  BY <1>1, <1>2 DEF LoopType, historyVars
<1> QED BY <1>2, <1>3, <1>4, <1>5, CloseBase DEF historyVars

LEMMA WorldBase ==
    ASSUME BaseInv, World
    PROVE  BaseInv'
<1>1. LoopType /\ DirType BY Types DEF BaseInv
<1>2. UNCHANGED <<ckpt, rows, pc, source, handle, seen, purpose, listed, chain,
                  origin, crashes, interrupted, retried>>
  BY DEF World, loopVars, historyVars
<1>3. DirType' /\ Room' /\ LogKept
  <2>1. CASE Write BY <1>1, <2>1, WriteStep DEF BaseInv
  <2>2. CASE Reopen \/ Rotate BY <1>1, <2>2, RotateStep, SameLog DEF BaseInv
  <2> QED BY <2>1, <2>2 DEF World
<1>4. LoopType' BY <1>1, <1>2 DEF LoopType
<1>5. Loop'
  <2>1. pc = "save" => handle \in Files /\ ckpt.offset < Len(log[handle])
    BY DEF BaseInv, Loop, Reading
  <2>2. pc = "save" => ckpt.offset < Len(log'[handle])
    <3>1. \A f \in Files : Len(log[f]) \in Nat /\ Len(log'[f]) \in Nat
      BY <1>1, <1>3 DEF DirType
    <3>2. ckpt.offset \in Nat BY <1>1, FileFacts DEF LoopType, Checkpoint
    <3> QED BY <1>3, <2>1, <3>1, <3>2 DEF LogKept
  <2> QED BY <1>2, <2>2 DEF BaseInv, Loop, Reading, Leaving
<1>6. OnlyWritten' BY <1>2, <1>3 DEF BaseInv, OnlyWritten, LogKept
<1> QED BY <1>3, <1>4, <1>5, <1>6, TypesNext DEF BaseInv

LEMMA BaseStep ==
    ASSUME BaseInv, [Next]_vars
    PROVE  BaseInv'
<1>1. CASE Ingest
  BY <1>1, StartBase, ScanBase, OpenBase, RecordBase, EofBase, FollowBase DEF Ingest
<1>2. CASE Crash BY <1>2, StopBase
<1>3. CASE World BY <1>3, WorldBase
<1>4. CASE UNCHANGED vars
  <2>1. LoopType' BY <1>4, Types DEF BaseInv, LoopType, vars, loopVars, historyVars
  <2>2. Loop' BY <1>4 DEF BaseInv, Loop, Reading, Leaving, vars, dirVars, loopVars
  <2> QED BY <1>4, <2>1, <2>2, LoopOnly DEF vars
<1> QED BY <1>1, <1>2, <1>3, <1>4 DEF Next

\* The directory, the loop of tail_file and its checkpoint keep their shape
\* through every rotation, failure and crash, whatever the bounds.
THEOREM TypeCorrect == Spec => []TypeOK
<1>1. Init => BaseInv BY BaseInit
<1>2. BaseInv /\ [Next]_vars => BaseInv' BY BaseStep
<1>3. BaseInv => TypeOK BY DEF BaseInv
<1> QED BY <1>1, <1>2, <1>3, PTL DEF Spec

-----------------------------------------------------------------------------
(* The chain of files.                                                     *)

LEMMA OrderStep ==
    ASSUME DirType, Room, InOrder, Write \/ Reopen \/ Rotate
    PROVE  InOrder'
<1> USE FileFacts
<1>1. /\ born \in Nat /\ \A n \in Slots : dir[n] # NoFile => dir[n] \in Nat
      /\ shift # NoFile => shift \in Slots
  BY DEF DirType
<1>2. CASE UNCHANGED <<born, dir, shift>> BY <1>2 DEF InOrder
<1>3. CASE StartRotation
  <2>1. /\ shift = NoFile /\ shift' = MaxSlot /\ born' = born /\ dir[0] = born
        /\ dir'[MaxSlot] = NoFile /\ \A n \in Slots \ {MaxSlot} : dir'[n] = dir[n]
    BY <1>3 DEF StartRotation, DirType, InOrder
  <2>2. MaxSlot # 0 /\ \A n \in Slots : n <= MaxSlot BY DEF Slots
  <2>3. ASSUME NEW n \in Slots, NEW f \in Files,
               dir'[n] # NoFile, dir'[n] <= f, f <= born
        PROVE  \E k \in Slots : dir'[k] = f
    <3>1. n < MaxSlot /\ dir'[n] = dir[n] BY <2>1, <2>2, <2>3
    <3>2. PICK k \in Slots : dir[k] = f BY <2>3, <3>1 DEF InOrder
    <3>3. k # MaxSlot BY <1>1, <2>3, <3>1, <3>2 DEF InOrder
    <3> QED BY <2>1, <3>2, <3>3
  <2>4. \A n, m \in Slots : n < m /\ dir'[n] # NoFile /\ dir'[m] # NoFile => dir'[m] < dir'[n]
    BY <2>1 DEF InOrder
  <2> QED BY <2>1, <2>2, <2>3, <2>4 DEF InOrder
<1>4. CASE Rename
  <2> DEFINE from(n) == IF n = shift THEN shift - 1 ELSE n
  <2>1. /\ shift \in Slots /\ shift > 0 /\ shift - 1 \in Slots /\ shift' = shift - 1
        /\ born' = born /\ dir[shift] = NoFile
    BY <1>1, <1>4 DEF Rename, InOrder
  <2>2. /\ dir'[shift] = dir[shift - 1] /\ dir'[shift - 1] = NoFile
        /\ \A n \in Slots \ {shift, shift - 1} : dir'[n] = dir[n]
    BY <1>4, <2>1 DEF Rename, DirType
  <2>3. \A n \in Slots : dir'[n] # NoFile =>
           n # shift - 1 /\ from(n) \in Slots /\ dir'[n] = dir[from(n)]
    BY <2>1, <2>2
  <2>4. \A k \in Slots : dir[k] # NoFile => \E n \in Slots : dir'[n] = dir[k]
    BY <2>1, <2>2
  <2>5. \A n, m \in Slots \ {shift - 1} : n < m => from(n) < from(m)
    BY <2>1
  <2>6. dir'[IF shift' = 0 THEN 1 ELSE 0] = born
    BY <2>1, <2>2 DEF InOrder
  <2> HIDE DEF from
  <2>7. ASSUME NEW n \in Slots, NEW m \in Slots,
               n < m, dir'[n] # NoFile, dir'[m] # NoFile
        PROVE  dir'[m] < dir'[n]
    <3>1. /\ from(n) \in Slots /\ dir'[n] = dir[from(n)]
          /\ from(m) \in Slots /\ dir'[m] = dir[from(m)]
      BY <2>3, <2>7
    <3>2. from(n) < from(m) BY <2>3, <2>5, <2>7
    <3> QED BY <2>7, <3>1, <3>2 DEF InOrder
  <2>8. ASSUME NEW n \in Slots, NEW f \in Files,
               dir'[n] # NoFile, dir'[n] <= f, f <= born
        PROVE  \E k \in Slots : dir'[k] = f
    <3>1. from(n) \in Slots /\ dir[from(n)] # NoFile /\ dir[from(n)] <= f BY <2>3, <2>8
    <3>2. PICK k \in Slots : dir[k] = f BY <2>8, <3>1 DEF InOrder
    <3> QED BY <2>4, <3>2
  <2> QED BY <2>1, <2>2, <2>6, <2>7, <2>8 DEF InOrder
<1>5. CASE CreateLive
  <2>1. /\ shift = 0 /\ shift' = NoFile /\ born' = born + 1
        /\ dir[0] = NoFile /\ dir[1] = born /\ dir'[0] = born + 1
        /\ \A n \in Slots \ {0} : dir'[n] = dir[n]
    BY <1>5 DEF CreateLive, DirType, InOrder
  <2>2. \A n \in Slots \ {0} : n >= 1 BY DEF Slots
  <2>3. \A n \in Slots \ {0} : dir[n] # NoFile => dir[n] <= born
    BY <1>1, <2>1, <2>2 DEF InOrder
  <2>4. ASSUME NEW n \in Slots, NEW m \in Slots,
               n < m, dir'[n] # NoFile, dir'[m] # NoFile
        PROVE  dir'[m] < dir'[n]
    <3>1. m # 0 BY <2>4
    <3>2. CASE n = 0 BY <1>1, <2>1, <2>3, <2>4, <3>1, <3>2
    <3>3. CASE n # 0 BY <2>1, <2>4, <3>1, <3>3 DEF InOrder
    <3> QED BY <3>2, <3>3
  <2>5. ASSUME NEW n \in Slots, NEW f \in Files,
               dir'[n] # NoFile, dir'[n] <= f, f <= born'
        PROVE  \E k \in Slots : dir'[k] = f
    <3>1. CASE f = born + 1 BY <2>1, <3>1
    <3>2. CASE f # born + 1
      <4>1. f <= born BY <1>1, <2>1, <2>5, <3>2
      <4>2. n # 0 /\ dir'[n] = dir[n] BY <1>1, <2>1, <2>5, <4>1
      <4>3. PICK k \in Slots : dir[k] = f BY <2>5, <4>1, <4>2 DEF InOrder
      <4> QED BY <2>1, <4>3
    <3> QED BY <3>1, <3>2
  <2> QED BY <2>1, <2>4, <2>5 DEF InOrder
<1>6. ASSUME NEW n \in Slots,
             Decompress(n) \/ \E fresh \in BOOLEAN : Compress(n, fresh)
      PROVE  InOrder'
  BY <1>2, <1>6 DEF Decompress, Compress
<1>7. Write \/ Reopen => UNCHANGED <<born, dir, shift>>
  BY DEF Write, StartLine, FinishLine, Reopen
<1> QED BY <1>2, <1>3, <1>4, <1>5, <1>6, <1>7 DEF Rotate

LEMMA YoungestIsLast ==
    ASSUME DirType, InOrder, NEW n \in Slots, dir[n] # NoFile
    PROVE  dir[n] \in Files /\ dir[n] <= born
<1> USE FileFacts
<1> DEFINE top == IF shift = 0 THEN 1 ELSE 0
<1>1. /\ born \in Files /\ dir[n] \in Files /\ born \in Nat /\ dir[n] \in Nat
      /\ top \in Slots /\ dir[top] = born
  BY DEF DirType, InOrder
<1>2. n = top \/ top < n
  <2>1. shift = 0 => n # 0 BY DEF InOrder
  <2> QED BY <2>1 DEF Slots
<1> HIDE DEF top
<1>3. CASE n = top BY <1>1, <1>3
<1>4. CASE top < n BY <1>1, <1>4 DEF InOrder
<1> QED BY <1>1, <1>2, <1>3, <1>4

\* In a complete scan the entry after a file holds the next file.
LEMMA NextInChain ==
    ASSUME DirType, InOrder, Scanned, pc = "scan", listed = {}, chain \subseteq Entry,
           NEW e \in chain, NEW s \in Successors(e)
    PROVE  s \in chain /\ e.inode[1] \in Files /\ s.inode[1] = e.inode[1] + 1
<1> USE FileFacts
<1>1. s \in chain /\ s.path[1] < e.path[1]
      /\ \A d \in chain : d.path[1] < e.path[1] => d.path[1] <= s.path[1]
  BY DEF Successors
<1>2. \A d \in chain : /\ d.path \in Path /\ d.path[1] \in Slots
                       /\ dir[d.path[1]] \in Files /\ d.inode[1] = dir[d.path[1]]
  <2>1. ASSUME NEW d \in chain
        PROVE  /\ d.path \in Path /\ d.path[1] \in Slots
               /\ dir[d.path[1]] \in Files /\ d.inode[1] = dir[d.path[1]]
    <3>1. d.path \in Path BY DEF Entry
    <3>2. d.inode = StatOf(d.path) /\ d.inode # NoInode BY DEF Scanned
    <3> QED BY <3>1, <3>2, StatFacts
  <2> QED BY <2>1
<1> DEFINE n == e.path[1]
           m == s.path[1]
           f == dir[n]
<1>3. /\ n \in Slots /\ m \in Slots /\ m < n /\ f \in Files /\ dir[m] \in Files
      /\ e.inode[1] = f /\ s.inode[1] = dir[m]
  BY <1>1, <1>2
<1>4. \A k \in Slots : dir[k] # NoFile => \E d \in chain : d.path[1] = k
  <2>1. ASSUME NEW k \in Slots, dir[k] # NoFile PROVE \E d \in chain : d.path[1] = k
    <3>1. PICK p \in Path : p[1] = k /\ (dir[k] \in gz <=> p[2])
      <4>1. CASE dir[k] \in gz
        <5>1. <<k, TRUE>> \in Path /\ <<k, TRUE>>[1] = k /\ <<k, TRUE>>[2] BY DEF Path
        <5> QED BY <4>1, <5>1
      <4>2. CASE dir[k] \notin gz
        <5>1. <<k, FALSE>> \in Path /\ <<k, FALSE>>[1] = k /\ ~<<k, FALSE>>[2] BY DEF Path
        <5> QED BY <4>2, <5>1
      <4> QED BY <4>1, <4>2
    <3>2. StatOf(p) # NoInode
      <4>1. dir[k] \in Files /\ StatOf(p) = Inode(dir[k])
        BY <2>1, <3>1 DEF DirType, StatOf
      <4> QED BY <4>1 DEF Inode, NoInode
    <3>3. [path |-> p, inode |-> StatOf(p)] \in chain BY <3>1, <3>2 DEF Scanned
    <3> QED BY <3>1, <3>3
  <2> QED BY <2>1
<1> HIDE DEF n, m, f
<1>5. f < dir[m] /\ dir[m] <= born
  <2>1. f < dir[m] BY <1>3 DEF InOrder, f
  <2>2. dir[m] <= born BY <1>3, FileFacts, YoungestIsLast
  <2> QED BY <2>1, <2>2
<1>6. f \in Nat /\ dir[m] \in Nat /\ born \in Nat /\ f + 1 \in Files
  BY <1>3, <1>5 DEF DirType, Files
<1>7. PICK k \in Slots : dir[k] = f + 1
  <2> DEFINE g == f + 1
  <2>1. dir[n] # NoFile /\ dir[n] <= g /\ g \in Files /\ g <= born
    BY <1>3, <1>5, <1>6 DEF f
  <2> HIDE DEF g
  <2>2. \E k \in Slots : dir[k] = g BY <1>3, <2>1 DEF InOrder
  <2> QED BY <2>2 DEF g
<1>8. k < n
  <2>1. CASE k = n BY <1>6, <1>7, <2>1 DEF f
  <2>2. CASE n < k BY <1>3, <1>6, <1>7, <2>2 DEF InOrder, f
  <2> QED BY <1>3, <2>1, <2>2
<1>9. k <= m BY <1>1, <1>4, <1>6, <1>7, <1>8 DEF n, m
<1>10. dir[m] = f + 1
  <2>1. CASE k = m BY <1>7, <2>1
  <2>2. CASE k < m BY <1>3, <1>5, <1>6, <1>7, <2>2 DEF InOrder
  <2> QED BY <1>3, <1>9, <2>1, <2>2
<1> QED BY <1>1, <1>3, <1>10

-----------------------------------------------------------------------------
(* The loop keeps its place.                                               *)

LEMMA TrackTypes ==
    ASSUME TrackInv
    PROVE  /\ BaseInv /\ DirType /\ Room /\ LoopType /\ Loop /\ OnlyWritten
           /\ \A f \in Files : Len(log[f]) \in Nat
           /\ ckpt.offset \in Nat /\ ckpt.inode \in Inodes
           /\ source.inode \in Inodes /\ source.path \in Path /\ source.hint \in Entry
<1>1. BaseInv BY DEF TrackInv
<1>2. DirType /\ LoopType BY <1>1, Types DEF BaseInv
<1>3. Room /\ Loop /\ OnlyWritten BY <1>1 DEF BaseInv
<1>4. \A f \in Files : Len(log[f]) \in Nat BY <1>2 DEF DirType
<1>5. ckpt.offset \in Nat /\ ckpt.inode \in Inodes
  BY <1>2, FileFacts DEF LoopType, Checkpoint
<1>6. source.inode \in Inodes /\ source.path \in Path /\ source.hint \in Entry
  BY <1>2 DEF LoopType, Source
<1> QED BY <1>1, <1>2, <1>3, <1>4, <1>5, <1>6

\* While a file is read after the first checkpoint, it is the checkpoint's.
LEMMA ReadingFacts ==
    ASSUME TrackInv, Reading
    PROVE  /\ handle \in Files /\ handle = source.inode[1] /\ source.inode # NoInode
           /\ ckpt.inode # NoInode =>
                ckpt.inode = source.inode /\ handle = ckpt.inode[1] /\ origin \in Files
           /\ ckpt.inode = NoInode => ckpt.offset = 0 /\ origin = NoFile
<1>1. OnTrack /\ Loop BY TrackTypes DEF TrackInv
<1> QED BY <1>1, FileFacts DEF OnTrack, Loop

\* The part of OnTrack that says what the loop reads.
InPlace ==
    /\ pc = "open" \/ Reading =>
        /\ ckpt.inode \in {NoInode, source.inode}
        /\ source.inode[1] \in Files
        /\ source.hint # NoHint => source.hint.inode[1] = source.inode[1] + 1
        /\ ckpt.inode = NoInode =>
              Len(log[source.inode[1]]) > 0 \/ source.inode[1] \in torn
    /\ Reading => handle = source.inode[1]
    /\ pc \in {"eof", "settled"} \/ Leaving => ckpt.inode # NoInode
    /\ pc = "settled" \/ Leaving => AtEnd /\ handle \notin torn /\ seen >= StableObservations
    /\ pc = "save" /\ Kind # "other" => rows[Here] > 0

\* Steps that leave the files, the rows and the checkpoint alone.
LEMMA LoopTrack ==
    ASSUME TrackInv, BaseInv', UNCHANGED <<dirVars, ckpt, rows, origin>>,
           interrupted \subseteq interrupted',
           pc # "save" \/ Here \in interrupted', InPlace', Scanned'
    PROVE  TrackInv'
<1>1. UNCHANGED <<log, torn, born, dir, gz, copies, writer, shift>> BY DEF dirVars
<1>2. InOrder' BY <1>1 DEF TrackInv, InOrder
<1>3. OnTrack' BY <1>1 DEF TrackInv, OnTrack, InPlace
<1>4. Written' = Written BY <1>1 DEF Written
<1>5. NothingAhead' BY DEF TrackInv, NothingAhead, Passed
<1>6. DuplicatesOnlyAfterCrash' BY <1>1, <1>4 DEF TrackInv, DuplicatesOnlyAfterCrash
<1>7. NoGap' BY <1>1, <1>4 DEF TrackInv, NoGap, BehindCursor
<1> QED BY <1>2, <1>3, <1>5, <1>6, <1>7 DEF TrackInv

LEMMA CloseTrack ==
    ASSUME TrackInv, BaseInv', Closed, UNCHANGED <<dirVars, ckpt, rows, origin>>,
           interrupted \subseteq interrupted', pc # "save" \/ Here \in interrupted'
    PROVE  TrackInv'
<1>1. InPlace' /\ Scanned' BY DEF InPlace, Scanned, Reading, Leaving, Closed
<1> QED BY <1>1, LoopTrack

LEMMA RepollTrack ==
    ASSUME TrackInv, BaseInv', Repoll \/ FailClosed, Moves, pc # "save"
    PROVE  TrackInv'
<1>1. Closed BY DEF Repoll, FailClosed, Closed
<1> QED BY <1>1, CloseTrack DEF Moves, historyVars

LEMMA StartTrack ==
    ASSUME TrackInv, BaseInv', Start \/ PollLive \/ PollRotated
    PROVE  TrackInv'
<1> USE DEF InPlace, Scanned, Reading, Leaving, historyVars
<1>1. CASE Start BY <1>1, LoopTrack DEF Start
<1>2. CASE PollLive
  <2>1. /\ source'.inode = LiveInode /\ source'.hint = NoHint
        /\ dir[0] \in Files /\ LiveInode[1] = dir[0]
    BY <1>2, LiveFacts, SourceFacts, TrackTypes DEF PollLive
  <2>2. ckpt.inode = NoInode => Len(log[dir[0]]) > 0 \/ dir[0] \in torn
    BY <1>2 DEF PollLive, TrackInv, OnTrack
  <2>3. /\ pc = "poll" /\ pc' = "open" /\ ckpt.inode \in {NoInode, LiveInode}
        /\ UNCHANGED <<dirVars, ckpt, rows, handle, seen, purpose, listed, chain, historyVars>>
    BY <1>2 DEF PollLive
  <2>4. InPlace' BY <2>1, <2>2, <2>3 DEF dirVars
  <2> QED BY <2>3, <2>4, LoopTrack
<1>3. CASE PollRotated BY <1>3, LoopTrack DEF PollRotated
<1> QED BY <1>1, <1>2, <1>3

LEMMA ScanTrack ==
    ASSUME TrackInv, BaseInv', ListDirectory \/ \E p \in Path : StatEntry(p)
    PROVE  TrackInv'
<1>1. CASE ListDirectory
  <2>1. /\ pc = "list" /\ pc' = "scan"
        /\ listed' = {p \in Path : StatOf(p) # NoInode} /\ chain' = {}
        /\ UNCHANGED <<dirVars, ckpt, rows, source, handle, seen, purpose, historyVars>>
    BY <1>1 DEF ListDirectory
  <2>2. \A p : StatOf(p)' = StatOf(p) BY <2>1 DEF dirVars, StatOf, Inode
  <2>3. Scanned' BY <2>1, <2>2 DEF Scanned
  <2>4. InPlace'
    BY <2>1 DEF TrackInv, OnTrack, InPlace, Reading, Leaving, dirVars, AtEnd
  <2> QED BY <2>1, <2>3, <2>4, LoopTrack DEF historyVars
<1>2. ASSUME NEW p \in Path, StatEntry(p) PROVE TrackInv'
  <2>1. /\ pc = "scan" /\ pc' = "scan" /\ listed' = listed \ {p}
        /\ chain' = IF StatOf(p) = NoInode THEN chain
                    ELSE chain \cup {[path |-> p, inode |-> StatOf(p)]}
        /\ UNCHANGED <<dirVars, ckpt, rows, source, handle, seen, purpose, historyVars>>
    BY <1>2 DEF StatEntry
  <2>2. \A q : StatOf(q)' = StatOf(q) BY <2>1 DEF dirVars, StatOf, Inode
  <2>3. Scanned'
    <3>1. ASSUME NEW e \in chain'
          PROVE  e.inode = StatOf(e.path) /\ e.inode # NoInode
      <4>1. CASE e \in chain BY <2>1, <4>1 DEF TrackInv, Scanned
      <4>2. CASE e \notin chain
        <5>1. StatOf(p) # NoInode /\ e = [path |-> p, inode |-> StatOf(p)]
          BY <2>1, <3>1, <4>2
        <5> QED BY <5>1
      <4> QED BY <4>1, <4>2
    <3>2. ASSUME NEW q \in Path, StatOf(q) # NoInode
          PROVE  q \in listed' \/ [path |-> q, inode |-> StatOf(q)] \in chain'
      BY <2>1, <3>2 DEF TrackInv, Scanned
    <3> QED BY <2>2, <3>1, <3>2 DEF Scanned
  <2>4. InPlace'
    BY <2>1 DEF TrackInv, OnTrack, InPlace, Reading, Leaving, dirVars, AtEnd
  <2> QED BY <2>1, <2>3, <2>4, LoopTrack DEF historyVars
<1> QED BY <1>1, <1>2

LEMMA OpenTrack ==
    ASSUME TrackInv, BaseInv', ResolveSource \/ Open
    PROVE  TrackInv'
<1>1. CASE ResolveSource
  <2>1. Moves /\ pc = "scan" /\ listed = {} BY <1>1 DEF ResolveSource, Moves
  <2>2. CASE Repoll \/ FailClosed BY <2>1, <2>2, RepollTrack
  <2>3. CASE ~(Repoll \/ FailClosed)
    <3>1. PICK e \in EntriesOf(ckpt.inode) :
            /\ \E hint \in IF Successors(e) = {} THEN {NoHint} ELSE Successors(e) :
                 source' = [path |-> e.path, inode |-> e.inode,
                            draining |-> TRUE, hint |-> hint]
            /\ pc' = "open"
            /\ UNCHANGED <<handle, seen, purpose, listed, chain>>
      BY <1>1, <2>3 DEF ResolveSource
    <3>2. e \in chain /\ e.inode = ckpt.inode BY DEF EntriesOf
    <3>3. PICK hint : /\ source'.inode = e.inode /\ source'.hint = hint
                      /\ hint = NoHint \/ hint \in Successors(e)
      BY <3>1
    <3>4. hint # NoHint => hint.inode[1] = e.inode[1] + 1
      BY <2>1, <3>2, <3>3, NextInChain, TrackTypes DEF LoopType, TrackInv
    <3>5. ckpt.inode # NoInode /\ ckpt.inode[1] \in Files
      BY <2>1, <3>2 DEF TrackInv, Scanned, OnTrack
    <3>6. InPlace'
      BY <2>1, <3>1, <3>2, <3>3, <3>4, <3>5 DEF InPlace, Reading, Leaving, Moves
    <3>7. Scanned' BY <3>1 DEF Scanned
    <3> QED BY <2>1, <3>6, <3>7, LoopTrack DEF Moves, historyVars
  <2> QED BY <2>2, <2>3
<1>2. CASE Open
  <2>1. Moves /\ pc = "open" BY <1>2 DEF Open, Moves
  <2>2. CASE ~OpensSource BY <1>2, <2>1, <2>2, RepollTrack DEF Open
  <2>3. CASE OpensSource
    <3>1. /\ handle' = dir[source.path[1]] /\ pc' = "read"
          /\ UNCHANGED <<source, seen, purpose>>
      BY <1>2, <2>3 DEF Open
    <3>2. source.inode # NoInode BY <2>1, TrackTypes DEF Loop
    <3>3. handle' = source.inode[1]
      BY <2>3, <3>1, <3>2, StatFacts, TrackTypes DEF OpensSource
    <3>4. InPlace'
      BY <2>1, <3>1, <3>3 DEF TrackInv, OnTrack, InPlace, Reading, Leaving, Moves, dirVars
    <3>5. Scanned' BY <3>1 DEF Scanned
    <3> QED BY <2>1, <3>4, <3>5, LoopTrack DEF Moves, historyVars
  <2> QED BY <2>2, <2>3
<1> QED BY <1>1, <1>2

LEMMA DurableTrack ==
    ASSUME TrackInv, BaseInv', PersistAlert \/ QuarantineLine
    PROVE  TrackInv'
<1>1. /\ pc = "read" /\ pc' = "save" /\ HasRecord
      /\ rows' = [rows EXCEPT ![Here] = rows[Here] + 1]
      /\ UNCHANGED <<dirVars, ckpt, source, handle, seen, purpose, listed, chain,
                     origin, crashes, interrupted>>
  BY DEF PersistAlert, QuarantineLine, MakeDurable, HasRecord
<1>2. UNCHANGED <<log, torn, born, dir, gz, copies, writer, shift>> BY <1>1 DEF dirVars
<1>3. /\ Here \in Written /\ Here \in Records /\ ckpt.offset \in Nat
      /\ Here' = Here /\ Kind' = Kind /\ Written' = Written
  BY <1>1, <1>2, HereWritten, TrackTypes DEF Here, Kind, Written
<1>4. /\ rows \in [Records -> Nat] /\ rows[Here] \in Nat /\ rows'[Here] = rows[Here] + 1
      /\ \A r \in Records : r # Here => rows'[r] = rows[r]
  BY <1>1, <1>3, TrackTypes DEF LoopType
<1>5. InOrder' /\ Scanned' BY <1>1, <1>2 DEF TrackInv, InOrder, Scanned
<1>6. OnTrack'
  <2>1. rows'[Here] > 0 BY <1>4
  <2> QED BY <1>1, <1>2, <1>3, <2>1 DEF TrackInv, OnTrack, Reading, Leaving
<1>7. NothingAhead'
  <2>1. ASSUME NEW r \in Records, rows'[r] > 0
        PROVE  r \in interrupted \/ Passed(r) \/ r = Here
    BY <1>1, <1>4, <2>1 DEF TrackInv, NothingAhead
  <2> QED BY <1>1, <1>3, <2>1 DEF NothingAhead, Passed
<1>8. DuplicatesOnlyAfterCrash'
  <2>1. ASSUME rows'[Here] > 1
        PROVE  Here \in interrupted /\ log[Here[1]][Here[2]] # "flow"
    <3>1. rows[Here] > 0 BY <1>4, <2>1
    <3>2. Kind # "flow" BY <3>1 DEF PersistAlert, QuarantineLine, IsDuplicate
    <3>3. ~Passed(Here)
      <4>1. ckpt.inode # NoInode => ckpt.inode[1] = handle BY <1>1, ReadingFacts DEF Reading
      <4>2. handle \in Nat BY <1>1, ReadingFacts, FileFacts DEF Reading
      <4>3. Here[1] = handle /\ Here[2] = ckpt.offset + 1 BY DEF Here
      <4> QED BY <1>3, <4>1, <4>2, <4>3 DEF Passed
    <3>4. Here \in interrupted BY <1>1, <1>3, <3>1, <3>3 DEF TrackInv, NothingAhead
    <3> QED BY <3>2, <3>4 DEF Kind, Here
  <2>2. ASSUME NEW r \in Written, rows'[r] > 1
        PROVE  r \in interrupted /\ log[r[1]][r[2]] # "flow"
    <3>1. CASE r = Here BY <2>1, <2>2, <3>1
    <3>2. CASE r # Here
      <4>1. r \in Records /\ rows'[r] = rows[r] BY <1>4, <3>2 DEF Written, Records
      <4> QED BY <2>2, <4>1 DEF TrackInv, DuplicatesOnlyAfterCrash
    <3> QED BY <3>1, <3>2
  <2> QED BY <1>1, <1>2, <1>3, <2>2 DEF DuplicatesOnlyAfterCrash
<1>9. NoGap'
  <2>1. ASSUME NEW r \in Written, rows[r] > 0 PROVE rows'[r] > 0
    BY <1>4, <2>1 DEF Written, Records
  <2> QED BY <1>1, <1>2, <1>3, <2>1 DEF TrackInv, NoGap, BehindCursor
<1> QED BY <1>5, <1>6, <1>7, <1>8, <1>9 DEF TrackInv

LEMMA RecordFacts ==
    ASSUME NEW r \in Written
    PROVE  /\ r \in Records /\ r = <<r[1], r[2]>> /\ r[1] \in Files /\ r[1] \in Nat
           /\ r[2] \in Nat /\ r[2] >= 1 /\ r[2] <= Len(log[r[1]])
<1>1. r \in Files \X (1..MaxRecords) /\ r[2] <= Len(log[r[1]]) BY DEF Written
<1>2. r = <<r[1], r[2]>> /\ r[1] \in Files /\ r[2] \in 1..MaxRecords BY <1>1
<1>3. r[1] \in Nat /\ r[2] \in Nat /\ r[2] >= 1
  <2> DEFINE f == r[1]
             i == r[2]
  <2>1. f \in Files /\ i \in 1..MaxRecords BY <1>2
  <2> HIDE DEF f, i
  <2>2. f \in Nat /\ i \in Nat /\ i >= 1 BY <2>1, FileFacts
  <2> QED BY <2>2 DEF f, i
<1>4. r \in Records BY <1>1 DEF Records
<1> QED BY <1>1, <1>2, <1>3, <1>4

\* What a save does to the checkpoint.
LEMMA SaveFacts ==
    ASSUME TrackInv, SaveOffset
    PROVE  /\ pc = "save" /\ pc' = "read"
           /\ UNCHANGED <<log, torn, born, dir, gz, copies, writer, shift>>
           /\ UNCHANGED <<rows, source, handle, seen, purpose, listed, chain, interrupted>>
           /\ ckpt'.inode = source.inode /\ ckpt'.offset = ckpt.offset + 1
           /\ ckpt'.inode # NoInode /\ ckpt'.inode[1] = handle /\ handle \in Files
           /\ ckpt.inode = NoInode => ckpt.offset = 0 /\ origin' = handle
           /\ ckpt.inode # NoInode => ckpt.inode[1] = handle /\ origin' = origin
           /\ Here \in Written /\ Here = <<handle, ckpt.offset + 1>>
           /\ ckpt.offset + 1 <= Len(log[handle])
           /\ log[handle][ckpt.offset + 1] # "other" => rows[Here] > 0
<1>1. /\ pc = "save" /\ pc' = "read"
      /\ ckpt' = [inode |-> source.inode, offset |-> ckpt.offset + 1]
      /\ origin' = IF origin = NoFile THEN handle ELSE origin
      /\ UNCHANGED <<dirVars, rows, source, handle, seen, purpose, listed, chain,
                     crashes, interrupted, retried>>
  BY DEF SaveOffset
<1>2. Reading BY <1>1 DEF Reading
<1>3. /\ Here \in Written /\ Here = <<handle, ckpt.offset + 1>>
      /\ ckpt.offset + 1 <= Len(log[handle])
  BY <1>1, HereWritten, TrackTypes DEF Here
<1>4. log[handle][ckpt.offset + 1] # "other" => rows[Here] > 0
  BY <1>1 DEF TrackInv, OnTrack, Kind
<1> QED BY <1>1, <1>2, <1>3, <1>4, ReadingFacts, FileFacts DEF dirVars

LEMMA SaveTrack ==
    ASSUME TrackInv, BaseInv', SaveOffset
    PROVE  TrackInv'
<1> USE SaveFacts
<1>1. Written' = Written BY DEF Written
<1>2. ckpt.offset \in Nat /\ Len(log[handle]) \in Nat /\ handle \in Nat
  BY TrackTypes, FileFacts
<1>3. InOrder' /\ Scanned' BY DEF TrackInv, InOrder, Scanned
<1>4. OnTrack'
  <2>1. origin' \in Files /\ origin' <= handle
    BY <1>2 DEF TrackInv, OnTrack
  <2>2. /\ source.inode[1] \in Files /\ handle = source.inode[1]
        /\ source.hint # NoHint => source.hint.inode[1] = source.inode[1] + 1
    BY DEF TrackInv, OnTrack, Reading
  <2> QED BY <1>2, <2>1, <2>2 DEF OnTrack, Reading, Leaving
<1>5. NothingAhead'
  <2>1. ASSUME NEW r \in Records, rows[r] > 0 PROVE r \in interrupted \/ Passed(r)'
    <3>1. CASE r = Here BY <1>2, <3>1 DEF Passed
    <3>2. CASE Passed(r) BY <1>2, <3>2 DEF Passed, Records
    <3> QED BY <2>1, <3>1, <3>2 DEF TrackInv, NothingAhead
  <2> QED BY <2>1 DEF NothingAhead
<1>6. DuplicatesOnlyAfterCrash' BY <1>1 DEF TrackInv, DuplicatesOnlyAfterCrash
<1>7. NoGap'
  <2>1. ASSUME NEW r \in Written, BehindCursor(r)', log[r[1]][r[2]] # "other"
        PROVE  rows[r] > 0
    <3>1. r = <<r[1], r[2]>> /\ r[1] \in Nat /\ r[2] \in Nat /\ r[2] >= 1
      BY RecordFacts
    <3>2. CASE r = Here BY <2>1, <3>2
    <3>3. CASE r # Here
      <4>1. BehindCursor(r)
        <5>1. \/ r[1] >= origin' /\ r[1] < handle
              \/ r[1] = handle /\ r[2] <= ckpt.offset + 1
          BY <2>1 DEF BehindCursor
        <5>2. CASE ckpt.inode = NoInode
          <6>1. r[1] = handle /\ r[2] <= 1 BY <1>2, <3>1, <5>1, <5>2
          <6> QED BY <1>2, <3>1, <3>3, <5>2, <6>1
        <5>3. CASE ckpt.inode # NoInode
          BY <1>2, <3>1, <3>3, <5>1, <5>3 DEF BehindCursor
        <5> QED BY <5>2, <5>3
      <4> QED BY <2>1, <4>1 DEF TrackInv, NoGap
    <3> QED BY <3>2, <3>3
  <2> QED BY <1>1, <2>1 DEF NoGap
<1> QED BY <1>3, <1>4, <1>5, <1>6, <1>7 DEF TrackInv

LEMMA RecordTrack ==
    ASSUME TrackInv, BaseInv', SkipRecord \/ RetryRecord
    PROVE  TrackInv'
<1>1. CASE SkipRecord
  <2>1. /\ pc = "read" /\ pc' = "save" /\ (Kind = "other" \/ IsDuplicate)
        /\ UNCHANGED <<dirVars, ckpt, rows, source, handle, seen, purpose, listed, chain,
                       historyVars>>
    BY <1>1 DEF SkipRecord, HasRecord
  <2>2. InPlace'
    BY <2>1 DEF TrackInv, OnTrack, InPlace, Reading, Leaving, dirVars, AtEnd, Kind, Here,
                IsDuplicate
  <2>3. Scanned' BY <2>1 DEF Scanned
  <2> QED BY <2>1, <2>2, <2>3, LoopTrack DEF historyVars
<1>2. CASE RetryRecord
  <2>1. Closed /\ pc = "read" /\ UNCHANGED <<dirVars, ckpt, rows, origin, interrupted>>
    BY <1>2 DEF RetryRecord, Repoll, Closed, HasRecord
  <2> QED BY <2>1, CloseTrack
<1> QED BY <1>1, <1>2

LEMMA EofTrack ==
    ASSUME TrackInv, BaseInv', AwaitNewline \/ SeeEof \/ Observe \/ StayOnFile \/ LeaveFile
    PROVE  TrackInv'
<1> USE DEF historyVars
<1>1. CASE AwaitNewline \/ StayOnFile
  BY <1>1, RepollTrack DEF AwaitNewline, StayOnFile, Moves
<1>2. CASE SeeEof
  <2>1. /\ pc = "read" /\ pc' = "eof" /\ AtEnd /\ handle \notin torn
        /\ UNCHANGED <<dirVars, ckpt, rows, source, handle, purpose, listed, chain, historyVars>>
    BY <1>2 DEF SeeEof
  <2>2. ckpt.inode # NoInode
    <3> SUFFICES ASSUME ckpt.inode = NoInode PROVE FALSE OBVIOUS
    <3>1. Len(log[handle]) > 0 BY <2>1 DEF TrackInv, OnTrack, Reading
    <3> QED BY <2>1, <3>1, ReadingFacts DEF AtEnd, Reading
  <2>3. InPlace'
    BY <2>1, <2>2 DEF TrackInv, OnTrack, InPlace, Reading, Leaving, dirVars
  <2>4. Scanned' BY <2>1 DEF Scanned
  <2> QED BY <2>1, <2>3, <2>4, LoopTrack
<1>3. CASE Observe
  <2>1. /\ pc = "eof" /\ pc' \in {"read", "eof", "settled"}
        /\ pc' = "settled" => AtEnd /\ handle \notin torn /\ seen' >= StableObservations
        /\ UNCHANGED <<dirVars, ckpt, rows, source, handle, purpose, listed, chain, historyVars>>
    BY <1>3 DEF Observe
  <2>2. InPlace'
    BY <2>1 DEF TrackInv, OnTrack, InPlace, Reading, Leaving, dirVars, AtEnd
  <2>3. Scanned' BY <2>1 DEF Scanned
  <2> QED BY <2>1, <2>2, <2>3, LoopTrack
<1>4. CASE LeaveFile
  <2>1. /\ pc = "settled" /\ pc' = "list" /\ purpose' = "successor"
        /\ UNCHANGED <<dirVars, ckpt, rows, source, handle, seen, listed, chain, historyVars>>
    BY <1>4 DEF LeaveFile
  <2>2. InPlace'
    BY <2>1 DEF TrackInv, OnTrack, InPlace, Reading, Leaving, dirVars, AtEnd
  <2>3. Scanned' BY <2>1 DEF Scanned
  <2> QED BY <2>1, <2>2, <2>3, LoopTrack
<1> QED BY <1>1, <1>2, <1>3, <1>4

\* What going on to the next file does to the checkpoint.
LEMMA FollowFacts ==
    ASSUME TrackInv, FollowSuccessor, ~UNCHANGED ckpt
    PROVE  /\ Closed /\ pc = "scan" /\ UNCHANGED <<dirVars, rows, historyVars>>
           /\ ckpt.inode # NoInode /\ ckpt.inode[1] \in Files /\ handle = ckpt.inode[1]
           /\ ckpt.offset = Len(log[handle])
           /\ ckpt'.inode[1] = handle + 1 /\ handle + 1 \in Files
           /\ ckpt'.inode # NoInode /\ ckpt'.offset = 0
<1>1. /\ pc = "scan" /\ listed = {} /\ purpose = "successor"
      /\ UNCHANGED <<dirVars, rows, historyVars>>
  BY DEF FollowSuccessor
<1>2. PICK e \in Following : ckpt' = [inode |-> e.inode, offset |-> 0] /\ Repoll
  BY DEF FollowSuccessor
<1>3. Leaving /\ Reading BY <1>1 DEF Leaving, Reading
<1>4. /\ ckpt.inode # NoInode /\ AtEnd
      /\ source.hint # NoHint => source.hint.inode[1] = source.inode[1] + 1
  BY <1>3 DEF TrackInv, OnTrack
<1>5. handle \in Files /\ handle = source.inode[1] /\ handle = ckpt.inode[1]
  BY <1>3, <1>4, ReadingFacts
<1>6. chain \subseteq Entry /\ source.hint \in Entry BY TrackTypes DEF LoopType
<1>7. e \in Entry /\ e.inode[1] = handle + 1
  <2>1. CASE \E d \in EntriesOf(source.inode) : e \in Successors(d)
    <3>1. PICK d \in EntriesOf(source.inode) : e \in Successors(d) BY <2>1
    <3>2. d \in chain /\ d.inode = source.inode BY DEF EntriesOf
    <3>3. e \in chain /\ e.inode[1] = d.inode[1] + 1
      BY <1>1, <1>6, <3>1, <3>2, NextInChain, TrackTypes DEF TrackInv
    <3> QED BY <1>5, <1>6, <3>2, <3>3
  <2>2. CASE source.hint # NoHint /\ e = source.hint BY <1>4, <1>5, <1>6, <2>2
  <2> QED BY <1>2, <2>1, <2>2 DEF Following
<1>8. e.inode[1] \in Files /\ e.inode # NoInode
  <2>1. e.inode[1] \in Files \cup {NoFile} BY <1>7 DEF Entry
  <2> QED BY <1>5, <1>7, <2>1, FileFacts
<1>9. Closed BY <1>2 DEF Repoll, Closed
<1> QED BY <1>1, <1>2, <1>4, <1>5, <1>7, <1>8, <1>9 DEF AtEnd

LEMMA FollowTrack ==
    ASSUME TrackInv, BaseInv', FollowSuccessor
    PROVE  TrackInv'
<1>1. CASE UNCHANGED ckpt
  <2>1. Closed /\ pc = "scan" /\ UNCHANGED <<dirVars, rows, historyVars>>
    BY DEF FollowSuccessor, Repoll, FailClosed, Closed
  <2> QED BY <1>1, <2>1, CloseTrack DEF historyVars
<1>2. CASE ~UNCHANGED ckpt
  <2>1. /\ Closed /\ pc = "scan" /\ UNCHANGED <<rows, origin, interrupted>>
        /\ UNCHANGED <<log, torn, born, dir, gz, copies, writer, shift>>
        /\ ckpt.inode # NoInode /\ ckpt.inode[1] \in Files /\ handle = ckpt.inode[1]
        /\ ckpt.offset = Len(log[handle])
        /\ ckpt'.inode[1] = handle + 1 /\ handle + 1 \in Files
        /\ ckpt'.inode # NoInode /\ ckpt'.offset = 0
    BY <1>2, FollowFacts DEF dirVars, historyVars
  <2>2. Written' = Written BY <2>1 DEF Written
  <2>3. handle \in Nat BY <2>1, FileFacts
  <2>4. InOrder' /\ Scanned' BY <2>1 DEF TrackInv, InOrder, Scanned, Closed
  <2>5. OnTrack'
    <3>1. origin \in Files /\ origin <= handle /\ origin \in Nat
      BY <2>1, FileFacts DEF TrackInv, OnTrack
    <3>2. Len(log[handle + 1]) \in Nat BY <2>1, TrackTypes
    <3>3. origin <= handle + 1 BY <2>3, <3>1
    <3> QED BY <2>1, <3>1, <3>2, <3>3 DEF OnTrack, Reading, Leaving, Closed
  <2>6. NothingAhead'
    <3>1. ASSUME NEW r \in Records, Passed(r) PROVE Passed(r)'
      <4>1. r[1] \in Nat BY FileFacts DEF Records
      <4> QED BY <2>1, <2>3, <3>1, <4>1 DEF Passed
    <3> QED BY <2>1, <3>1 DEF TrackInv, NothingAhead
  <2>7. DuplicatesOnlyAfterCrash' BY <2>1, <2>2 DEF TrackInv, DuplicatesOnlyAfterCrash
  <2>8. NoGap'
    <3>1. ASSUME NEW r \in Written, BehindCursor(r)' PROVE BehindCursor(r)
      <4>1. /\ r[1] \in Files /\ r[1] \in Nat
            /\ r[2] \in Nat /\ r[2] >= 1 /\ r[2] <= Len(log[r[1]])
        BY RecordFacts
      <4>2. r[1] >= origin /\ r[1] < handle + 1
        BY <2>1, <3>1, <4>1 DEF BehindCursor
      <4>3. CASE r[1] = handle BY <2>1, <4>1, <4>3 DEF BehindCursor
      <4>4. CASE r[1] # handle
        <5>1. r[1] < handle BY <2>3, <4>1, <4>2, <4>4
        <5> QED BY <2>1, <4>2, <5>1 DEF BehindCursor
      <4> QED BY <4>3, <4>4
    <3> QED BY <2>1, <2>2, <3>1 DEF TrackInv, NoGap
  <2> QED BY <2>4, <2>5, <2>6, <2>7, <2>8 DEF TrackInv
<1> QED BY <1>1, <1>2

\* What the world leaves to the loop: a file that was read to its end or left
\* behind does not grow.
LEMMA WorldFacts ==
    ASSUME TrackInv, World
    PROVE  /\ UNCHANGED <<ckpt, rows, pc, source, handle, seen, purpose, listed, chain,
                          origin, crashes, interrupted, retried>>
           /\ LogKept /\ DirType' /\ InOrder'
           /\ pc = "scan" => UNCHANGED <<dir, gz, copies>>
           /\ \A f \in Files : f \in torn' => f \in torn \/ f = writer
           /\ \A f \in Files : f \in torn => f \in torn' \/ Len(log'[f]) > 0
           /\ log' # log => ~LookedAway
           /\ ~(torn' \subseteq torn) => ~LookedAway
<1>1. UNCHANGED <<ckpt, rows, pc, source, handle, seen, purpose, listed, chain,
                  origin, crashes, interrupted, retried>>
  BY DEF World, loopVars, historyVars
<1>2. DirType /\ Room /\ InOrder /\ ~ScanRace BY TrackTypes DEF TrackInv
<1>3. CASE Write /\ ~LookedAway
  <2>1. /\ DirType' /\ LogKept /\ UNCHANGED <<born, dir, gz, copies, writer, shift>>
    BY <1>2, <1>3, WriteStep
  <2>2. InOrder' BY <1>2, <1>3, OrderStep
  <2>3. torn' \subseteq torn \cup {writer}
    BY <1>3 DEF Write, StartLine, FinishLine
  <2>4. ASSUME NEW f \in Files, f \in torn PROVE f \in torn' \/ Len(log'[f]) > 0
    <3>1. CASE StartLine BY <2>4, <3>1 DEF StartLine
    <3>2. ASSUME NEW k \in Kinds, FinishLine(k) PROVE Len(log'[f]) > 0
      <4>1. f = writer BY <1>2, <2>4 DEF Room
      <4>2. Len(log'[writer]) = Len(log[writer]) + 1 /\ Len(log[writer]) \in Nat
        BY <1>2, <3>2, <4>1, FinishLineEffect, TrackTypes
      <4> QED BY <4>1, <4>2
    <3> QED BY <1>3, <3>1, <3>2 DEF Write
  <2> QED BY <1>1, <1>3, <2>1, <2>2, <2>3, <2>4
<1>4. CASE Reopen \/ (Rotate /\ (ScanRace \/ pc # "scan"))
  <2>1. DirType' /\ UNCHANGED <<log, torn>> /\ LogKept
    BY <1>2, <1>4, RotateStep, SameLog
  <2>2. InOrder' BY <1>2, <1>4, OrderStep
  <2>3. pc = "scan" => UNCHANGED <<dir, gz, copies>> BY <1>2, <1>4 DEF Reopen
  <2> QED BY <1>1, <2>1, <2>2, <2>3
<1> QED BY <1>3, <1>4 DEF World

\* What is written behind the cursor was there when the cursor passed.
LEMMA WorldBehind ==
    ASSUME TrackInv, World, NEW r \in Written', BehindCursor(r)
    PROVE  r \in Written
<1> SUFFICES ASSUME r \notin Written PROVE FALSE OBVIOUS
<1>1. r = Next1(writer) BY WorldFacts DEF LogKept
<1>2. ~LookedAway
  <2>1. log' # log BY DEF Written
  <2> QED BY <2>1, WorldFacts
<1>3. writer \in Files /\ writer \in Nat /\ Len(log[writer]) \in Nat
  BY TrackTypes, FileFacts DEF DirType
<1>4. ckpt.inode # NoInode /\ ckpt.inode[1] \in Nat /\ ~(writer < ckpt.inode[1])
  BY <1>2, FileFacts DEF BehindCursor, LookedAway, TrackInv, OnTrack
<1>5. r[1] = writer /\ r[2] = Len(log[writer]) + 1 BY <1>1 DEF Next1
<1>6. writer = ckpt.inode[1] /\ Len(log[writer]) + 1 <= ckpt.offset
  BY <1>3, <1>4, <1>5 DEF BehindCursor
<1>7. ckpt.offset \in Nat /\ ckpt.offset <= Len(log[writer])
  BY <1>4, <1>6, TrackTypes DEF TrackInv, OnTrack
<1> QED BY <1>3, <1>6, <1>7

LEMMA WorldTrack ==
    ASSUME TrackInv, BaseInv', World
    PROVE  TrackInv'
<1>1. /\ UNCHANGED <<ckpt, rows, pc, source, handle, seen, purpose, listed, chain,
                     origin, crashes, interrupted, retried>>
      /\ LogKept /\ InOrder'
  BY WorldFacts
<1>2. /\ \A f \in Files : Len(log[f]) \in Nat /\ Len(log'[f]) \in Nat
      /\ \A f \in Files : Len(log[f]) <= Len(log'[f])
  <2>1. DirType' BY WorldFacts
  <2> QED BY <1>1, <2>1, TrackTypes DEF DirType, LogKept
<1>3. \A r \in Written : log'[r[1]][r[2]] = log[r[1]][r[2]]
  <2> TAKE r \in Written
  <2>1. r[1] \in Files /\ r[2] \in 1..Len(log[r[1]])
    BY RecordFacts, <1>2
  <2> QED BY <1>1, <2>1 DEF LogKept
<1>4. Scanned'
  <2> SUFFICES ASSUME pc = "scan" PROVE Scanned' BY <1>1 DEF Scanned
  <2>1. UNCHANGED <<dir, gz, copies>> BY WorldFacts
  <2>2. \A p : StatOf(p)' = StatOf(p) BY <2>1 DEF StatOf, Inode
  <2> QED BY <1>1, <2>2 DEF TrackInv, Scanned
<1>5. OnTrack'
  <2>1. ckpt.inode # NoInode =>
          ckpt.inode[1] \in Files /\ ckpt.offset <= Len(log'[ckpt.inode[1]])
    <3> SUFFICES ASSUME ckpt.inode # NoInode
                 PROVE  ckpt.inode[1] \in Files /\ ckpt.offset <= Len(log'[ckpt.inode[1]])
      OBVIOUS
    <3>1. ckpt.inode[1] \in Files /\ ckpt.offset <= Len(log[ckpt.inode[1]])
      BY DEF TrackInv, OnTrack
    <3> QED BY <1>2, <3>1, TrackTypes
  <2>2. ASSUME NEW f \in Files, Len(log[f]) > 0 \/ f \in torn
        PROVE  Len(log'[f]) > 0 \/ f \in torn'
    BY <1>2, <2>2, WorldFacts
  <2>3. ASSUME pc = "settled" \/ Leaving
        PROVE  ckpt.offset = Len(log'[handle]) /\ handle \notin torn'
    <3>1. handle \in Files BY <2>3, TrackTypes DEF Loop, Reading
    <3>2. ckpt.offset = Len(log[handle]) /\ handle \notin torn /\ seen >= StableObservations
      BY <2>3 DEF TrackInv, OnTrack, AtEnd
    <3>3. CASE handle = writer
      <4>1. LookedAway BY <2>3, <3>2, <3>3 DEF LookedAway, Leaving
      <4>2. log' = log /\ torn' \subseteq torn BY <4>1, WorldFacts
      <4> QED BY <3>2, <4>2
    <3>4. CASE handle # writer
      <4>1. log'[handle] = log[handle] BY <1>1, <3>1, <3>4 DEF LogKept
      <4>2. handle \notin torn' BY <3>1, <3>2, <3>4, WorldFacts
      <4> QED BY <3>2, <4>1, <4>2
    <3> QED BY <3>3, <3>4
  <2>4. ASSUME pc = "save", log'[handle][ckpt.offset + 1] # "other"
        PROVE  rows[Here] > 0
    <3>1. Here \in Written BY <2>4, HereWritten, TrackTypes
    <3>2. log[handle][ckpt.offset + 1] # "other" BY <1>3, <2>4, <3>1 DEF Here
    <3> QED BY <2>4, <3>2 DEF TrackInv, OnTrack, Kind
  <2> QED BY <1>1, <2>1, <2>2, <2>3, <2>4
       DEF TrackInv, OnTrack, Reading, Leaving, AtEnd, Kind, Here
<1>6. NothingAhead' BY <1>1 DEF TrackInv, NothingAhead, Passed, Here
<1>7. DuplicatesOnlyAfterCrash'
  <2>1. ASSUME NEW r \in Written', rows[r] > 1
        PROVE  r \in interrupted /\ log'[r[1]][r[2]] # "flow"
    <3>1. r \in Records BY DEF Written, Records
    <3>2. rows[r] > 0 BY <2>1, <3>1, TrackTypes DEF LoopType
    <3>3. r \in Written BY <3>1, <3>2, TrackTypes DEF OnlyWritten
    <3> QED BY <1>3, <2>1, <3>3 DEF TrackInv, DuplicatesOnlyAfterCrash
  <2> QED BY <1>1, <2>1 DEF DuplicatesOnlyAfterCrash
<1>8. NoGap'
  <2>1. ASSUME NEW r \in Written', BehindCursor(r), log'[r[1]][r[2]] # "other"
        PROVE  rows[r] > 0
    <3>1. r \in Written BY <2>1, WorldBehind
    <3> QED BY <1>3, <2>1, <3>1 DEF TrackInv, NoGap
  <2> QED BY <1>1, <2>1 DEF NoGap, BehindCursor
<1> QED BY <1>1, <1>4, <1>5, <1>6, <1>7, <1>8 DEF TrackInv

LEMMA CrashTrack ==
    ASSUME TrackInv, BaseInv', Crash
    PROVE  TrackInv'
<1>1. /\ Closed /\ UNCHANGED <<dirVars, ckpt, rows, origin>>
      /\ interrupted' = IF pc = "save" THEN interrupted \cup {Here} ELSE interrupted
  BY DEF Crash, Closed
<1>2. interrupted \subseteq interrupted' /\ (pc # "save" \/ Here \in interrupted')
  BY <1>1
<1> QED BY <1>1, <1>2, CloseTrack

LEMMA TrackInit ==
    ASSUME ~ScanRace, Init
    PROVE  TrackInv
<1> USE FileFacts DEF Init, DirInit
<1>1. InOrder
  <2>1. shift # 0 /\ dir[0] = 1 /\ \A n \in Slots : n # 0 => dir[n] = NoFile
    OBVIOUS
  <2>2. \A n \in Slots, m \in Slots : n < m => m # 0 BY DEF Slots
  <2>3. \A f \in Files : f <= born => f = 1 BY DEF Files
  <2>4. shift = NoFile /\ born = 1 OBVIOUS
  <2> HIDE DEF Init, DirInit
  <2>5. ASSUME NEW n \in Slots, NEW m \in Slots, n < m, dir[m] # NoFile PROVE FALSE
    BY <2>1, <2>2, <2>5
  <2>6. ASSUME NEW f \in Files, f <= born PROVE \E k \in Slots : dir[k] = f
    BY <2>1, <2>3, <2>6
  <2> QED BY <2>1, <2>4, <2>5, <2>6 DEF InOrder
<1>2. Written = {} BY DEF Written
<1>3. Scanned /\ OnTrack BY DEF Scanned, OnTrack, Reading, Leaving
<1>4. NothingAhead BY DEF NothingAhead
<1>5. DuplicatesOnlyAfterCrash /\ NoGap BY <1>2 DEF DuplicatesOnlyAfterCrash, NoGap
<1> QED BY <1>1, <1>3, <1>4, <1>5, BaseInit DEF TrackInv

LEMMA TrackStep ==
    ASSUME TrackInv, [Next]_vars
    PROVE  TrackInv'
<1>1. BaseInv' BY BaseStep, TrackTypes
<1>2. CASE Ingest
  BY <1>1, <1>2, StartTrack, ScanTrack, OpenTrack, RecordTrack, DurableTrack, SaveTrack,
     EofTrack, FollowTrack DEF Ingest
<1>3. CASE Crash BY <1>1, <1>3, CrashTrack
<1>4. CASE World BY <1>1, <1>4, WorldTrack
<1>5. CASE UNCHANGED vars
  <2>1. UNCHANGED <<log, torn, born, dir, gz, copies, writer, shift>>
    BY <1>5 DEF vars, dirVars
  <2>2. UNCHANGED <<ckpt, rows, pc, source, handle, seen, purpose, listed, chain,
                    origin, interrupted>>
    BY <1>5 DEF vars, loopVars, historyVars
  <2>3. InOrder' BY <2>1 DEF TrackInv, InOrder
  <2>4. Scanned' BY <2>1, <2>2 DEF TrackInv, Scanned, StatOf, Inode
  <2>5. OnTrack'
    BY <2>1, <2>2 DEF TrackInv, OnTrack, Reading, Leaving, AtEnd, Kind, Here
  <2>6. NothingAhead' BY <2>2 DEF TrackInv, NothingAhead, Passed, Here
  <2>7. DuplicatesOnlyAfterCrash' /\ NoGap'
    BY <2>1, <2>2 DEF TrackInv, DuplicatesOnlyAfterCrash, NoGap, Written, BehindCursor
  <2> QED BY <1>1, <2>3, <2>4, <2>5, <2>6, <2>7 DEF TrackInv
<1> QED BY <1>2, <1>3, <1>4, <1>5 DEF Next

\* The shapes, the order of the files, the place of the loop and what is durable.
THEOREM TrackHolds == ~ScanRace /\ Spec => []TrackInv
<1>1. ~ScanRace /\ Init => TrackInv BY TrackInit
<1>2. TrackInv /\ [Next]_vars => TrackInv' BY TrackStep
<1> QED BY <1>1, <1>2, PTL DEF Spec

\* No alert gap: through rotations, late appends, compression, failures on a
\* record and crashes, nothing that needs a row is left behind the checkpoint
\* without one, as long as no rename falls into a directory scan.
THEOREM NoAlertGap == ~ScanRace /\ Spec => []NoGap
<1>1. TrackInv => NoGap BY DEF TrackInv
<1> QED BY <1>1, TrackHolds, PTL

\* A second row comes only from a crash between the commit of the first and its
\* checkpoint, and never for an alert that is_duplicate recognizes.
THEOREM DuplicatesExplained == ~ScanRace /\ Spec => []DuplicatesOnlyAfterCrash
<1>1. TrackInv => DuplicatesOnlyAfterCrash BY DEF TrackInv
<1> QED BY <1>1, TrackHolds, PTL

-----------------------------------------------------------------------------
(* The stream.                                                             *)

Cursor == IF ckpt.inode = NoInode THEN [file |-> NoFile, pos |-> 0]
          ELSE [file |-> ckpt.inode[1], pos |-> ckpt.offset]

LEMMA CursorFacts ==
    ASSUME TrackInv
    PROVE  /\ ckpt.inode = NoInode => Cursor = Stream!Nowhere
           /\ ckpt.inode # NoInode =>
                /\ Cursor # Stream!Nowhere /\ ckpt.inode[1] \in Files
                /\ Cursor.file = ckpt.inode[1] /\ Cursor.pos = ckpt.offset
                /\ Cursor = [file |-> ckpt.inode[1], pos |-> ckpt.offset]
<1>1. ckpt.inode = NoInode => Cursor = Stream!Nowhere BY DEF Cursor, Stream!Nowhere
<1>2. ASSUME ckpt.inode # NoInode
      PROVE  /\ Cursor # Stream!Nowhere /\ ckpt.inode[1] \in Files
             /\ Cursor.file = ckpt.inode[1] /\ Cursor.pos = ckpt.offset
             /\ Cursor = [file |-> ckpt.inode[1], pos |-> ckpt.offset]
  <2>1. ckpt.inode[1] \in Files BY <1>2 DEF TrackInv, OnTrack
  <2>2. Cursor = [file |-> ckpt.inode[1], pos |-> ckpt.offset] BY <1>2 DEF Cursor
  <2>3. Cursor.file = ckpt.inode[1] /\ Stream!Nowhere.file = NoFile
    BY <2>2 DEF Stream!Nowhere
  <2> QED BY <2>1, <2>2, <2>3, FileFacts
<1> QED BY <1>1, <1>2

LEMMA StreamStutters ==
    ASSUME UNCHANGED <<log, ckpt, rows>>
    PROVE  UNCHANGED <<log, Cursor, Handled>>
  BY DEF Cursor, Handled, Written

LEMMA StreamWorld ==
    ASSUME TrackInv, World
    PROVE  Stream!Next \/ UNCHANGED <<log, Cursor, Handled>>
<1>1. UNCHANGED <<ckpt, rows>> BY WorldFacts
<1>2. CASE UNCHANGED log BY <1>1, <1>2, StreamStutters
<1>3. ASSUME NEW k \in Kinds, FinishLine(k), ~UNCHANGED log
      PROVE  Stream!Arrive
  <2>1. writer \in Files /\ log' = [log EXCEPT ![writer] = Append(@, k)]
    BY <1>3, TrackTypes DEF FinishLine, DirType
  <2>2. Written \subseteq Written' BY WorldFacts DEF LogKept
  <2>3. \A r \in Written' : rows[r] > 0 => r \in Written
    <3>1. \A r \in Written' : r \in Records BY DEF Written, Records
    <3> QED BY <3>1, TrackTypes DEF OnlyWritten
  <2>4. Handled' = Handled BY <1>1, <2>2, <2>3 DEF Handled
  <2>5. Cursor' = Cursor BY <1>1 DEF Cursor
  <2>6. Cursor # Stream!Nowhere => writer >= Cursor.file
    <3> SUFFICES ASSUME ckpt.inode # NoInode PROVE writer >= ckpt.inode[1]
      BY CursorFacts
    <3>1. ~(writer < ckpt.inode[1]) BY <1>3, WorldFacts DEF LookedAway
    <3>2. ckpt.inode[1] \in Nat /\ writer \in Nat BY <2>1, CursorFacts, FileFacts
    <3> QED BY <3>1, <3>2
  <2> QED BY <2>1, <2>4, <2>5, <2>6 DEF Stream!Arrive, Files, Cursor
<1>4. World => UNCHANGED log \/ \E k \in Kinds : FinishLine(k)
  BY DEF World, Write, Rotate, StartLine, Reopen, StartRotation, Rename, CreateLive,
         Compress, Decompress
<1> QED BY <1>2, <1>3, <1>4 DEF Stream!Next

LEMMA StreamHandles ==
    ASSUME TrackInv, PersistAlert \/ QuarantineLine
    PROVE  Stream!Handle
<1>1. /\ HasRecord /\ pc = "read" /\ Kind # "other" /\ UNCHANGED <<ckpt, log>>
      /\ rows' = [rows EXCEPT ![Here] = rows[Here] + 1]
  BY DEF PersistAlert, QuarantineLine, MakeDurable, HasRecord, dirVars
<1>2. /\ Here \in Written /\ Here \in Records /\ handle \in Files
      /\ ckpt.offset + 1 <= Len(log[handle]) /\ rows \in [Records -> Nat]
  BY <1>1, HereWritten, TrackTypes DEF LoopType
<1>3. Handled' = Handled \cup {Here}
  <2>1. Written' = Written BY <1>1 DEF Written
  <2>2. rows[Here] \in Nat /\ rows'[Here] = rows[Here] + 1 BY <1>1, <1>2
  <2>3. \A r \in Written : r # Here => rows'[r] = rows[r]
    BY <1>1, <1>2 DEF Written, Records
  <2> QED BY <1>2, <2>1, <2>2, <2>3 DEF Handled
<1>4. Cursor' = Cursor BY <1>1 DEF Cursor
<1> DEFINE next == IF Cursor = Stream!Nowhere THEN 1 ELSE Cursor.pos + 1
<1>5. next = ckpt.offset + 1 /\ (Cursor # Stream!Nowhere => handle = Cursor.file)
  BY <1>1, ReadingFacts, CursorFacts DEF Reading
<1>6. Here = <<handle, next>> /\ log[handle][next] # "other" /\ next <= Len(log[handle])
  BY <1>1, <1>2, <1>5 DEF Here, Kind
<1> HIDE DEF next
<1>7. /\ (Cursor # Stream!Nowhere => handle = Cursor.file) /\ next <= Len(log[handle])
      /\ Stream!NeedsRow(log[handle][next]) /\ Handled' = Handled \cup {<<handle, next>>}
      /\ UNCHANGED <<log, Cursor>> /\ handle \in 1..MaxFiles
  BY <1>1, <1>2, <1>3, <1>4, <1>5, <1>6 DEF Stream!NeedsRow, Files
<1> QED BY <1>7 DEF Stream!Handle, next, Cursor

LEMMA StreamSaves ==
    ASSUME TrackInv, SaveOffset
    PROVE  Stream!Adopt \/ Stream!Advance
<1>1. UNCHANGED <<log, Handled>> BY SaveFacts DEF Handled, Written
<1>2. Cursor' = [file |-> handle, pos |-> ckpt.offset + 1]
  BY SaveFacts DEF Cursor
<1>3. log[handle][ckpt.offset + 1] # "other" => <<handle, ckpt.offset + 1>> \in Handled
  BY SaveFacts DEF Handled
<1>4. /\ handle \in 1..MaxFiles /\ ckpt.offset + 1 <= Len(log[handle])
      /\ ckpt.offset \in Nat /\ Len(log[handle]) \in Nat
  BY SaveFacts, TrackTypes DEF Files
<1>5. CASE ckpt.inode = NoInode
  <2>1. ckpt.offset = 0 /\ Cursor = Stream!Nowhere BY <1>5, SaveFacts, CursorFacts
  <2> QED BY <1>1, <1>2, <1>3, <1>4, <2>1 DEF Stream!Adopt, Stream!NeedsRow, Cursor
<1>6. CASE ckpt.inode # NoInode
  <2>1. /\ Cursor # Stream!Nowhere /\ Cursor.file = handle /\ Cursor.pos = ckpt.offset
        /\ Cursor = [file |-> handle, pos |-> ckpt.offset]
    BY <1>6, SaveFacts, CursorFacts
  <2>2. Cursor' = [Cursor EXCEPT !.pos = @ + 1] BY <1>2, <2>1
  <2>3. ckpt.offset < Len(log[handle]) BY <1>4
  <2> QED BY <1>1, <1>3, <2>1, <2>2, <2>3 DEF Stream!Advance, Stream!NeedsRow, Cursor
<1> QED BY <1>5, <1>6

LEMMA StreamFollows ==
    ASSUME TrackInv, FollowSuccessor, ~UNCHANGED ckpt
    PROVE  Stream!Follow
<1>1. UNCHANGED <<log, rows>> BY FollowFacts DEF dirVars
<1>2. Handled' = Handled BY <1>1 DEF Handled, Written
<1>3. /\ Cursor # Stream!Nowhere /\ Cursor.file = handle /\ Cursor.pos = Len(log[handle])
  BY FollowFacts, CursorFacts
<1>4. Cursor' = [file |-> handle + 1, pos |-> 0] BY FollowFacts DEF Cursor
<1>5. handle < MaxFiles BY FollowFacts, FileFacts DEF Files
<1> QED BY <1>1, <1>2, <1>3, <1>4, <1>5 DEF Stream!Follow, Cursor

LEMMA StreamStep ==
    ASSUME TrackInv, [Next]_vars
    PROVE  [Stream!Next]_<<log, Cursor, Handled>>
<1>1. CASE UNCHANGED vars
  BY <1>1, StreamStutters DEF vars, dirVars
<1>2. CASE Crash BY <1>2, StreamStutters DEF Crash, dirVars
<1>3. CASE World BY <1>3, StreamWorld
<1>4. CASE PersistAlert \/ QuarantineLine BY <1>4, StreamHandles DEF Stream!Next
<1>5. CASE SaveOffset BY <1>5, StreamSaves DEF Stream!Next
<1>6. CASE FollowSuccessor
  <2>1. CASE UNCHANGED ckpt BY <1>6, <2>1, StreamStutters DEF FollowSuccessor, dirVars
  <2> QED BY <1>6, <2>1, StreamFollows DEF Stream!Next
<1>7. CASE Start \/ PollLive \/ PollRotated \/ ListDirectory \/ \E p \in Path : StatEntry(p)
  BY <1>7, StreamStutters
     DEF Start, PollLive, PollRotated, ListDirectory, StatEntry, dirVars
<1>8. CASE ResolveSource \/ Open \/ SkipRecord \/ RetryRecord
  BY <1>8, StreamStutters DEF ResolveSource, Open, SkipRecord, RetryRecord, dirVars
<1>9. CASE AwaitNewline \/ SeeEof \/ Observe \/ StayOnFile \/ LeaveFile
  BY <1>9, StreamStutters DEF AwaitNewline, SeeEof, Observe, StayOnFile, LeaveFile, dirVars
<1> QED BY <1>1, <1>2, <1>3, <1>4, <1>5, <1>6, <1>7, <1>8, <1>9 DEF Next, Ingest

LEMMA StreamInit == Init => Stream!Init
<1> SUFFICES ASSUME Init PROVE Stream!Init OBVIOUS
<1>1. log = [f \in 1..MaxFiles |-> <<>>] BY DEF Init, DirInit, Files
<1>2. ckpt.inode = NoInode BY DEF Init
<1>3. Handled = {}
  <2>1. \A r \in Records : rows[r] = 0 BY DEF Init
  <2> QED BY <2>1 DEF Handled, Written, Records
<1> QED BY <1>1, <1>2, <1>3 DEF Stream!Init, Stream!Nowhere

\* The names, inodes, rotations and checkpoints implement one stream of records
\* that is dealt with in order and left nowhere before its end, as long as no
\* rename falls into a directory scan.
THEOREM StreamImplemented == ~ScanRace /\ Spec => StreamInOrder
<1>1. TrackInv /\ [Next]_vars =>
        [Stream!Next]_<<log, IF ckpt.inode = NoInode THEN [file |-> NoFile, pos |-> 0]
                             ELSE [file |-> ckpt.inode[1], pos |-> ckpt.offset], Handled>>
  BY StreamStep DEF Cursor
<1> QED BY <1>1, StreamInit, TrackHolds, PTL DEF Spec, StreamInOrder, Stream!Spec
=============================================================================
