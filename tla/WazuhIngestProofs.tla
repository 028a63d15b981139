-------------------------- MODULE WazuhIngestProofs --------------------------
(***************************************************************************)
(* What Wazuh ingest keeps, for every number of days, records and stops.   *)
(*                                                                         *)
(* TypeOK and AlertStoredOnce hold whatever happens.  NoGap and the        *)
(* implementation of AlertStream hold as long as a stop signal does not    *)
(* come while archives hold unread records and the day does not change     *)
(* inside a drain or before the first checkpoint: the runs wazuh_stop and  *)
(* wazuh_midnight show why both conditions are needed.                     *)
(***************************************************************************)
EXTENDS WazuhIngest, TLAPS, FiniteSetTheorems

\* The day whose file is or will next be alerts.json.
Frontier == IF live = NoDay THEN today ELSE live

\* Files end no line that was not begun, and none is begun beyond MaxRecords.
Room ==
    /\ \A d \in Days : Len(log[d]) <= MaxRecords
    /\ \A d \in torn : d <= Frontier /\ (live = NoDay => d # today)
    /\ live \in torn => Cardinality(Written) < MaxRecords
    /\ live # NoDay => live <= today

\* What holds of the loop at each of its steps, whatever the manager does.
Loop ==
    /\ ckpt = NoPosition \/ ckpt.date \in Days
    /\ pc \in {"poll", "drain", "open", "read", "save"} => ckpt.date \in Days
    /\ pc \in {"drain", "open", "read", "save"} => current \in Days
    /\ pc \in {"first", "open"} => expected \in Days
    /\ pc \in {"read", "save"} =>
        /\ handle \in Days
        /\ \/ source = "archive" /\ handle = ckpt.date /\ ckpt.date < current
           \/ source = "live" /\ expected \in Days
    /\ pc = "save" => ckpt.offset + 1 <= Len(log[handle])

OnlyWritten == \A r \in Records : rows[r] > 0 => r \in Written

BaseInv == TypeOK /\ Room /\ Loop /\ OnlyWritten /\ AlertStoredOnce

\* Neither of the two things that make ingest lose its place.
Smooth == ~StopWhileDraining /\ ~DayChangeInside

\* Days before the frontier are archived and frozen.
ArchivesBehind ==
    /\ live # NoDay => live + 1 >= today
    /\ \A d \in Days : archive[d] # "none" <=> d < Frontier
    /\ \A d \in Days : d <= mtime[d] /\ (mtime[d] = d \/ mtime[d] <= today)

\* The checkpoint lies in a file that is or was live, and names it.
CheckpointInside ==
    IF ckpt = NoPosition
    THEN \A d \in Days : mtime[d] = d
    ELSE /\ ckpt.date <= Frontier
         /\ ckpt.offset <= Len(log[ckpt.date])
         /\ ckpt.inode \in {NoDay, ckpt.date}

\* Which file the loop looks at, relative to the checkpoint.
OnTrack ==
    /\ pc = "first" => ckpt = NoPosition /\ live \in {NoDay, expected}
    /\ current # NoDay => current <= today
    /\ pc = "drain" => ckpt.date <= current
    /\ Draining => live = NoDay \/ live <= current
    /\ pc = "open" => expected = ckpt.date /\ current = ckpt.date
    /\ pc \in {"read", "save"} =>
        /\ handle = ckpt.date
        /\ IF source = "archive" THEN handle < Frontier
                                 ELSE expected = handle /\ current = handle
    /\ pc = "save" /\ NeedsRow(Here) => rows[Here] > 0

\* A stop signal found nothing left of the days before.
StopFindsNothing ==
    stopping /\ current # NoDay =>
        /\ \A r \in Written : r[1] < current => ~AtOrAfter(r, ckpt)
        /\ live # NoDay => live >= current

SmoothInv ==
    /\ Smooth
    /\ BaseInv
    /\ ArchivesBehind
    /\ CheckpointInside
    /\ OnTrack
    /\ StopFindsNothing
    /\ NoGap
-----------------------------------------------------------------------------
(* The manager.                                                            *)

LEMMA DayFacts ==
    /\ Days \subseteq Nat /\ NoDay \notin Days /\ NoDay \notin Nat /\ 1 \in Days
    /\ MaxDays \in Nat /\ MaxRecords \in Nat
    /\ NoPosition.date = NoDay
  BY ArchivesAssumption DEF Days, NoPosition

\* The records are finitely many, and a file holds no more than all of them.
LEMMA FileFits ==
    ASSUME log \in [Days -> Seq(Kinds)], NEW d \in Days, Len(log[d]) <= MaxRecords,
           Cardinality(Written) < MaxRecords
    PROVE  Len(log[d]) < MaxRecords
<1> DEFINE n == Len(log[d])
<1>1. n \in Nat /\ n <= MaxRecords OBVIOUS
<1>2. ASSUME NEW i \in 1..n PROVE <<d, i>> \in Written
  BY <1>1, DayFacts DEF Written
<1> HIDE DEF n
<1>3. {d} \X (1..n) \subseteq Written BY <1>2
<1>4. IsFiniteSet(Written)
  <2>1. IsFiniteSet(Days) /\ IsFiniteSet(1..MaxRecords)
    BY DayFacts, FS_Interval DEF Days
  <2>2. IsFiniteSet(Days \X (1..MaxRecords)) BY <2>1, FS_Product
  <2> QED BY <2>2, FS_Subset DEF Written
<1>5. IsFiniteSet({d}) /\ Cardinality({d}) = 1
  BY FS_Singleton
<1>6. IsFiniteSet(1..n) /\ Cardinality(1..n) = n
  <2>1. n \in Int /\ 1 \in Int BY <1>1
  <2>2. IsFiniteSet(1..n) /\ Cardinality(1..n) = IF 1 > n THEN 0 ELSE n - 1 + 1
    BY <2>1, FS_Interval
  <2> QED BY <1>1, <2>2
<1>7. Cardinality({d} \X (1..n)) = n
  <2> DEFINE A == {d}
             B == 1..n
  <2>1. /\ IsFiniteSet(A) /\ Cardinality(A) = 1
        /\ IsFiniteSet(B) /\ Cardinality(B) = n
    BY <1>5, <1>6
  <2> HIDE DEF A, B
  <2>2. Cardinality(A \X B) = 1 * n BY <2>1, FS_Product
  <2> QED BY <1>1, <2>2 DEF A, B
<1>8. Cardinality({d} \X (1..n)) <= Cardinality(Written)
  BY <1>3, <1>4, FS_Subset
<1>9. Cardinality(Written) \in Nat
  BY <1>4, FS_CardinalityType
<1>10. n < MaxRecords BY <1>1, <1>7, <1>8, <1>9, DayFacts
<1> QED BY <1>10 DEF n

\* Records once written stay, at their place.
LogKept ==
    /\ \A d \in Days : /\ Len(log[d]) <= Len(log'[d])
                       /\ \A i \in 1..Len(log[d]) : log'[d][i] = log[d][i]
    /\ Written \subseteq Written'

LEMMA FinishLineEffect ==
    ASSUME TypeOK, Room, NEW k \in Kinds, FinishLine(k)
    PROVE  /\ live \in Days /\ log' \in [Days -> Seq(Kinds)] /\ LogKept
           /\ \A d \in Days : Len(log'[d]) <= MaxRecords
           /\ \A d \in Days \ {live} : log'[d] = log[d]
           /\ Len(log'[live]) = Len(log[live]) + 1
           /\ Written' = Written \cup {<<live, Len(log[live]) + 1>>}
           /\ <<live, Len(log[live]) + 1>> \in Records \ Written
<1>1. live \in Days /\ log \in [Days -> Seq(Kinds)] /\ live \in torn
  BY DayFacts DEF FinishLine, TypeOK
<1>2. log' = [log EXCEPT ![live] = Append(log[live], k)]
  BY DEF FinishLine
<1>3. Len(log[live]) \in Nat /\ Len(log[live]) < MaxRecords
  BY <1>1, FileFits DEF Room
<1>4. /\ log'[live] = Append(log[live], k)
      /\ Len(log'[live]) = Len(log[live]) + 1
      /\ \A i \in 1..Len(log[live]) : log'[live][i] = log[live][i]
  BY <1>1, <1>2
<1>5. /\ log' \in [Days -> Seq(Kinds)]
      /\ \A d \in Days \ {live} : log'[d] = log[d]
  BY <1>1, <1>2
<1>6. \A d \in Days : Len(log[d]) \in Nat /\ Len(log'[d]) \in Nat
  BY <1>1, <1>5
<1>7. Written' = Written \cup {<<live, Len(log[live]) + 1>>}
  <2>1. ASSUME NEW d \in Days, NEW i \in 1..MaxRecords
        PROVE  i <= Len(log'[d]) <=> i <= Len(log[d]) \/ (d = live /\ i = Len(log[live]) + 1)
    BY <1>3, <1>4, <1>5, <1>6, DayFacts
  <2>2. Len(log[live]) + 1 \in 1..MaxRecords BY <1>3, DayFacts
  <2>3. ASSUME NEW r \in Days \X (1..MaxRecords)
        PROVE  r \in Written' <=> r \in Written \/ r = <<live, Len(log[live]) + 1>>
    <3>1. r = <<r[1], r[2]>> /\ r[1] \in Days /\ r[2] \in 1..MaxRecords OBVIOUS
    <3> QED BY <2>1, <3>1 DEF Written
  <2>4. /\ Written \subseteq Days \X (1..MaxRecords)
        /\ Written' \subseteq Days \X (1..MaxRecords)
    BY DEF Written
  <2> DEFINE new == <<live, Len(log[live]) + 1>>
             all == Days \X (1..MaxRecords)
  <2>5. new \in all BY <1>1, <2>2
  <2>6. \A r \in all : r \in Written' <=> r \in Written \/ r = new BY <2>3
  <2> HIDE DEF new, all
  <2>7. Written \subseteq all /\ Written' \subseteq all BY <2>4 DEF all
  <2>8. Written' = Written \cup {new} BY <2>5, <2>6, <2>7
  <2> QED BY <2>8 DEF new
<1>8. <<live, Len(log[live]) + 1>> \in Records \ Written
  BY <1>1, <1>3, DayFacts DEF Written, Records
<1>9. \A d \in Days : Len(log'[d]) <= MaxRecords
  BY <1>3, <1>4, <1>5, DayFacts DEF Room
<1>10. LogKept
  <2>1. ASSUME NEW d \in Days
        PROVE  /\ Len(log[d]) <= Len(log'[d])
               /\ \A i \in 1..Len(log[d]) : log'[d][i] = log[d][i]
    BY <1>3, <1>4, <1>5, <1>6
  <2> QED BY <1>7, <2>1 DEF LogKept
<1> QED BY <1>1, <1>4, <1>5, <1>7, <1>8, <1>9, <1>10

WorldType ==
    /\ log \in [Days -> Seq(Kinds)]
    /\ torn \subseteq Days
    /\ today \in Days
    /\ live \in Days \cup {NoDay}
    /\ mtime \in [Days -> Days]
    /\ archive \in [Days -> {"none", "plain", "gz", "gone"}]

\* The one record a step of the manager can add is the next of the live file.
LEMMA WorldStep ==
    ASSUME TypeOK, Room, Write \/ Rotate
    PROVE  /\ WorldType' /\ Room' /\ LogKept
           /\ \A r \in Written' : r \in Written \/
                 (live \in Days /\ r = <<live, Len(log[live]) + 1>>)
<1>0. WorldType BY DEF TypeOK, WorldType
<1>1. UNCHANGED log => /\ LogKept /\ Written' = Written
  BY <1>0 DEF LogKept, Written, WorldType
<1>2. CASE StartLine
  <2>1. /\ live \in Days /\ torn' = torn \cup {live} /\ Cardinality(Written) < MaxRecords
        /\ mtime' = [mtime EXCEPT ![live] = today]
        /\ UNCHANGED <<log, today, live, archive>>
    BY <1>2, <1>0 DEF StartLine, WorldType
  <2>2. WorldType' BY <1>0, <2>1 DEF WorldType
  <2>3. live <= live /\ Written' = Written BY <1>1, <2>1, DayFacts
  <2>4. Room' BY <2>1, <2>3, DayFacts DEF Room, Frontier
  <2> QED BY <1>1, <2>1, <2>2, <2>4
<1>3. ASSUME NEW k \in Kinds, FinishLine(k)
      PROVE  /\ WorldType' /\ Room' /\ LogKept
             /\ \A r \in Written' : r \in Written \/
                   (live \in Days /\ r = <<live, Len(log[live]) + 1>>)
  <2>1. /\ torn' = torn \ {live} /\ mtime' = [mtime EXCEPT ![live] = today]
        /\ UNCHANGED <<today, live, archive>>
    BY <1>3 DEF FinishLine
  <2>2. WorldType' BY <1>0, <1>3, <2>1, FinishLineEffect DEF WorldType
  <2>3. live' \notin torn' BY <2>1
  <2>4. Room' BY <1>3, <2>1, <2>3, FinishLineEffect DEF Room, Frontier
  <2> QED BY <1>3, <2>2, <2>4, FinishLineEffect
<1>4. CASE Midnight
  <2>1. /\ live = today /\ today < MaxDays /\ today' = today + 1
        /\ UNCHANGED <<log, torn, live, mtime, archive>>
    BY <1>4 DEF Midnight
  <2>2. today + 1 \in Days BY <1>0, <2>1, DayFacts DEF Days, WorldType
  <2>3. WorldType' BY <1>0, <2>1, <2>2 DEF WorldType
  <2>4. Room' BY <1>0, <1>1, <2>1, DayFacts DEF Room, Frontier, WorldType
  <2> QED BY <1>1, <2>1, <2>3, <2>4
<1>5. CASE MoveToArchive
  <2>1. /\ live \in Days /\ live < today /\ archive' = [archive EXCEPT ![live] = "plain"]
        /\ live' = NoDay
        /\ UNCHANGED <<log, torn, today, mtime>>
    BY <1>0, <1>5 DEF MoveToArchive, WorldType
  <2>2. WorldType' BY <1>0, <2>1 DEF WorldType
  <2>3. \A d \in torn : d \in Nat /\ d <= live /\ live \in Nat /\ today \in Nat
    BY <1>0, <2>1, DayFacts DEF Room, Frontier, WorldType
  <2>4. \A d \in torn : d <= today /\ d # today BY <2>1, <2>3
  <2>5. live' \notin torn' BY <1>0, <2>1, DayFacts DEF WorldType
  <2>6. Room' BY <2>1, <2>4, <2>5 DEF Room, Frontier
  <2> QED BY <1>1, <2>1, <2>2, <2>6
<1>6. CASE CreateLive
  <2>1. live = NoDay /\ live' = today /\ UNCHANGED <<log, torn, today, mtime, archive>>
    BY <1>6 DEF CreateLive
  <2>2. WorldType' BY <1>0, <2>1 DEF WorldType
  <2>3. Room'
    BY <1>0, <1>1, <2>1, DayFacts DEF Room, Frontier, WorldType
  <2> QED BY <1>1, <2>1, <2>2, <2>3
<1>7. ASSUME NEW d \in Days, Compress(d) \/ Expire(d)
      PROVE  /\ WorldType' /\ Room' /\ LogKept /\ Written' = Written
  <2>1. /\ \E a \in {"gz", "gone"} : archive' = [archive EXCEPT ![d] = a]
        /\ UNCHANGED <<log, torn, today, live, mtime>>
    BY <1>7 DEF Compress, Expire
  <2>2. WorldType' BY <1>0, <2>1 DEF WorldType
  <2>3. Room' BY <1>1, <2>1 DEF Room, Frontier
  <2> QED BY <1>1, <2>1, <2>2, <2>3
<1> QED BY <1>2, <1>3, <1>4, <1>5, <1>6, <1>7 DEF Write, Rotate

LEMMA WorldBase ==
    ASSUME BaseInv, World
    PROVE  /\ BaseInv' /\ LogKept
           /\ \A r \in Written' : r \in Written \/
                 (live \in Days /\ r = <<live, Len(log[live]) + 1>> /\ rows[r] = 0)
<1>0. /\ TypeOK /\ Room /\ Loop /\ OnlyWritten /\ AlertStoredOnce
      /\ UNCHANGED <<ckpt, rows, loopVars, stops, origin>>
      /\ Write \/ Rotate
  BY DEF BaseInv, World
<1>1. /\ WorldType' /\ Room' /\ LogKept
      /\ \A r \in Written' : r \in Written \/
            (live \in Days /\ r = <<live, Len(log[live]) + 1>>)
  BY <1>0, WorldStep
<1>2. TypeOK' BY <1>0, <1>1 DEF TypeOK, WorldType, loopVars
<1>3. Loop'
  <2>1. ASSUME pc = "save" PROVE ckpt.offset + 1 <= Len(log'[handle])
    <3>1. handle \in Days /\ ckpt.offset + 1 <= Len(log[handle])
      BY <1>0, <2>1 DEF Loop
    <3>2. Len(log[handle]) <= Len(log'[handle]) BY <1>1, <3>1 DEF LogKept
    <3>3. log[handle] \in Seq(Kinds) /\ log'[handle] \in Seq(Kinds)
      BY <1>0, <1>1, <3>1 DEF TypeOK, WorldType
    <3>4. Len(log[handle]) \in Nat /\ Len(log'[handle]) \in Nat BY <3>3
    <3>5. ckpt.offset \in Nat BY <1>0, DayFacts DEF TypeOK, Position
    <3> QED BY <3>1, <3>2, <3>4, <3>5
  <2> QED BY <1>0, <2>1 DEF Loop, loopVars
<1>4. OnlyWritten' BY <1>0, <1>1 DEF OnlyWritten, LogKept
<1>5. \A r \in Written' : r \in Records BY DEF Written, Records
<1>6. ASSUME NEW r \in Written', r \notin Written
      PROVE  live \in Days /\ r = <<live, Len(log[live]) + 1>> /\ rows[r] = 0
  <2>1. rows[r] \in Nat BY <1>0, <1>5 DEF TypeOK
  <2> QED BY <1>0, <1>1, <1>5, <1>6, <2>1 DEF OnlyWritten
<1>7. AlertStoredOnce'
  <2> SUFFICES ASSUME NEW r \in Written', log'[r[1]][r[2]] = "alert" PROVE rows[r] <= 1
    BY <1>0 DEF AlertStoredOnce
  <2>1. CASE r \notin Written BY <1>6, <2>1
  <2>2. CASE r \in Written
    <3>1. r[1] \in Days /\ r[2] \in 1..Len(log[r[1]])
      BY <1>0, <2>2, DayFacts DEF Written, TypeOK
    <3>2. log'[r[1]][r[2]] = log[r[1]][r[2]] BY <1>1, <3>1 DEF LogKept
    <3> QED BY <1>0, <2>2, <3>2 DEF AlertStoredOnce
  <2> QED BY <2>1, <2>2
<1> QED BY <1>1, <1>2, <1>3, <1>4, <1>6, <1>7 DEF BaseInv

-----------------------------------------------------------------------------
(* The loop.                                                               *)

LEMMA InitBase == Init => BaseInv
<1> SUFFICES ASSUME Init PROVE BaseInv OBVIOUS
<1>1. TypeOK
  <2>1. WorldType BY DayFacts DEF Init, WorldInit, WorldType
  <2>2. ckpt \in Position /\ origin \in Origins /\ rows \in [Records -> Nat]
    BY DayFacts DEF Init, NoPosition, Position, Origins
  <2>3. /\ pc = "down" /\ current = NoDay /\ source = "none" /\ handle = NoDay
        /\ expected = NoDay /\ stopping = FALSE /\ stops \in 0..MaxStops
    BY IngestAssumption DEF Init
  <2> QED BY <2>1, <2>2, <2>3 DEF TypeOK, WorldType
<1>2. Room BY DayFacts DEF Init, WorldInit, Room
<1>3. Loop BY DEF Init, Loop
<1>4. OnlyWritten /\ AlertStoredOnce
  BY DEF Init, OnlyWritten, AlertStoredOnce, Records, Written
<1> QED BY <1>1, <1>2, <1>3, <1>4 DEF BaseInv

\* Steps of the loop that leave the rows alone keep what holds of them.
LEMMA LoopOnly ==
    ASSUME BaseInv, UNCHANGED <<worldVars, rows>>, TypeOK', Loop'
    PROVE  BaseInv'
<1>1. Written' = Written BY DEF worldVars, Written
<1>2. Room' BY <1>1 DEF BaseInv, Room, Frontier, worldVars
<1>3. OnlyWritten' /\ AlertStoredOnce'
  BY <1>1 DEF BaseInv, OnlyWritten, AlertStoredOnce, worldVars
<1> QED BY <1>2, <1>3 DEF BaseInv

LEMMA LeaveStreamBase ==
    ASSUME BaseInv, Exit \/ Repoll, UNCHANGED <<worldVars, rows, ckpt, origin>>,
           stops' \in 0..MaxStops,
           Repoll => ckpt.date \in Days
    PROVE  BaseInv'
<1>1. TypeOK' BY DEF BaseInv, TypeOK, Exit, Repoll, Go, worldVars
<1>2. Loop' BY DEF BaseInv, Loop, Exit, Repoll, Go
<1> QED BY <1>1, <1>2, LoopOnly

LEMMA RestartBase == ASSUME BaseInv, Restart PROVE BaseInv'
  BY LeaveStreamBase DEF BaseInv, Restart, Loop, TypeOK

LEMMA FirstStartBase ==
    ASSUME BaseInv, FirstStart \/ InitializePosition
    PROVE  BaseInv'
<1>1. CASE FirstStart
  <2>1. /\ live \in Days /\ pc' = "first" /\ expected' = live
        /\ UNCHANGED <<worldVars, ckpt, rows, current, source, handle, stopping, stops, origin>>
    BY <1>1 DEF FirstStart, BaseInv, TypeOK
  <2>2. TypeOK' BY <2>1 DEF BaseInv, TypeOK, worldVars
  <2>3. Loop' BY <2>1 DEF BaseInv, Loop
  <2> QED BY <2>1, <2>2, <2>3, LoopOnly
<1>2. CASE InitializePosition
  <2>1. CASE live = NoDay
    BY <1>2, <2>1, LeaveStreamBase DEF InitializePosition, Exit, BaseInv, TypeOK, Repoll, Go
  <2>2. CASE live # NoDay
    <3>1. /\ live \in Days /\ mtime[live] \in Days /\ expected \in Days
          /\ Len(log[live]) \in Nat /\ Len(log[live]) <= MaxRecords
      BY <1>2, <2>2 DEF InitializePosition, BaseInv, TypeOK, Room, Loop
    <3>2. FirstOffset \in 0..MaxRecords
      BY <3>1, DayFacts DEF FirstOffset
    <3>3. /\ ckpt' = [date |-> mtime[live], offset |-> FirstOffset, inode |-> expected]
          /\ origin' = [date |-> mtime[live], offset |-> FirstOffset]
          /\ Repoll /\ UNCHANGED <<worldVars, rows, stops>>
      BY <1>2, <2>2 DEF InitializePosition
    <3>4. ckpt' \in Position /\ origin' \in Origins /\ ckpt'.date \in Days
      BY <3>1, <3>2, <3>3 DEF Position, Origins
    <3>5. TypeOK' BY <3>3, <3>4 DEF BaseInv, TypeOK, Repoll, Go, worldVars
    <3>6. Loop' BY <3>3, <3>4 DEF Loop, Repoll, Go
    <3> QED BY <3>3, <3>5, <3>6, LoopOnly
  <2> QED BY <2>1, <2>2
<1> QED BY <1>1, <1>2

LEMMA PollBase ==
    ASSUME BaseInv, LeaveLoop \/ Poll \/ MissingArchive \/ OpenArchive \/ StatLive \/ OpenLive
    PROVE  BaseInv'
<1>0. TypeOK /\ Loop BY DEF BaseInv
<1>1. CASE LeaveLoop \/ MissingArchive
  BY <1>0, <1>1, LeaveStreamBase
     DEF LeaveLoop, MissingArchive, Behind, Exit, Repoll, Go, TypeOK
<1>2. CASE Poll
  <2>1. /\ pc = "poll" /\ live \in Days /\ current' = mtime[live] /\ pc' = "drain"
        /\ UNCHANGED <<worldVars, ckpt, rows, source, handle, expected, stopping, stops, origin>>
    BY <1>0, <1>2 DEF Poll, MayPoll, TypeOK
  <2>2. current' \in Days BY <1>0, <2>1 DEF TypeOK
  <2>3. TypeOK' BY <1>0, <2>1, <2>2 DEF TypeOK, worldVars
  <2>4. Loop' BY <1>0, <2>1, <2>2 DEF Loop
  <2> QED BY <2>1, <2>3, <2>4, LoopOnly
<1>3. CASE OpenArchive
  <2>1. /\ pc = "drain" /\ ckpt.date < current /\ source' = "archive" /\ handle' = ckpt.date
        /\ pc' = "read"
        /\ UNCHANGED <<worldVars, ckpt, rows, current, expected, stopping, stops, origin>>
    BY <1>3 DEF OpenArchive, Behind
  <2>2. TypeOK' BY <1>0, <2>1 DEF TypeOK, Loop, worldVars
  <2>3. Loop' BY <1>0, <2>1 DEF Loop
  <2> QED BY <2>1, <2>2, <2>3, LoopOnly
<1>4. CASE StatLive
  <2>1. CASE LiveAccepted
    <3>1. /\ pc = "drain" /\ live \in Days /\ expected' = live /\ pc' = "open"
          /\ UNCHANGED <<current, source, handle, stopping>>
          /\ UNCHANGED <<worldVars, ckpt, rows, stops, origin>>
      BY <1>0, <1>4, <2>1 DEF StatLive, LiveAccepted, TypeOK
    <3>2. TypeOK' BY <1>0, <3>1 DEF TypeOK, worldVars
    <3>3. Loop' BY <1>0, <3>1 DEF Loop
    <3> QED BY <3>1, <3>2, <3>3, LoopOnly
  <2>2. CASE ~LiveAccepted
    BY <1>0, <1>4, <2>2, LeaveStreamBase DEF StatLive, Exit, Repoll, Go, TypeOK
  <2> QED BY <2>1, <2>2
<1>5. CASE OpenLive
  <2>1. CASE Exit \/ Repoll
    BY <1>0, <1>5, <2>1, LeaveStreamBase DEF OpenLive, Loop, TypeOK
  <2>2. CASE /\ OpensExpected /\ source' = "live" /\ handle' = live /\ pc' = "read"
             /\ UNCHANGED <<current, expected, stopping>>
    <3>1. /\ pc = "open" /\ expected \in Days /\ handle' = expected
          /\ UNCHANGED <<worldVars, ckpt, rows, stops, origin>>
      BY <1>0, <1>5, <2>2 DEF OpenLive, Loop, OpensExpected
    <3>2. TypeOK' BY <1>0, <2>2, <3>1 DEF TypeOK, worldVars
    <3>3. Loop' BY <1>0, <2>2, <3>1 DEF Loop
    <3> QED BY <3>1, <3>2, <3>3, LoopOnly
  <2> QED BY <1>5, <2>1, <2>2 DEF OpenLive
<1> QED BY <1>1, <1>2, <1>3, <1>4, <1>5

\* The record at the checkpoint is one of the log.
LEMMA HereWritten ==
    ASSUME BaseInv, (pc = "read" /\ ckpt.offset < Len(log[handle])) \/ pc = "save"
    PROVE  /\ Here \in Written /\ Here \in Records
           /\ handle \in Days /\ ckpt.offset \in Nat
           /\ ckpt.offset + 1 <= Len(log[handle]) /\ Len(log[handle]) \in Nat
           /\ ckpt.offset + 1 \in 1..MaxRecords
<1>1. /\ handle \in Days /\ log[handle] \in Seq(Kinds) /\ ckpt.offset \in Nat
      /\ Len(log[handle]) <= MaxRecords
  BY DayFacts DEF BaseInv, TypeOK, Room, Loop, Position
<1>2. Len(log[handle]) \in Nat BY <1>1
<1>3. ckpt.offset + 1 <= Len(log[handle]) BY <1>1, <1>2 DEF BaseInv, Loop
<1>4. ckpt.offset + 1 \in 1..MaxRecords BY <1>1, <1>2, <1>3, DayFacts
<1> QED BY <1>1, <1>2, <1>3, <1>4 DEF Here, Written, Records

LEMMA RecordBase ==
    ASSUME BaseInv, SkipRecord \/ PersistAlert \/ QuarantineLine \/ RetryRecord \/ SaveOffset
    PROVE  BaseInv'
<1>0. TypeOK /\ Loop BY DEF BaseInv
<1>1. ASSUME HasRecord, pc' = "save",
             UNCHANGED <<worldVars, ckpt, current, source, handle, expected, stopping, stops, origin>>,
             \/ UNCHANGED rows
             \/ rows' = [rows EXCEPT ![Here] = @ + 1] /\ (Kind = "alert" => rows[Here] = 0)
      PROVE  BaseInv'
  <2>1. /\ Here \in Written /\ Here \in Records /\ rows[Here] \in Nat
        /\ ckpt.offset + 1 <= Len(log[handle]) /\ pc = "read"
        /\ log[Here[1]][Here[2]] = Kind
    <3>1. /\ Here \in Written /\ Here \in Records
          /\ ckpt.offset + 1 <= Len(log[handle]) /\ pc = "read"
      BY <1>0, <1>1, HereWritten DEF HasRecord
    <3>2. rows[Here] \in Nat BY <1>0, <3>1 DEF TypeOK
    <3>3. log[Here[1]][Here[2]] = Kind BY DEF Here, Kind
    <3> QED BY <3>1, <3>2, <3>3
  <2>2. rows' \in [Records -> Nat]
    <3>1. rows \in [Records -> Nat] BY <1>0 DEF TypeOK
    <3>2. rows' = rows \/ rows' = [rows EXCEPT ![Here] = rows[Here] + 1] BY <1>1
    <3>3. rows[Here] + 1 \in Nat BY <2>1
    <3> QED BY <2>1, <3>1, <3>2, <3>3
  <2>3. TypeOK' BY <1>0, <1>1, <2>2 DEF TypeOK, worldVars
  <2>4. Loop' BY <1>0, <1>1, <2>1 DEF Loop, worldVars
  <2>5. Written' = Written BY <1>1 DEF Written, worldVars
  <2>6. Room' BY <1>1, <2>5 DEF BaseInv, Room, Frontier, worldVars
  <2>7. rows \in [Records -> Nat] BY <1>0 DEF TypeOK
  <2>8. OnlyWritten' BY <1>1, <2>1, <2>5, <2>7 DEF BaseInv, OnlyWritten
  <2>9. AlertStoredOnce'
    <3> SUFFICES ASSUME NEW r \in Written, log[r[1]][r[2]] = "alert" PROVE rows'[r] <= 1
      BY <1>1, <2>5 DEF AlertStoredOnce, worldVars
    <3>1. r \in Records /\ rows[r] <= 1 BY DEF BaseInv, AlertStoredOnce, Written, Records
    <3> QED BY <1>1, <2>1, <2>7, <3>1
  <2> QED BY <2>3, <2>4, <2>6, <2>8, <2>9 DEF BaseInv
<1>2. CASE SkipRecord BY <1>1, <1>2 DEF SkipRecord
<1>3. CASE PersistAlert
  <2>1. HasRecord /\ Kind = "alert" /\ ~(rows[Here] > 0) /\ MakeDurable
    BY <1>3 DEF PersistAlert, IsDuplicate
  <2>2. rows[Here] \in Nat BY <1>0, <2>1, HereWritten DEF HasRecord, TypeOK
  <2> QED BY <1>1, <2>1, <2>2 DEF MakeDurable
<1>4. CASE QuarantineLine
  <2>1. HasRecord /\ Kind # "alert" /\ MakeDurable BY <1>4 DEF QuarantineLine
  <2> QED BY <1>1, <2>1 DEF MakeDurable
<1>5. CASE RetryRecord
  BY <1>0, <1>5, LeaveStreamBase DEF RetryRecord, HasRecord, Loop, TypeOK
<1>6. CASE SaveOffset
  <2>1. /\ pc = "save" /\ pc' = "read" /\ current \in Days /\ handle \in Days
        /\ ckpt.offset + 1 \in 0..MaxRecords
        /\ \/ source = "archive" /\ handle = ckpt.date /\ ckpt.date < current
           \/ source = "live" /\ expected \in Days
        /\ ckpt' = [date |-> IF source = "archive" THEN handle ELSE current,
                    offset |-> ckpt.offset + 1,
                    inode |-> IF source = "archive" THEN NoDay ELSE expected]
        /\ UNCHANGED <<worldVars, rows, current, source, handle, expected, stopping, stops,
                       origin>>
    BY <1>0, <1>6, HereWritten, DayFacts DEF SaveOffset, Loop
  <2>2. ckpt' \in Position /\ ckpt'.date \in Days
        /\ (source = "archive" => ckpt'.date = handle)
    BY <2>1 DEF Position
  <2>3. TypeOK' BY <1>0, <2>1, <2>2 DEF TypeOK, worldVars
  <2>4. Loop' BY <2>1, <2>2 DEF Loop
  <2> QED BY <2>1, <2>3, <2>4, LoopOnly
<1> QED BY <1>2, <1>3, <1>4, <1>5, <1>6

LEMMA EndBase ==
    ASSUME BaseInv,
           FinishArchive \/ StopInArchive \/ IncompleteArchive \/ FinishLive
    PROVE  BaseInv'
<1>0. TypeOK /\ Loop BY DEF BaseInv
<1>1. CASE FinishArchive \/ StopInArchive
  <2>1. /\ pc = "read" /\ source = "archive" /\ NextDay
        /\ UNCHANGED <<worldVars, rows, stops, origin>>
    BY <1>1 DEF FinishArchive, StopInArchive
  <2>2. /\ ckpt.date \in Days /\ current \in Days /\ ckpt.date < current
    BY <1>0, <2>1 DEF Loop
  <2>3. ckpt.date + 1 \in Days BY <2>2, DayFacts DEF Days
  <2>4. /\ ckpt' = [date |-> ckpt.date + 1, offset |-> 0, inode |-> NoDay]
        /\ pc' = "drain" /\ source' = "none" /\ handle' = NoDay /\ expected' = NoDay
        /\ UNCHANGED <<current, stopping>>
    BY <2>1 DEF NextDay, Go
  <2>5. ckpt' \in Position /\ ckpt'.date \in Days
    BY <2>3, <2>4, DayFacts DEF Position
  <2>6. TypeOK' BY <1>0, <2>1, <2>4, <2>5 DEF TypeOK, worldVars
  <2>7. Loop' BY <2>2, <2>4, <2>5 DEF Loop
  <2> QED BY <2>1, <2>6, <2>7, LoopOnly
<1>2. CASE IncompleteArchive \/ FinishLive
  BY <1>0, <1>2, LeaveStreamBase
     DEF IncompleteArchive, FinishLive, Exit, Repoll, Go, Loop, TypeOK
<1> QED BY <1>1, <1>2

LEMMA StopBase ==
    ASSUME BaseInv, StopSignal \/ Crash
    PROVE  BaseInv'
<1>0. TypeOK /\ Loop BY DEF BaseInv
<1>1. CASE StopSignal
  <2>1. /\ stopping' = TRUE /\ stops' \in 0..MaxStops
        /\ UNCHANGED <<worldVars, ckpt, rows, pc, current, source, handle, expected, origin>>
    BY <1>0, <1>1, IngestAssumption DEF StopSignal, TypeOK
  <2>2. TypeOK' BY <1>0, <2>1 DEF TypeOK, worldVars
  <2>3. Loop' BY <1>0, <2>1 DEF Loop, worldVars
  <2> QED BY <2>1, <2>2, <2>3, LoopOnly
<1>2. CASE Crash
  <2>1. Exit /\ stops' \in 0..MaxStops /\ UNCHANGED <<worldVars, ckpt, rows, origin>>
    BY <1>0, <1>2, IngestAssumption DEF Crash, TypeOK
  <2>2. ~Repoll BY <2>1 DEF Exit, Repoll, Go
  <2> QED BY <2>1, <2>2, LeaveStreamBase
<1> QED BY <1>1, <1>2

LEMMA BaseStep == BaseInv /\ [Next]_vars => BaseInv'
<1> SUFFICES ASSUME BaseInv, [Next]_vars PROVE BaseInv' OBVIOUS
<1>1. CASE UNCHANGED vars
  BY <1>1, LoopOnly DEF BaseInv, TypeOK, Loop, vars, loopVars, worldVars
<1>2. CASE Ingest
  BY <1>2, RestartBase, FirstStartBase, PollBase, RecordBase, EndBase DEF Ingest
<1>3. CASE StopSignal \/ Crash BY <1>3, StopBase
<1>4. CASE World BY <1>4, WorldBase
<1> QED BY <1>1, <1>2, <1>3, <1>4 DEF Next

\* What the daemon holds in memory names files that exist and positions within
\* them, in every phase, whatever the manager, stops and crashes do.
THEOREM BaseHolds == Spec => []BaseInv
  BY InitBase, BaseStep, PTL DEF Spec

\* The checkpoint always names a day and a position that exist, wherever the
\* manager, a crash or a stop signal left the loop.
THEOREM TypeCorrect == Spec => []TypeOK
  BY BaseHolds, PTL DEF BaseInv

\* However often an alert is read again, after crashes, retries and rotations, it
\* has one row.
THEOREM AlertsStoredOnce == Spec => []AlertStoredOnce
  BY BaseHolds, PTL DEF BaseInv

-----------------------------------------------------------------------------
(* Smooth days.                                                            *)

LEMMA SmoothInit == Smooth /\ Init => SmoothInv
<1> SUFFICES ASSUME Smooth, Init PROVE SmoothInv OBVIOUS
<1>1. BaseInv BY InitBase
<1>2. ArchivesBehind
  BY DayFacts DEF Init, WorldInit, ArchivesBehind, Frontier, Days
<1>3. CheckpointInside
  BY DEF Init, WorldInit, CheckpointInside
<1>4. OnTrack BY DEF Init, OnTrack, Draining
<1>5. StopFindsNothing /\ NoGap BY DEF Init, StopFindsNothing, NoGap
<1> QED BY <1>1, <1>2, <1>3, <1>4, <1>5 DEF SmoothInv

LEMMA FrontierType ==
    ASSUME BaseInv
    PROVE  Frontier \in Days /\ Frontier \in Nat /\ today \in Nat /\ Frontier <= today
  BY DayFacts DEF BaseInv, TypeOK, Frontier, Room

\* The frontier moves on only when a file becomes an archive, and no file appears
\* in a drain or a first start.
LEMMA WorldDays ==
    ASSUME SmoothInv, World
    PROVE  /\ ArchivesBehind'
           /\ Frontier <= Frontier' /\ today <= today'
           /\ \/ live' \in {live, NoDay}
              \/ live = NoDay /\ live' = today /\ ~Draining /\ pc # "first"
           /\ ckpt = NoPosition => \A d \in Days : mtime'[d] = d
<1>0. /\ BaseInv /\ WorldType /\ ArchivesBehind
      /\ Write \/ Rotate
      /\ Frontier \in Days /\ Frontier \in Nat /\ today \in Nat
  BY FrontierType DEF SmoothInv, World, BaseInv, TypeOK, WorldType
<1>1. ~DayChange BY DEF World, SmoothInv, Smooth
<1>2. ckpt = NoPosition => \A d \in Days : mtime'[d] = d
  BY <1>1 DEF DayChange
<1>3. CASE UNCHANGED <<today, live, archive>>
            /\ (mtime' = mtime \/ (live \in Days /\ mtime' = [mtime EXCEPT ![live] = today]))
  <2>1. Frontier' = Frontier BY <1>3 DEF Frontier
  <2>2. live \in Days => live <= today BY <1>0, DayFacts DEF BaseInv, Room
  <2>3. \A d \in Days : d <= mtime'[d] /\ (mtime'[d] = d \/ mtime'[d] <= today)
    BY <1>0, <1>3, <2>2, DayFacts DEF ArchivesBehind, WorldType
  <2>4. ArchivesBehind' BY <1>0, <1>3, <2>1, <2>3 DEF ArchivesBehind
  <2> QED BY <1>0, <1>2, <1>3, <2>1, <2>4
<1>4. CASE Midnight
  <2>1. /\ live = today /\ today' = today + 1 /\ UNCHANGED <<live, mtime, archive>>
        /\ live # NoDay
    BY <1>0, <1>4, DayFacts DEF Midnight
  <2>2. Frontier' = Frontier BY <2>1 DEF Frontier
  <2>3. ASSUME NEW d \in Days
        PROVE  d <= mtime'[d] /\ (mtime'[d] = d \/ mtime'[d] <= today')
    <3>1. mtime[d] \in Nat BY <1>0, DayFacts DEF WorldType
    <3>2. d <= mtime[d] /\ (mtime[d] = d \/ mtime[d] <= today) BY <1>0 DEF ArchivesBehind
    <3> QED BY <1>0, <2>1, <3>1, <3>2
  <2>4. ArchivesBehind' BY <1>0, <2>1, <2>2, <2>3 DEF ArchivesBehind
  <2> QED BY <1>0, <1>2, <2>1, <2>2, <2>4
<1>5. CASE MoveToArchive
  <2>1. /\ live \in Days /\ live < today /\ live' = NoDay
        /\ archive' = [archive EXCEPT ![live] = "plain"] /\ UNCHANGED <<today, mtime>>
        /\ live + 1 >= today
    BY <1>0, <1>5, DayFacts DEF MoveToArchive, ArchivesBehind, WorldType
  <2>2. live \in Nat /\ Frontier = live /\ Frontier' = today /\ today = live + 1
    BY <1>0, <2>1, DayFacts DEF Frontier
  <2>3. \A d \in Days : archive'[d] # "none" <=> d < today
    BY <1>0, <2>1, <2>2, DayFacts DEF ArchivesBehind, WorldType
  <2>4. ArchivesBehind' BY <1>0, <2>1, <2>2, <2>3 DEF ArchivesBehind
  <2> QED BY <1>0, <1>2, <2>1, <2>2, <2>4
<1>6. CASE CreateLive
  <2>1. live = NoDay /\ live' = today /\ UNCHANGED <<today, mtime, archive>>
    BY <1>6 DEF CreateLive
  <2>2. live' # NoDay BY <1>0, <2>1, DayFacts
  <2>3. Frontier = today /\ Frontier' = today BY <2>1, <2>2 DEF Frontier
  <2>4. ArchivesBehind' BY <1>0, <2>1, <2>3 DEF ArchivesBehind
  <2>5. ~Draining /\ pc # "first" BY <1>1, <2>1, <2>2 DEF DayChange
  <2> QED BY <1>0, <1>2, <2>1, <2>3, <2>4, <2>5
<1>7. ASSUME NEW d \in Days, Compress(d) \/ Expire(d)
      PROVE  ArchivesBehind' /\ UNCHANGED <<today, live>>
  <2>1. /\ archive[d] # "none" /\ UNCHANGED <<today, live, mtime>>
        /\ \E a \in {"gz", "gone"} : archive' = [archive EXCEPT ![d] = a]
    BY <1>7 DEF Compress, Expire
  <2>2. \A e \in Days : archive'[e] # "none" <=> archive[e] # "none"
    BY <1>0, <2>1 DEF WorldType
  <2>3. Frontier' = Frontier BY <2>1 DEF Frontier
  <2>4. \A e \in Days : archive'[e] # "none" <=> e < Frontier'
    BY <1>0, <2>2, <2>3 DEF ArchivesBehind
  <2>5. \A e \in Days : e <= mtime'[e] /\ (mtime'[e] = e \/ mtime'[e] <= today')
    BY <1>0, <2>1 DEF ArchivesBehind
  <2>6. live' # NoDay => live' + 1 >= today'
    BY <1>0, <2>1 DEF ArchivesBehind
  <2> QED BY <2>1, <2>4, <2>5, <2>6 DEF ArchivesBehind
<1>8. CASE StartLine \/ \E k \in Kinds : FinishLine(k)
  <2>1. /\ UNCHANGED <<today, live, archive>>
        /\ mtime' = [mtime EXCEPT ![live] = today]
        /\ live # NoDay
    BY <1>8, <1>0, DayFacts DEF StartLine, FinishLine, BaseInv, TypeOK
  <2>2. live \in Days BY <1>0, <2>1 DEF WorldType
  <2> QED BY <1>3, <2>1, <2>2
<1>9. ASSUME UNCHANGED <<today, live>> PROVE Frontier' = Frontier
  BY <1>9 DEF Frontier
<1> QED BY <1>0, <1>2, <1>4, <1>5, <1>6, <1>7, <1>8, <1>9 DEF Write, Rotate

LEMMA WrittenFacts ==
    ASSUME NEW r \in Written
    PROVE  /\ r = <<r[1], r[2]>> /\ r[1] \in Days /\ r[1] \in Nat
           /\ r[2] \in 1..MaxRecords /\ r[2] \in Nat /\ r[2] > 0
           /\ r[2] <= Len(log[r[1]])
<1>1. r \in Days \X (1..MaxRecords) /\ r[2] <= Len(log[r[1]]) BY DEF Written
<1>2. r = <<r[1], r[2]>> /\ r[1] \in Days /\ r[2] \in 1..MaxRecords BY <1>1
<1>3. r[1] \in Nat BY <1>2, DayFacts
<1>4. r[2] \in Nat /\ r[2] > 0 BY <1>2, DayFacts
<1> QED BY <1>1, <1>2, <1>3, <1>4

LEMMA WorldSmooth ==
    ASSUME SmoothInv, World
    PROVE  SmoothInv'
<1>0. /\ BaseInv /\ TypeOK /\ OnTrack /\ CheckpointInside /\ StopFindsNothing /\ NoGap
      /\ UNCHANGED <<ckpt, rows, loopVars, stops, origin>>
      /\ UNCHANGED <<pc, current, source, handle, expected, stopping>>
  BY DEF SmoothInv, BaseInv, World, loopVars
<1>1. /\ BaseInv' /\ LogKept
      /\ \A r \in Written' : r \in Written \/
            (live \in Days /\ r = <<live, Len(log[live]) + 1>> /\ rows[r] = 0)
  BY WorldBase DEF SmoothInv
<1>2. /\ ArchivesBehind'
      /\ Frontier <= Frontier' /\ today <= today'
      /\ \/ live' \in {live, NoDay}
         \/ live = NoDay /\ live' = today /\ ~Draining /\ pc # "first"
      /\ ckpt = NoPosition => \A d \in Days : mtime'[d] = d
  BY WorldDays
<1>3. /\ Frontier \in Days /\ Frontier \in Nat /\ today \in Nat /\ Frontier <= today
      /\ Frontier' \in Nat /\ today' \in Nat
  <2>1. Frontier' \in Nat /\ today' \in Nat
    BY <1>1, DayFacts DEF BaseInv, TypeOK, Frontier
  <2> QED BY <1>0, <2>1, FrontierType
<1>4. \A r \in Written : /\ r \in Records /\ r \in Written'
                         /\ NeedsRow(r)' <=> NeedsRow(r)
  <2> SUFFICES ASSUME NEW r \in Written
      PROVE  r \in Records /\ r \in Written' /\ (NeedsRow(r)' <=> NeedsRow(r))
    OBVIOUS
  <2>1. r \in Records /\ r[1] \in Days /\ r[2] \in 1..Len(log[r[1]])
    BY <1>0, DayFacts DEF Written, Records, TypeOK
  <2> QED BY <1>1, <2>1 DEF LogKept, NeedsRow
<1>5. ckpt # NoPosition => ckpt \in Position /\ ckpt.date \in Days /\ ckpt.date \in Nat
                           /\ ckpt.offset \in Nat
  <2>1. ckpt \in Position /\ (ckpt # NoPosition => ckpt.date \in Days)
    BY <1>0 DEF BaseInv, TypeOK, Loop
  <2>2. ckpt.offset \in 0..MaxRecords BY <2>1 DEF Position
  <2>3. ckpt.offset \in Nat BY <2>2, DayFacts
  <2> QED BY <2>1, <2>3, DayFacts
\* The new record is not before the checkpoint.
<1>6. ASSUME NEW r \in Written', r \notin Written, ckpt # NoPosition
      PROVE  AtOrAfter(r, ckpt)
  <2>1. live \in Days /\ r = <<live, Len(log[live]) + 1>> BY <1>1, <1>6
  <2>2. ckpt.date <= live BY <1>0, <1>6, <2>1, DayFacts DEF CheckpointInside, Frontier
  <2>3. ckpt.date = live => ckpt.offset <= Len(log[live])
    BY <1>0, <1>6 DEF CheckpointInside
  <2>4. Len(log[live]) \in Nat /\ live \in Nat BY <1>0, <2>1, DayFacts DEF TypeOK
  <2> QED BY <1>5, <1>6, <2>1, <2>2, <2>3, <2>4 DEF AtOrAfter
<1>7. NoGap'
  <2> SUFFICES ASSUME ckpt # NoPosition, NEW r \in Written', AtOrAfter(r, origin),
                      ~AtOrAfter(r, ckpt), NeedsRow(r)'
      PROVE  rows[r] > 0
    BY <1>0 DEF NoGap, AtOrAfter
  <2> QED BY <1>0, <1>4, <1>6 DEF NoGap
<1>8. CheckpointInside'
  <2>1. CASE ckpt = NoPosition BY <1>0, <1>2, <2>1 DEF CheckpointInside
  <2>2. CASE ckpt # NoPosition
    <3>1. Len(log[ckpt.date]) \in Nat /\ Len(log'[ckpt.date]) \in Nat
          /\ Len(log[ckpt.date]) <= Len(log'[ckpt.date])
      <4>1. log[ckpt.date] \in Seq(Kinds) /\ log'[ckpt.date] \in Seq(Kinds)
        BY <1>0, <1>1, <1>5, <2>2 DEF BaseInv, TypeOK
      <4> QED BY <1>1, <1>5, <2>2, <4>1 DEF LogKept
    <3>2. /\ ckpt.date <= Frontier /\ ckpt.offset <= Len(log[ckpt.date])
          /\ ckpt.inode \in {NoDay, ckpt.date}
      BY <1>0, <2>2 DEF CheckpointInside
    <3>3. ckpt.date <= Frontier' /\ ckpt.offset <= Len(log'[ckpt.date])
      BY <1>2, <1>3, <1>5, <2>2, <3>1, <3>2
    <3> QED BY <1>0, <2>2, <3>2, <3>3 DEF CheckpointInside
  <2> QED BY <2>1, <2>2
<1>9. current # NoDay => current \in Nat /\ current <= today /\ current <= today'
  BY <1>0, <1>2, <1>3, DayFacts DEF OnTrack, TypeOK
<1>10. StopFindsNothing'
  <2> SUFFICES ASSUME stopping, current # NoDay
      PROVE  /\ \A r \in Written' : r[1] < current => ~AtOrAfter(r, ckpt)
             /\ live' # NoDay => live' >= current
    BY <1>0 DEF StopFindsNothing, AtOrAfter
  <2>1. ASSUME NEW r \in Written', r[1] < current PROVE ~AtOrAfter(r, ckpt)
    <3>1. r \in Written
      <4> SUFFICES ASSUME r \notin Written PROVE FALSE OBVIOUS
      <4>1. live \in Days /\ r[1] = live BY <1>1
      <4>2. live >= current BY <1>0, <4>1, DayFacts DEF StopFindsNothing
      <4> QED BY <1>9, <2>1, <4>1, <4>2, DayFacts
    <3> QED BY <1>0, <2>1, <3>1 DEF StopFindsNothing
  <2>2. live' # NoDay => live' >= current
    BY <1>0, <1>2, <1>3, <1>9 DEF StopFindsNothing
  <2> QED BY <2>1, <2>2
<1>11. OnTrack'
  <2>1. pc = "first" => live' \in {NoDay, expected} BY <1>0, <1>2 DEF OnTrack
  <2>2. Draining' <=> Draining BY <1>0 DEF Draining
  <2>3. Draining => live' = NoDay \/ live' <= current BY <1>0, <1>2 DEF OnTrack
  <2>4. pc \in {"read", "save"} /\ source = "archive" => handle < Frontier'
    <3>1. pc \in {"read", "save"} => handle \in Nat
      BY <1>0, DayFacts DEF BaseInv, Loop
    <3> QED BY <1>0, <1>2, <1>3, <3>1 DEF OnTrack
  <2>5. ASSUME pc = "save", NeedsRow(Here)' PROVE rows[Here] > 0
    <3>1. Here \in Written BY <1>0, <2>5, HereWritten
    <3>2. NeedsRow(Here) BY <1>0, <1>4, <2>5, <3>1 DEF NeedsRow, Here
    <3> QED BY <1>0, <2>5, <3>2 DEF OnTrack
  <2>6. Here' = Here BY <1>0 DEF Here
  <2> QED BY <1>0, <1>9, <2>1, <2>2, <2>3, <2>4, <2>5, <2>6 DEF OnTrack
<1> QED BY <1>1, <1>2, <1>7, <1>8, <1>10, <1>11 DEF SmoothInv, Smooth

\* A step of the loop that moves no checkpoint.
LEMMA LoopSmooth ==
    ASSUME SmoothInv, BaseInv', UNCHANGED <<worldVars, rows, ckpt, origin>>,
           OnTrack', StopFindsNothing'
    PROVE  SmoothInv'
<1>1. Written' = Written /\ UNCHANGED <<log, today, live, mtime, archive>>
  BY DEF worldVars, Written
<1>2. ArchivesBehind' /\ CheckpointInside'
  BY <1>1 DEF SmoothInv, ArchivesBehind, CheckpointInside, Frontier
<1>3. NoGap' BY <1>1 DEF SmoothInv, NoGap, AtOrAfter, NeedsRow
<1> QED BY <1>2, <1>3 DEF SmoothInv, Smooth

LEMMA LeaveStreamSmooth ==
    ASSUME SmoothInv, BaseInv', Exit \/ Repoll, UNCHANGED <<worldVars, rows, ckpt, origin>>
    PROVE  SmoothInv'
<1>1. pc' \in {"down", "poll"} /\ current' = NoDay BY DEF Exit, Repoll, Go
<1>2. OnTrack' BY <1>1 DEF OnTrack, Draining
<1>3. StopFindsNothing' BY <1>1 DEF StopFindsNothing
<1> QED BY <1>2, <1>3, LoopSmooth

\* A step that moves the checkpoint over records that were dealt with.
LEMMA AdvanceSmooth ==
    ASSUME SmoothInv, BaseInv', UNCHANGED <<worldVars, rows, origin, stopping, current>>,
           ckpt # NoPosition,
           \A r \in Written : AtOrAfter(r, ckpt') => AtOrAfter(r, ckpt),
           \A r \in Written : AtOrAfter(r, ckpt) /\ ~AtOrAfter(r, ckpt') /\ NeedsRow(r)
                                => rows[r] > 0,
           CheckpointInside', OnTrack'
    PROVE  SmoothInv'
<1>1. Written' = Written /\ UNCHANGED <<log, today, live, mtime, archive>>
  BY DEF worldVars, Written
<1>2. ArchivesBehind' BY <1>1 DEF SmoothInv, ArchivesBehind, Frontier
<1>3. NoGap'
  <2> SUFFICES ASSUME NEW r \in Written, AtOrAfter(r, origin), ~AtOrAfter(r, ckpt'),
                      NeedsRow(r)
      PROVE  rows[r] > 0
    BY <1>1 DEF NoGap, AtOrAfter, NeedsRow
  <2> QED BY DEF SmoothInv, NoGap
<1>4. StopFindsNothing'
  BY <1>1 DEF SmoothInv, StopFindsNothing, AtOrAfter
<1> QED BY <1>2, <1>3, <1>4 DEF SmoothInv, Smooth

LEMMA FirstStartSmooth ==
    ASSUME SmoothInv, FirstStart \/ InitializePosition
    PROVE  SmoothInv'
<1>0. BaseInv /\ BaseInv' BY FirstStartBase DEF SmoothInv
<1>1. CASE FirstStart
  <2>1. /\ ckpt = NoPosition /\ pc' = "first" /\ expected' = live
        /\ UNCHANGED <<worldVars, ckpt, rows, current, source, handle, stopping, stops, origin>>
        /\ UNCHANGED <<log, today, live>>
    BY <1>1 DEF FirstStart, worldVars
  <2>2. OnTrack' BY <2>1 DEF SmoothInv, OnTrack, Draining
  <2>3. StopFindsNothing'
    BY <2>1 DEF SmoothInv, StopFindsNothing, Written, AtOrAfter
  <2> QED BY <1>0, <2>1, <2>2, <2>3, LoopSmooth
<1>2. CASE InitializePosition
  <2>1. CASE live = NoDay
    BY <1>0, <1>2, <2>1, LeaveStreamSmooth DEF InitializePosition
  <2>2. CASE live # NoDay
    <3>1. /\ pc = "first" /\ Repoll /\ UNCHANGED <<worldVars, rows, stops>>
          /\ ckpt' = [date |-> mtime[live], offset |-> FirstOffset, inode |-> expected]
          /\ origin' = [date |-> mtime[live], offset |-> FirstOffset]
          /\ UNCHANGED <<log, today, live, mtime, archive>>
      BY <1>2, <2>2 DEF InitializePosition, worldVars
    <3>2. live \in Days /\ live \in Nat /\ live = expected /\ mtime[live] = live
      BY <2>2, <3>1, DayFacts
         DEF SmoothInv, OnTrack, CheckpointInside, BaseInv, TypeOK
    <3>3. FirstOffset <= Len(log[live])
      BY <1>0, <3>2 DEF FirstOffset, BaseInv, TypeOK
    <3>4. Frontier' = live BY <2>2, <3>1 DEF Frontier
    <3>5. CheckpointInside'
      <4>1. ckpt' # NoPosition BY <3>1, <3>2, DayFacts
      <4> QED BY <3>1, <3>2, <3>3, <3>4, <4>1 DEF CheckpointInside
    <3>6. pc' = "poll" /\ current' = NoDay BY <3>1 DEF Repoll, Go
    <3>7. OnTrack' /\ StopFindsNothing'
      BY <3>6 DEF OnTrack, Draining, StopFindsNothing
    <3>8. NoGap' BY <3>1 DEF NoGap, AtOrAfter
    <3>9. ArchivesBehind' BY <3>1 DEF SmoothInv, ArchivesBehind, Frontier
    <3> QED BY <1>0, <3>5, <3>7, <3>8, <3>9 DEF SmoothInv, Smooth
  <2> QED BY <2>1, <2>2
<1> QED BY <1>1, <1>2

\* What the checkpoint of a running loop is.
LEMMA RunningCheckpoint ==
    ASSUME SmoothInv, pc \in {"poll", "drain", "open", "read", "save"}
    PROVE  /\ ckpt # NoPosition /\ ckpt \in Position
           /\ ckpt.date \in Days /\ ckpt.date \in Nat /\ ckpt.offset \in Nat
           /\ ckpt.date <= Frontier /\ ckpt.offset <= Len(log[ckpt.date])
           /\ ckpt.inode \in {NoDay, ckpt.date}
<1>1. ckpt.date \in Days /\ ckpt \in Position
  BY DEF SmoothInv, BaseInv, Loop, TypeOK
<1>2. ckpt # NoPosition /\ ckpt.date \in Nat BY <1>1, DayFacts
<1>3. ckpt.offset \in 0..MaxRecords BY <1>1 DEF Position
<1>4. ckpt.offset \in Nat BY <1>3, DayFacts
<1> QED BY <1>1, <1>2, <1>4 DEF SmoothInv, CheckpointInside

LEMMA PollSmooth ==
    ASSUME SmoothInv,
           LeaveLoop \/ Poll \/ MissingArchive \/ OpenArchive \/ StatLive \/ OpenLive
    PROVE  SmoothInv'
<1>0. /\ BaseInv /\ BaseInv' /\ TypeOK /\ Loop /\ OnTrack
      /\ Frontier \in Nat /\ today \in Nat /\ Frontier <= today
  BY PollBase, FrontierType DEF SmoothInv, BaseInv
<1>1. CASE LeaveLoop \/ MissingArchive
  BY <1>0, <1>1, LeaveStreamSmooth DEF LeaveLoop, MissingArchive
<1>2. CASE Poll
  <2>1. /\ pc = "poll" /\ ~stopping /\ live # NoDay /\ ckpt.date <= mtime[live]
        /\ current' = mtime[live] /\ pc' = "drain"
        /\ UNCHANGED <<worldVars, ckpt, rows, source, handle, expected, stopping, stops, origin>>
        /\ UNCHANGED <<today, live>>
    BY <1>2 DEF Poll, MayPoll, worldVars
  <2>2. /\ live \in Days /\ live \in Nat /\ mtime[live] \in Nat
        /\ live <= mtime[live] /\ mtime[live] <= today
    <3>1. live \in Days /\ mtime[live] \in Days /\ live <= today
      BY <1>0, <2>1 DEF TypeOK, BaseInv, Room
    <3>2. live <= mtime[live] /\ (mtime[live] = live \/ mtime[live] <= today)
      BY <3>1 DEF SmoothInv, ArchivesBehind
    <3> QED BY <3>1, <3>2, DayFacts
  <2>3. OnTrack' BY <2>1, <2>2 DEF OnTrack, Draining
  <2>4. StopFindsNothing' BY <2>1 DEF StopFindsNothing
  <2> QED BY <1>0, <2>1, <2>3, <2>4, LoopSmooth
<1>3. ASSUME UNCHANGED <<worldVars, ckpt, rows, current, stopping>>
      PROVE  StopFindsNothing'
  BY <1>3 DEF SmoothInv, StopFindsNothing, Written, AtOrAfter, worldVars
<1>4. CASE OpenArchive
  <2>1. /\ pc = "drain" /\ ckpt.date < current /\ source' = "archive" /\ handle' = ckpt.date
        /\ pc' = "read"
        /\ UNCHANGED <<worldVars, ckpt, rows, current, expected, stopping, stops, origin>>
        /\ UNCHANGED <<today, live, archive>>
        /\ archive[ckpt.date] # "none"
    BY <1>4 DEF OpenArchive, Behind, ArchiveReadable, worldVars
  <2>2. ckpt.date < Frontier
    BY <2>1, RunningCheckpoint DEF SmoothInv, ArchivesBehind
  <2>3. Frontier' = Frontier BY <2>1 DEF Frontier
  <2>4. Draining BY <2>1 DEF Draining
  <2>5. OnTrack' BY <1>0, <2>1, <2>2, <2>3, <2>4 DEF OnTrack
  <2> QED BY <1>0, <1>3, <2>1, <2>5, LoopSmooth
<1>5. CASE StatLive
  <2>1. CASE LiveAccepted
    <3>1. /\ pc = "drain" /\ ckpt.date >= current /\ live # NoDay /\ ckpt.inode \in {NoDay, live}
          /\ expected' = live /\ pc' = "open"
          /\ UNCHANGED <<worldVars, ckpt, rows, current, source, handle, stopping, stops, origin>>
          /\ UNCHANGED <<today, live>>
      BY <1>5, <2>1 DEF StatLive, LiveAccepted, worldVars
    <3>2. ckpt.date \in Nat /\ current \in Nat /\ live \in Nat /\ current = ckpt.date
      <4>1. current \in Days /\ ckpt.date <= current
        BY <1>0, <3>1 DEF Loop, OnTrack
      <4> QED BY <1>0, <3>1, <4>1, RunningCheckpoint, DayFacts DEF TypeOK
    <3>3. live = ckpt.date
      <4>1. CASE ckpt.inode = live
        BY <3>1, <4>1, RunningCheckpoint
      <4>2. CASE ckpt.inode = NoDay
        <5>1. Draining BY <3>1, <4>2 DEF Draining
        <5>2. live <= current BY <1>0, <3>1, <5>1 DEF OnTrack
        <5>3. ckpt.date <= live BY <3>1, RunningCheckpoint DEF Frontier
        <5> QED BY <3>2, <5>2, <5>3
      <4> QED BY <3>1, <4>1, <4>2
    <3>4. OnTrack' BY <1>0, <3>1, <3>2, <3>3 DEF OnTrack, Draining
    <3> QED BY <1>0, <1>3, <3>1, <3>4, LoopSmooth
  <2>2. CASE ~LiveAccepted
    BY <1>0, <1>5, <2>2, LeaveStreamSmooth DEF StatLive
  <2> QED BY <2>1, <2>2
<1>6. CASE OpenLive
  <2>1. CASE Exit \/ Repoll
    BY <1>0, <1>6, <2>1, LeaveStreamSmooth DEF OpenLive
  <2>2. CASE /\ OpensExpected /\ source' = "live" /\ handle' = live /\ pc' = "read"
             /\ UNCHANGED <<current, expected, stopping>>
    <3>1. /\ pc = "open" /\ handle' = expected
          /\ UNCHANGED <<worldVars, ckpt, rows, stops, origin, today, live>>
      BY <1>6, <2>2 DEF OpenLive, OpensExpected, worldVars
    <3>2. OnTrack' BY <1>0, <2>2, <3>1 DEF OnTrack, Draining
    <3> QED BY <1>0, <1>3, <2>2, <3>1, <3>2, LoopSmooth
  <2> QED BY <1>6, <2>1, <2>2 DEF OpenLive
<1> QED BY <1>1, <1>2, <1>4, <1>5, <1>6

LEMMA RecordSmooth ==
    ASSUME SmoothInv, SkipRecord \/ PersistAlert \/ QuarantineLine \/ RetryRecord
    PROVE  SmoothInv'
<1>0. /\ BaseInv /\ BaseInv' /\ TypeOK /\ OnTrack
  BY RecordBase DEF SmoothInv, BaseInv
<1>1. ASSUME HasRecord, pc' = "save",
             UNCHANGED <<worldVars, ckpt, current, source, handle, expected, stopping, stops, origin>>,
             \A r \in Written : rows[r] > 0 => rows'[r] > 0,
             NeedsRow(Here) => rows'[Here] > 0
      PROVE  SmoothInv'
  <2>1. Written' = Written /\ UNCHANGED <<log, today, live, mtime, archive>>
    BY <1>1 DEF worldVars, Written
  <2>2. ArchivesBehind' /\ CheckpointInside'
    BY <1>1, <2>1 DEF SmoothInv, ArchivesBehind, CheckpointInside, Frontier
  <2>3. NoGap' BY <1>1, <2>1 DEF SmoothInv, NoGap, AtOrAfter, NeedsRow
  <2>4. StopFindsNothing'
    BY <1>1, <2>1 DEF SmoothInv, StopFindsNothing, AtOrAfter
  <2>5. OnTrack'
    <3>1. pc = "read" BY <1>1 DEF HasRecord
    <3>2. Here' = Here /\ (NeedsRow(Here)' <=> NeedsRow(Here))
      BY <1>1, <2>1 DEF Here, NeedsRow
    <3>3. Draining' => Draining BY <1>1, <3>1 DEF Draining
    <3>4. Frontier' = Frontier BY <2>1 DEF Frontier
    <3> QED BY <1>0, <1>1, <2>1, <3>1, <3>2, <3>3, <3>4 DEF OnTrack
  <2> QED BY <1>0, <2>2, <2>3, <2>4, <2>5 DEF SmoothInv, Smooth
<1>2. HasRecord => /\ Here \in Records /\ Here \in Written /\ Kind = log[Here[1]][Here[2]]
                   /\ rows[Here] \in Nat
  BY <1>0, HereWritten DEF HasRecord, Here, Kind, TypeOK
<1>3. ASSUME HasRecord, MakeDurable
      PROVE  /\ \A r \in Written : rows[r] > 0 => rows'[r] > 0
             /\ rows'[Here] > 0
  <2>1. rows' = [rows EXCEPT ![Here] = rows[Here] + 1] /\ rows \in [Records -> Nat]
    BY <1>0, <1>3 DEF MakeDurable, TypeOK
  <2>2. \A r \in Written : r \in Records BY DEF Written, Records
  <2> QED BY <1>2, <1>3, <2>1, <2>2
<1>4. CASE SkipRecord
  <2>1. NeedsRow(Here) => rows[Here] > 0
    BY <1>2, <1>4 DEF SkipRecord, IsDuplicate, NeedsRow
  <2> QED BY <1>1, <1>4, <2>1 DEF SkipRecord
<1>5. CASE PersistAlert \/ QuarantineLine
  <2>1. HasRecord /\ MakeDurable BY <1>5 DEF PersistAlert, QuarantineLine
  <2> QED BY <1>1, <1>3, <2>1 DEF MakeDurable
<1>6. CASE RetryRecord BY <1>0, <1>6, LeaveStreamSmooth DEF RetryRecord
<1> QED BY <1>4, <1>5, <1>6

LEMMA SaveSmooth ==
    ASSUME SmoothInv, SaveOffset
    PROVE  /\ SmoothInv'
           /\ ckpt' = [ckpt EXCEPT !.offset = @ + 1, !.inode = ckpt'.inode]
           /\ Here \in Written /\ Here = <<ckpt.date, ckpt.offset + 1>>
           /\ NeedsRow(Here) => rows[Here] > 0
<1>0. BaseInv /\ BaseInv' /\ OnTrack /\ Loop
  BY RecordBase DEF SmoothInv, BaseInv
<1>1. /\ pc = "save" /\ pc' = "read" /\ handle = ckpt.date
      /\ ckpt' = [date |-> IF source = "archive" THEN handle ELSE current,
                  offset |-> ckpt.offset + 1,
                  inode |-> IF source = "archive" THEN NoDay ELSE expected]
      /\ UNCHANGED <<worldVars, rows, current, source, handle, expected, stopping, stops,
                     origin>>
      /\ UNCHANGED <<log, today, live, archive>>
  BY <1>0 DEF SaveOffset, OnTrack, worldVars
<1>2. /\ ckpt'.date = ckpt.date /\ ckpt'.offset = ckpt.offset + 1
      /\ ckpt'.inode \in {NoDay, ckpt.date}
  BY <1>0, <1>1 DEF OnTrack
<1>3. /\ Here \in Written /\ Here = <<ckpt.date, ckpt.offset + 1>>
      /\ ckpt.offset + 1 <= Len(log[ckpt.date])
  BY <1>0, <1>1, HereWritten DEF Here
<1>4. NeedsRow(Here) => rows[Here] > 0 BY <1>0, <1>1 DEF OnTrack
<1>5. /\ ckpt # NoPosition /\ ckpt \in Position /\ ckpt' \in Position
      /\ ckpt.date \in Days /\ ckpt.offset \in Nat /\ ckpt.date <= Frontier
  BY <1>0, <1>1, RunningCheckpoint DEF BaseInv, TypeOK
<1>6. ckpt' # NoPosition BY <1>2, <1>5, DayFacts
<1>7. Frontier' = Frontier BY <1>1 DEF Frontier
<1>8. CheckpointInside'
  BY <1>1, <1>2, <1>3, <1>5, <1>6, <1>7 DEF CheckpointInside
<1>9. OnTrack'
  <2>1. Draining' => Draining BY <1>1 DEF Draining
  <2> QED BY <1>0, <1>1, <1>2, <1>7, <2>1 DEF OnTrack
<1>10. ASSUME NEW r \in Written
       PROVE  /\ AtOrAfter(r, ckpt') => AtOrAfter(r, ckpt)
              /\ AtOrAfter(r, ckpt) /\ ~AtOrAfter(r, ckpt') => r = Here
  <2>1. r = <<r[1], r[2]>> /\ r[1] \in Nat /\ r[2] \in Nat
    BY WrittenFacts
  <2> QED BY <1>2, <1>3, <1>5, <2>1, DayFacts DEF AtOrAfter
<1>11. SmoothInv'
  BY <1>0, <1>1, <1>4, <1>5, <1>8, <1>9, <1>10, AdvanceSmooth
<1>12. ckpt' = [ckpt EXCEPT !.offset = @ + 1, !.inode = ckpt'.inode]
  BY <1>1, <1>2, <1>5 DEF Position
<1> QED BY <1>3, <1>4, <1>11, <1>12

LEMMA EndSmooth ==
    ASSUME SmoothInv, FinishArchive \/ StopInArchive
    PROVE  /\ SmoothInv'
           /\ ckpt' = [date |-> ckpt.date + 1, offset |-> 0, inode |-> NoDay]
           /\ ckpt.date + 1 \in Days
           /\ ckpt.offset = Len(log[ckpt.date])
<1>0. BaseInv /\ BaseInv' /\ TypeOK /\ OnTrack /\ Loop /\ StopFindsNothing
  BY EndBase DEF SmoothInv, BaseInv
<1>1. /\ pc = "read" /\ source = "archive" /\ handle = ckpt.date
      /\ ckpt.date < Frontier /\ ckpt.date < current /\ current \in Days
      /\ ckpt' = [date |-> ckpt.date + 1, offset |-> 0, inode |-> NoDay]
      /\ pc' = "drain" /\ source' = "none"
      /\ UNCHANGED <<worldVars, rows, origin, stopping, current>>
      /\ UNCHANGED <<log, today, live, archive>>
  BY <1>0 DEF FinishArchive, StopInArchive, NextDay, Go, OnTrack, Loop, worldVars
<1>2. /\ ckpt # NoPosition /\ ckpt \in Position /\ ckpt.date \in Days /\ ckpt.date \in Nat
      /\ ckpt.offset \in Nat /\ ckpt.offset <= Len(log[ckpt.date]) /\ current \in Nat
  BY <1>1, RunningCheckpoint, DayFacts
<1>3. Frontier \in Days /\ Frontier \in Nat /\ Frontier' = Frontier
  BY <1>0, <1>1, FrontierType DEF Frontier
<1>4. ckpt.date + 1 \in Days BY <1>1, <1>2, <1>3, DayFacts DEF Days
\* Nothing of the day is left behind, whether its end was reached or a stop came.
<1>5. ASSUME NEW r \in Written, r[1] = ckpt.date PROVE r[2] <= ckpt.offset
  <2>1. r[2] \in Nat /\ r[2] <= Len(log[ckpt.date]) /\ Len(log[ckpt.date]) \in Nat
    BY <1>0, <1>2, <1>5, DayFacts, SMTT(60) DEF Written, TypeOK
  <2>2. CASE FinishArchive
    BY <1>1, <1>2, <2>1, <2>2 DEF FinishArchive, AtEnd
  <2>3. CASE StopInArchive
    <3>1. stopping /\ current # NoDay BY <1>1, <2>3, DayFacts DEF StopInArchive
    <3>2. ~AtOrAfter(r, ckpt) BY <1>0, <1>1, <1>5, <3>1 DEF StopFindsNothing
    <3> QED BY <1>2, <1>5, <2>1, <3>2 DEF AtOrAfter
  <2> QED BY <2>2, <2>3
<1>6. ckpt.offset = Len(log[ckpt.date])
  <2> DEFINE n == Len(log[ckpt.date])
  <2>1. n \in Nat /\ n <= MaxRecords
    BY <1>0, <1>2 DEF TypeOK, BaseInv, Room
  <2>2. n > 0 => <<ckpt.date, n>> \in Written
    BY <1>2, <2>1, DayFacts DEF Written
  <2>3. n > 0 => n <= ckpt.offset BY <1>5, <2>2
  <2> QED BY <1>2, <2>1, <2>3
<1>7. ckpt' # NoPosition /\ ckpt'.date = ckpt.date + 1 /\ ckpt'.offset = 0
  BY <1>1, <1>4, DayFacts
<1>8. CheckpointInside'
  <2>1. ckpt.date + 1 <= Frontier BY <1>1, <1>2, <1>3
  <2>2. 0 <= Len(log[ckpt.date + 1]) BY <1>0, <1>4 DEF TypeOK
  <2> QED BY <1>1, <1>3, <1>7, <2>1, <2>2 DEF CheckpointInside
<1>9. OnTrack'
  <2>1. Draining BY <1>1 DEF Draining
  <2>2. ckpt.date + 1 <= current BY <1>1, <1>2
  <2> QED BY <1>0, <1>1, <1>7, <2>1, <2>2 DEF OnTrack
<1>10. ASSUME NEW r \in Written
       PROVE  /\ AtOrAfter(r, ckpt') => AtOrAfter(r, ckpt)
              /\ AtOrAfter(r, ckpt) /\ ~AtOrAfter(r, ckpt') => FALSE
  <2>1. r[1] \in Nat /\ r[2] \in Nat /\ r[2] > 0
    BY WrittenFacts
  <2>2. r[1] = ckpt.date => r[2] <= ckpt.offset BY <1>5
  <2> QED BY <1>2, <1>7, <2>1, <2>2 DEF AtOrAfter
<1>11. SmoothInv' BY <1>0, <1>1, <1>2, <1>8, <1>9, <1>10, AdvanceSmooth
<1> QED BY <1>1, <1>4, <1>6, <1>11

LEMMA StopSmooth ==
    ASSUME SmoothInv, StopSignal \/ Crash
    PROVE  SmoothInv'
<1>0. BaseInv' /\ TypeOK /\ OnTrack BY StopBase DEF SmoothInv, BaseInv
<1>1. CASE StopSignal
  <2>1. /\ UNCHANGED <<worldVars, ckpt, rows, pc, current, source, handle, expected, origin>>
        /\ UNCHANGED <<log, today, live, archive>>
        /\ ~Unread
    BY <1>1 DEF StopSignal, SmoothInv, Smooth, worldVars
  <2>2. Written' = Written BY <2>1 DEF Written
  <2>3. live # NoDay /\ current # NoDay /\ ~(live < current) => live >= current
    BY <1>0, DayFacts DEF TypeOK
  <2>4. StopFindsNothing'
    BY <2>1, <2>2, <2>3 DEF StopFindsNothing, Unread, AtOrAfter
  <2>5. OnTrack'
    <3>1. Draining' <=> Draining BY <2>1 DEF Draining
    <3>2. Here' = Here /\ (NeedsRow(Here)' <=> NeedsRow(Here)) /\ Frontier' = Frontier
      BY <2>1 DEF Here, NeedsRow, Frontier
    <3> QED BY <1>0, <2>1, <3>1, <3>2 DEF OnTrack
  <2> QED BY <1>0, <2>1, <2>4, <2>5, LoopSmooth
<1>2. CASE Crash BY <1>0, <1>2, LeaveStreamSmooth DEF Crash
<1> QED BY <1>1, <1>2

LEMMA SmoothStep == SmoothInv /\ [Next]_vars => SmoothInv'
<1> SUFFICES ASSUME SmoothInv, [Next]_vars PROVE SmoothInv' OBVIOUS
<1>0. BaseInv' BY BaseStep DEF SmoothInv
<1>1. CASE UNCHANGED vars
  <2>1. UNCHANGED <<worldVars, ckpt, rows, pc, current, source, handle, expected, stopping,
                    origin, log, today, live, archive>>
    BY <1>1 DEF vars, loopVars, worldVars
  <2>2. StopFindsNothing' /\ OnTrack'
    BY <2>1 DEF SmoothInv, StopFindsNothing, OnTrack, Draining, Written, AtOrAfter, Here,
                NeedsRow, Frontier
  <2> QED BY <1>0, <2>1, <2>2, LoopSmooth
<1>2. CASE Restart BY <1>0, <1>2, LeaveStreamSmooth DEF Restart
<1>3. CASE IncompleteArchive \/ FinishLive
  BY <1>0, <1>3, LeaveStreamSmooth DEF IncompleteArchive, FinishLive
<1>4. CASE Ingest
  BY <1>2, <1>3, <1>4, FirstStartSmooth, PollSmooth, RecordSmooth, SaveSmooth, EndSmooth
     DEF Ingest
<1> QED BY <1>1, <1>4, StopSmooth, WorldSmooth DEF Next

\* As long as no stop signal comes while archives hold unread records and no day
\* changes inside a drain, the days before the checkpoint are complete and dealt
\* with, and the open file is the one of the checkpointed day.
THEOREM SmoothHolds == Smooth /\ Spec => []SmoothInv
  BY SmoothInit, SmoothStep, PTL DEF Spec

\* No alert gap, through rotations, compression, retries and crashes, as long as
\* no stop signal comes while archives hold unread records and the day does not
\* change inside a drain or before the first checkpoint.
THEOREM NoAlertGap == Smooth /\ Spec => []NoGap
  BY SmoothHolds, PTL DEF SmoothInv

-----------------------------------------------------------------------------
(* The stream of records that the files and their names implement.         *)

\* The abstract cursor of a checkpoint.
Cursor == [file |-> ckpt.date, pos |-> ckpt.offset]

LEMMA CursorFacts ==
    ASSUME SmoothInv
    PROVE  /\ ckpt = NoPosition => Cursor = Stream!Nowhere
           /\ ckpt # NoPosition => Cursor # Stream!Nowhere /\ ckpt.date \in Days
<1>1. ckpt = NoPosition => Cursor = Stream!Nowhere
  BY DEF Cursor, NoPosition, Stream!Nowhere
<1>2. ckpt # NoPosition => ckpt.date \in Days
  BY DEF SmoothInv, BaseInv, Loop
<1>3. ckpt.date \in Days => Cursor # Stream!Nowhere
  <2>1. Cursor.file = ckpt.date /\ Stream!Nowhere.file = NoDay
    BY DEF Cursor, Stream!Nowhere
  <2> QED BY <2>1, DayFacts
<1> QED BY <1>1, <1>2, <1>3

LEMMA StreamStutters ==
    ASSUME UNCHANGED <<log, ckpt, rows>>
    PROVE  UNCHANGED <<log, Cursor, Handled>>
  BY DEF Cursor, Handled, Written

LEMMA StreamWorld ==
    ASSUME SmoothInv, World
    PROVE  Stream!Next \/ UNCHANGED <<log, Cursor, Handled>>
<1>1. UNCHANGED <<ckpt, rows>> BY DEF World, loopVars
<1>2. CASE UNCHANGED log BY <1>1, <1>2, StreamStutters
<1>3. ASSUME NEW k \in Kinds, FinishLine(k)
      PROVE  Stream!Arrive
  <2>1. /\ live \in Days /\ log' = [log EXCEPT ![live] = Append(@, k)]
    BY <1>3, FinishLineEffect DEF FinishLine, SmoothInv, BaseInv
  <2>2. Written \subseteq Written' BY <1>3, FinishLineEffect DEF LogKept, SmoothInv, BaseInv
  <2>3. \A r \in Written' : r \in Written \/ rows[r] = 0
    BY WorldBase DEF SmoothInv
  <2>4. Handled' = Handled BY <1>1, <2>2, <2>3 DEF Handled
  <2>5. Cursor' = Cursor BY <1>1 DEF Cursor
  <2>6. Cursor # Stream!Nowhere => live >= Cursor.file
    <3> SUFFICES ASSUME ckpt # NoPosition PROVE live >= ckpt.date
      BY CursorFacts DEF Cursor
    <3>1. ckpt.date <= live
      BY <2>1, DayFacts DEF SmoothInv, CheckpointInside, Frontier
    <3> QED BY <2>1, <3>1, CursorFacts, DayFacts
  <2> QED BY <2>1, <2>4, <2>5, <2>6 DEF Stream!Arrive, Days, Cursor
<1>4. World => UNCHANGED log \/ \E k \in Kinds : FinishLine(k)
  BY DEF World, Write, Rotate, StartLine, Midnight, MoveToArchive, CreateLive, Compress,
         Expire
<1> QED BY <1>2, <1>3, <1>4 DEF Stream!Next

LEMMA StreamHandles ==
    ASSUME SmoothInv, PersistAlert \/ QuarantineLine
    PROVE  Stream!Handle
<1>1. HasRecord /\ MakeDurable /\ Kind \in {"alert", "bad"}
  BY DEF PersistAlert, QuarantineLine
<1>2. /\ rows' = [rows EXCEPT ![Here] = rows[Here] + 1] /\ rows \in [Records -> Nat]
      /\ UNCHANGED <<ckpt, log>> /\ pc = "read" /\ handle = ckpt.date
  BY <1>1 DEF MakeDurable, HasRecord, SmoothInv, BaseInv, TypeOK, OnTrack, worldVars
<1>3. /\ Here \in Written /\ Here \in Records /\ Here = <<ckpt.date, ckpt.offset + 1>>
      /\ ckpt.offset + 1 <= Len(log[ckpt.date])
      /\ log[ckpt.date][ckpt.offset + 1] \in {"alert", "bad"}
  BY <1>1, <1>2, HereWritten DEF HasRecord, SmoothInv, Here, Kind
<1>4. ckpt # NoPosition /\ ckpt.date \in Days BY <1>2, RunningCheckpoint
<1>5. Handled' = Handled \cup {Here}
  <2>1. Written' = Written BY <1>2 DEF Written
  <2>2. rows[Here] \in Nat /\ rows'[Here] = rows[Here] + 1 BY <1>2, <1>3
  <2>3. \A r \in Written : r # Here => rows'[r] = rows[r]
    BY <1>2 DEF Written, Records
  <2> QED BY <1>3, <2>1, <2>2, <2>3 DEF Handled
<1>6. Cursor' = Cursor /\ Cursor # Stream!Nowhere BY <1>2, <1>4, CursorFacts DEF Cursor
<1> QED BY <1>2, <1>3, <1>4, <1>5, <1>6 DEF Stream!Handle, Stream!NeedsRow, Cursor, Days

LEMMA StreamAdopts ==
    ASSUME SmoothInv, InitializePosition, live # NoDay
    PROVE  Stream!Adopt
<1>1. /\ pc = "first" /\ UNCHANGED <<worldVars, rows, log>>
      /\ ckpt' = [date |-> mtime[live], offset |-> FirstOffset, inode |-> expected]
  BY DEF InitializePosition, worldVars
<1>2. ckpt = NoPosition BY <1>1 DEF SmoothInv, OnTrack
<1>3. live \in Days /\ mtime[live] = live
  BY <1>2 DEF SmoothInv, CheckpointInside, BaseInv, TypeOK
<1>4. Cursor = Stream!Nowhere BY <1>2, CursorFacts
<1>5. Cursor' = [file |-> live, pos |-> FirstOffset] BY <1>1, <1>3 DEF Cursor
<1>6. FirstOffset \in {0, Len(log[live])} BY DEF FirstOffset
<1>7. Handled' = Handled BY <1>1 DEF Handled, Written
<1> QED BY <1>1, <1>3, <1>4, <1>5, <1>6, <1>7 DEF Stream!Adopt, Cursor, Days

LEMMA StreamAdvances ==
    ASSUME SmoothInv, SaveOffset
    PROVE  Stream!Advance
<1>1. /\ ckpt' = [ckpt EXCEPT !.offset = @ + 1, !.inode = ckpt'.inode]
      /\ Here \in Written /\ Here = <<ckpt.date, ckpt.offset + 1>>
      /\ NeedsRow(Here) => rows[Here] > 0
  BY SaveSmooth
<1>2. pc = "save" /\ UNCHANGED <<log, rows>> BY DEF SaveOffset, worldVars
<1>3. ckpt # NoPosition /\ ckpt \in Position /\ ckpt.offset \in Nat
  BY <1>2, RunningCheckpoint
<1>4. Cursor # Stream!Nowhere /\ Cursor' = [Cursor EXCEPT !.pos = @ + 1]
  <2>1. ckpt'.date = ckpt.date /\ ckpt'.offset = ckpt.offset + 1
    BY <1>1, <1>3 DEF Position
  <2>2. Cursor' = [file |-> ckpt.date, pos |-> ckpt.offset + 1]
    BY <2>1 DEF Cursor
  <2>3. Cursor # Stream!Nowhere BY <1>3, CursorFacts
  <2> QED BY <2>2, <2>3 DEF Cursor
<1>5. ckpt.offset < Len(log[ckpt.date])
  <2>1. Len(log[handle]) \in Nat /\ ckpt.offset + 1 <= Len(log[handle])
        /\ handle = ckpt.date
    BY <1>1, <1>2, HereWritten DEF SmoothInv, OnTrack
  <2> QED BY <1>3, <2>1
<1>6. log[ckpt.date][ckpt.offset + 1] # "low" => Here \in Handled
  BY <1>1 DEF NeedsRow, Handled
<1>7. Handled' = Handled BY <1>2 DEF Handled, Written
<1> QED BY <1>1, <1>2, <1>4, <1>5, <1>6, <1>7 DEF Stream!Advance, Stream!NeedsRow, Cursor

LEMMA StreamFollows ==
    ASSUME SmoothInv, FinishArchive \/ StopInArchive
    PROVE  Stream!Follow
<1>1. /\ ckpt' = [date |-> ckpt.date + 1, offset |-> 0, inode |-> NoDay]
      /\ ckpt.date + 1 \in Days /\ ckpt.offset = Len(log[ckpt.date])
  BY EndSmooth
<1>2. pc = "read" /\ UNCHANGED <<log, rows>>
  BY DEF FinishArchive, StopInArchive, worldVars
<1>3. Cursor # Stream!Nowhere /\ ckpt.date \in Nat
  BY <1>2, RunningCheckpoint, CursorFacts
<1>4. ckpt.date < MaxDays BY <1>1, <1>3, DayFacts DEF Days
<1>5. Handled' = Handled BY <1>2 DEF Handled, Written
<1>6. Cursor' = [file |-> ckpt.date + 1, pos |-> 0] BY <1>1 DEF Cursor
<1> QED BY <1>1, <1>2, <1>3, <1>4, <1>5, <1>6 DEF Stream!Follow, Cursor

LEMMA StreamStep ==
    ASSUME SmoothInv, [Next]_vars
    PROVE  [Stream!Next]_<<log, Cursor, Handled>>
<1>1. CASE UNCHANGED vars
  BY <1>1, StreamStutters DEF vars, worldVars
<1>2. CASE StopSignal \/ Crash
  BY <1>2, StreamStutters DEF StopSignal, Crash, worldVars
<1>3. CASE World BY <1>3, StreamWorld
<1>4. CASE PersistAlert \/ QuarantineLine
  BY <1>4, StreamHandles DEF Stream!Next
<1>5. CASE InitializePosition /\ live # NoDay
  BY <1>5, StreamAdopts DEF Stream!Next
<1>6. CASE SaveOffset BY <1>6, StreamAdvances DEF Stream!Next
<1>7. CASE FinishArchive \/ StopInArchive BY <1>7, StreamFollows DEF Stream!Next
<1>8. CASE InitializePosition /\ live = NoDay
  BY <1>8, StreamStutters DEF InitializePosition, worldVars
<1>9. CASE Restart \/ FirstStart \/ LeaveLoop \/ Poll \/ MissingArchive \/ OpenArchive
  BY <1>9, StreamStutters
     DEF Restart, FirstStart, LeaveLoop, Poll, MissingArchive, OpenArchive, worldVars
<1>10. CASE StatLive \/ OpenLive \/ SkipRecord \/ RetryRecord \/ IncompleteArchive \/ FinishLive
  BY <1>10, StreamStutters
     DEF StatLive, OpenLive, SkipRecord, RetryRecord, IncompleteArchive, FinishLive, worldVars
<1> QED BY <1>1, <1>2, <1>3, <1>4, <1>5, <1>6, <1>7, <1>8, <1>9, <1>10 DEF Next, Ingest

LEMMA StreamInit == Init => Stream!Init
<1> SUFFICES ASSUME Init PROVE Stream!Init OBVIOUS
<1>1. log = [d \in 1..MaxDays |-> <<>>] BY DEF Init, WorldInit, Days
<1>2. ckpt.date = NoDay /\ ckpt.offset = 0 BY DEF Init, NoPosition
<1>3. Handled = {}
  <2>1. \A r \in Records : rows[r] = 0 BY DEF Init
  <2> QED BY <2>1 DEF Handled, Written, Records
<1> QED BY <1>1, <1>2, <1>3 DEF Stream!Init, Stream!Nowhere

\* The files, their names, archives and checkpoints implement one stream of
\* records that is dealt with in order and left nowhere before its end.
THEOREM StreamImplemented == Smooth /\ Spec => StreamInOrder
<1>1. SmoothInv /\ [Next]_vars =>
        [Stream!Next]_<<log, [file |-> ckpt.date, pos |-> ckpt.offset], Handled>>
  BY StreamStep DEF Cursor
<1> QED BY <1>1, StreamInit, SmoothHolds, PTL DEF Spec, StreamInOrder, Stream!Spec
=============================================================================
