---------------------------- MODULE WazuhArchives ----------------------------
(***************************************************************************)
(* The world Wazuh ingest reads from: a manager that appends JSON lines to *)
(* alerts.json and, some time after its local midnight, makes that file    *)
(* the archive of its day and begins another.  None of this is code of the *)
(* repository; it is what wazuh_ingest.py expects of it.                   *)
(*                                                                         *)
(* There is one file a day, so that the day names the file, its archive    *)
(* and its inode.                                                          *)
(***************************************************************************)
EXTENDS Naturals, Sequences, FiniteSets

CONSTANTS
    MaxDays,     \* bound on the days
    MaxRecords,  \* bound on the records ever written
    Kinds,       \* kinds of record the manager writes
    Expiry,      \* whether archives may be deleted
    NoDay

Days == 1..MaxDays

\* "alert": at or above the admission level; "bad": malformed or too long;
\* "low": blank or below the level.
AllKinds == {"alert", "bad", "low"}

ASSUME ArchivesAssumption ==
    /\ MaxDays \in Nat \ {0}
    /\ MaxRecords \in Nat
    /\ Kinds \subseteq AllKinds
    /\ Expiry \in BOOLEAN
    /\ NoDay \notin Nat

VARIABLES
    log,      \* the complete records of each day's file, in order
    torn,     \* files that end in a record without its newline
    today,    \* the manager's calendar day
    live,     \* the file under alerts.json, NoDay while it is replaced
    mtime,    \* the day each file was last written to
    archive   \* the archive of each day: "none" yet, "plain", "gz" or "gone"

worldVars == <<log, torn, today, live, mtime, archive>>

Written == {r \in Days \X (1..MaxRecords) : r[2] <= Len(log[r[1]])}

WorldInit ==
    /\ log = [d \in Days |-> <<>>]
    /\ torn = {}
    /\ today = 1
    /\ live = 1
    /\ mtime = [d \in Days |-> d]
    /\ archive = [d \in Days |-> "none"]

-----------------------------------------------------------------------------
\* An append that a reader can see before its newline.  It may come after
\* midnight to the file of the day before.
StartLine ==
    /\ live # NoDay
    /\ live \notin torn
    /\ Cardinality(Written) < MaxRecords
    /\ torn' = torn \cup {live}
    /\ mtime' = [mtime EXCEPT ![live] = today]
    /\ UNCHANGED <<log, today, live, archive>>

FinishLine(k) ==
    /\ live \in torn
    /\ log' = [log EXCEPT ![live] = Append(@, k)]
    /\ torn' = torn \ {live}
    /\ mtime' = [mtime EXCEPT ![live] = today]
    /\ UNCHANGED <<today, live, archive>>

\* No day passes without its file.
Midnight ==
    /\ live = today
    /\ today < MaxDays
    /\ today' = today + 1
    /\ UNCHANGED <<log, torn, live, mtime, archive>>

\* A manager that died in the middle of a line leaves it as it is.
MoveToArchive ==
    /\ live # NoDay
    /\ live < today
    /\ archive' = [archive EXCEPT ![live] = "plain"]
    /\ live' = NoDay
    /\ UNCHANGED <<log, torn, today, mtime>>

CreateLive ==
    /\ live = NoDay
    /\ live' = today
    /\ UNCHANGED <<log, torn, today, mtime, archive>>

Compress(d) ==
    /\ archive[d] = "plain"
    /\ archive' = [archive EXCEPT ![d] = "gz"]
    /\ UNCHANGED <<log, torn, today, live, mtime>>

\* Only archives before the last are deleted.
Expire(d) ==
    /\ Expiry
    /\ archive[d] = "gz"
    /\ d + 1 \in Days /\ archive[d + 1] # "none"
    /\ archive' = [archive EXCEPT ![d] = "gone"]
    /\ UNCHANGED <<log, torn, today, live, mtime>>

Write == StartLine \/ \E k \in Kinds : FinishLine(k)

Rotate ==
    \/ Midnight
    \/ MoveToArchive
    \/ CreateLive
    \/ \E d \in Days : Compress(d) \/ Expire(d)
=============================================================================
