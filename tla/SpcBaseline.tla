----------------------------- MODULE SpcBaseline -----------------------------
(***************************************************************************)
(* The behavioral baselines: spc.observe, the second transaction of        *)
(* ingest.process_line that calls it after the triage row, the backfill    *)
(* script that replays stored rows through it, and the migration that      *)
(* creates its tables.                                                     *)
(*                                                                         *)
(* One internal address: every statement of spc.py names the address.      *)
(* Timestamps are hours, as the buckets are; the three-sigma comparison is *)
(* squared, so that it needs no roots.                                     *)
(***************************************************************************)
EXTENDS DatabaseStart, FiniteSetsExt

CONSTANTS
    Sids,         \* signature ids
    MaxHour,      \* bound on the hours
    MaxRows,      \* bound on the rows of triage_events
    MinAge,       \* MIN_AGE_HOURS
    MinSamples,   \* MIN_SAMPLES
    Sigmas,       \* SIGMA_THRESHOLD
    Window,       \* --rows of the backfill
    CommitEvery,  \* --commit-every
    MaxBackfills, \* bound on the runs of the backfill
    MaxFaults,    \* bound on failed observations and crashes
    NoData

ASSUME SpcAssumption ==
    /\ {MaxHour, MaxRows, MinAge, MinSamples, Sigmas, MaxBackfills, MaxFaults} \subseteq Nat
    /\ {Window, CommitEvery} \subseteq Nat \ {0}

Hours == 1..MaxHour
AlertRow == [hour : Hours, sid : Sids]

VARIABLES
    rows,      \* triage_events of the address, by id
    spc,       \* the four tables, as committed
    pending,   \* what the open transaction of ingest makes of them, or NoData
    bf,        \* the backfill
    seen,      \* rows whose whole observation is committed
    release,   \* whether the running ingest is one from before the baselines
    backfills,
    faults

spcVars == <<rows, spc, pending, bf, seen, release, backfills, faults>>
vars == <<startVars, spcVars>>

\* first: first_seen of the address, 0 without a row; count: spc_rate_buckets;
\* novel and rate: how many anomalies of each feature.
Empty == [first |-> 0, active |-> FALSE, sids |-> {}, count |-> [h \in Hours |-> 0],
          novel |-> [s \in Sids |-> 0], rate |-> [h \in Hours |-> 0]]

Baseline == [first : 0..MaxHour, active : BOOLEAN, sids : SUBSET Sids,
             count : [Hours -> Nat], novel : [Sids -> Nat], rate : [Hours -> Nat]]

ASSUME NoDataAssumption == NoData \notin Baseline

NoBackfill == [pc |-> "idle", at |-> 1, from |-> 1, next |-> 1, until |-> 0,
               work |-> NoData, batch |-> {}, stale |-> FALSE]

Init ==
    /\ StartInit
    /\ rows = <<>>
    /\ spc = Empty
    /\ pending = NoData
    /\ bf = NoBackfill
    /\ seen = {}
    /\ release = "old"
    /\ backfills = 0
    /\ faults = 0

-----------------------------------------------------------------------------
(* spc.observe.                                                            *)

\* n is at least Sigmas deviations (never less than one alert each) above the
\* mean of the counts of the hours past.
Spikes(count, past, n) ==
    LET hours == IF past = {} THEN 1 ELSE Cardinality(past)
        sum == MapThenSumSet(LAMBDA h : count[h], past)
        squares == MapThenSumSet(LAMBDA h : count[h] * count[h], past)
        above == hours * n - sum
    IN /\ above >= 0
       /\ above * above >= Sigmas * Sigmas
                             * Max({hours * squares - sum * sum, hours * hours})

FirstSeen(d, r) == IF d.first = 0 THEN r.hour ELSE d.first
Aged(d, r) == r.hour >= FirstSeen(d, r) + MinAge

\* Mutant: only an address with a rate baseline reports new signatures.
IsNovelOnceActive(d, r) == r.sid \notin d.sids /\ d.active

\* Age alone decides, so that a quiet address reports them too.
IsNovel(d, r) == r.sid \notin d.sids /\ Aged(d, r)

\* The tables after each write of observe(r): address, signature, bucket, state,
\* then the anomalies, the new signature before the rate.  Everything is decided
\* on what they held before.
Writes(d, r) ==
    LET past == {h \in Hours \ {r.hour} : d.count[h] > 0}
        active == d.active \/ (Aged(d, r) /\ Cardinality(past) >= MinSamples)
        one == [d EXCEPT !.first = FirstSeen(d, r)]
        two == [one EXCEPT !.sids = @ \cup {r.sid}]
        three == [two EXCEPT !.count[r.hour] = @ + 1]
        four == [three EXCEPT !.active = active]
        isSpike == active /\ d.rate[r.hour] = 0 /\ Spikes(d.count, past, three.count[r.hour])
        five == [four EXCEPT !.novel[r.sid] = IF IsNovel(d, r) THEN @ + 1 ELSE @]
    IN <<one, two, three, four, five,
         [five EXCEPT !.rate[r.hour] = IF isSpike THEN @ + 1 ELSE @]>>

Observed(d, r) == Writes(d, r)[6]

\* What a sequence of alerts makes of empty tables, after each of them and in the end.
Replays(alerts) ==
    LET made[n \in 0..Len(alerts)] ==
            IF n = 0 THEN Empty ELSE Observed(made[n - 1], alerts[n])
    IN made

Replay(alerts) == Replays(alerts)[Len(alerts)]

-----------------------------------------------------------------------------
(* Ingest: the triage row, then the observation.                           *)

\* Alerts come in the order of their timestamps, or one hour late.
NextHours == {h \in Hours : rows = <<>> \/ h + 1 >= rows[Len(rows)].hour}

\* Other commits leave an open cursor of the backfill with an old snapshot.
Overtaken == [bf EXCEPT !.stale = @ \/ bf.pc = "replay"]

\* A release before the baselines stores rows and observes nothing.
OldInsert(r) ==
    /\ release = "old" /\ "triage_events" \in schema
    /\ writer = "none"
    /\ Len(rows) < MaxRows /\ r.hour \in NextHours
    /\ rows' = Append(rows, r)
    /\ bf' = Overtaken
    /\ UNCHANGED <<startVars, spc, pending, seen, release, backfills, faults>>

\* The insert runs in the transaction a failed observation left open, and its
\* commit takes along what that one had written.
Triage(r) ==
    /\ service.pc = "up"
    /\ writer \in {"none", "ingest"}
    /\ Len(rows) < MaxRows /\ r.hour \in NextHours
    /\ rows' = Append(rows, r)
    /\ spc' = IF pending = NoData THEN spc ELSE pending
    /\ pending' = NoData
    /\ writer' = "none"
    /\ service' = [service EXCEPT !.pc = "triaged"]
    /\ UNCHANGED <<original, schema, mig, bf, seen, release, backfills, faults>>

\* Mutant: the lock outlives the rollback.
DiscardPendingKeepingLock ==
    /\ pending # NoData
    /\ pending' = NoData
    /\ UNCHANGED <<startVars, rows, spc, bf, seen, release, backfills, faults>>

\* A failed insert, or the configuration check before the next record, rolls back.
DiscardPending ==
    /\ pending # NoData
    /\ pending' = NoData
    /\ writer' = "none"
    /\ UNCHANGED <<original, schema, mig, service, rows, spc, bf, seen, release,
                   backfills, faults>>

Observe ==
    /\ service.pc = "triaged"
    /\ writer = "none"
    /\ spc' = Observed(spc, rows[Len(rows)])
    /\ seen' = seen \cup {Len(rows)}
    /\ service' = [service EXCEPT !.pc = "up"]
    /\ UNCHANGED <<original, schema, writer, mig, rows, pending, bf, release, backfills,
                   faults>>

\* The error of a write, or of the commit, is logged and the transaction stays
\* open.  With the lock taken not even the first write succeeds.
ObserveFails(written) ==
    /\ service.pc = "triaged"
    /\ faults < MaxFaults
    /\ faults' = faults + 1
    /\ service' = [service EXCEPT !.pc = "up"]
    /\ \/ written = 0 /\ UNCHANGED <<pending, writer>>
       \/ /\ written > 0 /\ writer = "none"
          /\ pending' = Writes(spc, rows[Len(rows)])[written]
          /\ writer' = "ingest"
    /\ UNCHANGED <<original, schema, mig, rows, spc, bf, seen, release, backfills>>

\* The row is committed, so that the alert is a duplicate after the restart.
Crash ==
    /\ Running
    /\ faults < MaxFaults
    /\ faults' = faults + 1
    /\ Stop
    /\ pending' = NoData
    /\ writer' = IF writer = "ingest" THEN "none" ELSE writer
    /\ UNCHANGED <<original, schema, mig, rows, spc, bf, seen, release, backfills>>

-----------------------------------------------------------------------------
(* backfill_spc.py.  Its documentation: run once, before the ingest that   *)
(* observes is started, and again only with --reset.                       *)

StartBackfill(reset) ==
    /\ bf = NoBackfill
    /\ service.pc = "down"
    /\ reset \/ spc = Empty
    /\ backfills < MaxBackfills
    /\ backfills' = backfills + 1
    /\ bf' = [bf EXCEPT !.pc = IF reset THEN "drop" ELSE "create"]
    /\ UNCHANGED <<startVars, rows, spc, pending, seen, release, faults>>

\* Mutants: the anomalies go last; a table is forgotten.
AnomaliesLast == <<"spc_rate_buckets", "spc_seen_sids", "spc_ip_state", "spc_anomalies">>
StateForgotten == <<"spc_anomalies", "spc_rate_buckets", "spc_seen_sids">>

DropOrder == <<"spc_anomalies", "spc_rate_buckets", "spc_seen_sids", "spc_ip_state">>
CreateOrder == <<"spc_ip_state", "spc_rate_buckets", "spc_seen_sids", "spc_anomalies">>

Cleared(d, t) ==
    CASE t = "spc_anomalies" -> [d EXCEPT !.novel = Empty.novel, !.rate = Empty.rate]
      [] t = "spc_rate_buckets" -> [d EXCEPT !.count = Empty.count]
      [] t = "spc_seen_sids" -> [d EXCEPT !.sids = {}]
      [] t = "spc_ip_state" -> [d EXCEPT !.first = 0, !.active = FALSE]

\* DDL outside a transaction commits statement by statement.
DropTable ==
    /\ bf.pc = "drop"
    /\ writer = "none"
    /\ schema' = schema \ {DropOrder[bf.at]}
    /\ spc' = Cleared(spc, DropOrder[bf.at])
    /\ seen' = {}
    /\ bf' = IF bf.at < Len(DropOrder) THEN [bf EXCEPT !.at = @ + 1]
             ELSE [bf EXCEPT !.pc = "create", !.at = 1]
    /\ UNCHANGED <<original, writer, mig, service, rows, pending, release, backfills, faults>>

CreateTable ==
    /\ bf.pc = "create"
    /\ writer = "none"
    /\ schema' = schema \cup {CreateOrder[bf.at]}
    /\ bf' = IF bf.at < Len(CreateOrder) THEN [bf EXCEPT !.at = @ + 1]
             ELSE [bf EXCEPT !.pc = "count"]
    /\ UNCHANGED <<original, writer, mig, service, rows, spc, pending, seen, release,
                   backfills, faults>>

\* MAX(id), from which the first id follows; without rows there is nothing to do.
CountRows ==
    /\ bf.pc = "count"
    /\ "triage_events" \in schema
    /\ bf' = IF rows = <<>> THEN NoBackfill
             ELSE [bf EXCEPT !.pc = "open", !.from = Max({1, Len(rows) - Window + 1})]
    /\ UNCHANGED <<startVars, rows, spc, pending, seen, release, backfills, faults>>

\* The cursor reads one snapshot until it is exhausted.
OpenCursor ==
    /\ bf.pc = "open"
    /\ bf' = [bf EXCEPT !.pc = "replay", !.next = bf.from, !.until = Len(rows)]
    /\ UNCHANGED <<startVars, rows, spc, pending, seen, release, backfills, faults>>

Unread == bf.pc = "replay" /\ bf.next <= bf.until

CommitDue ==
    /\ bf.batch # {}
    /\ bf.next > bf.until \/ (bf.next - bf.from) % CommitEvery = 0

\* The first write of a batch takes the lock.
ReplayRow ==
    /\ Unread /\ ~CommitDue
    /\ bf.batch = {} => writer = "none" /\ ~bf.stale
    /\ bf' = [bf EXCEPT !.next = @ + 1,
                        !.batch = @ \cup {bf.next},
                        !.work = Observed(IF bf.batch = {} THEN spc ELSE bf.work,
                                          rows[bf.next])]
    /\ writer' = "backfill"
    /\ UNCHANGED <<original, schema, mig, service, rows, spc, pending, seen, release,
                   backfills, faults>>

\* A snapshot that others have written past can never take the lock again: the
\* row is skipped, and so is every one after it.
SkipRow ==
    /\ Unread
    /\ bf.batch = {}
    /\ writer # "none" \/ bf.stale
    /\ bf' = [bf EXCEPT !.next = @ + 1]
    /\ UNCHANGED <<startVars, rows, spc, pending, seen, release, backfills, faults>>

CommitBatch ==
    /\ bf.pc = "replay" /\ CommitDue
    /\ spc' = bf.work
    /\ seen' = seen \cup bf.batch
    /\ writer' = "none"
    /\ bf' = [bf EXCEPT !.work = NoData, !.batch = {}]
    /\ UNCHANGED <<original, schema, mig, service, rows, pending, release, backfills, faults>>

FinishBackfill ==
    /\ bf.pc = "replay" /\ bf.next > bf.until /\ bf.batch = {}
    /\ bf' = NoBackfill
    /\ UNCHANGED <<startVars, rows, spc, pending, seen, release, backfills, faults>>

\* Killed, or a statement outside observe met the lock or a missing table.
BackfillDies ==
    /\ bf # NoBackfill
    /\ bf' = NoBackfill
    /\ writer' = IF writer = "backfill" THEN "none" ELSE writer
    /\ UNCHANGED <<original, schema, mig, service, rows, spc, pending, seen, release,
                   backfills, faults>>

-----------------------------------------------------------------------------
\* Feedback (submit_feedback) and its like, Wazuh rows and status rows: a commit that
\* touches none of these tables.
OtherCommit ==
    /\ writer = "none"
    /\ bf' = Overtaken
    /\ bf' # bf
    /\ UNCHANGED <<startVars, rows, spc, pending, seen, release, backfills, faults>>

Migrate ==
    \/ (BeginMigration \/ RunStatement \/ MigrationFails) /\ UNCHANGED spcVars
    \/ /\ CommitMigration
       /\ bf' = IF schema' # schema THEN Overtaken ELSE bf
       /\ UNCHANGED <<rows, spc, pending, seen, release, backfills, faults>>

\* The observing ingest is not started beside a backfill.
Gate ==
    /\ bf = NoBackfill
    /\ ReadTables \/ ReadIndexes \/ ReadColumns
    /\ release' = IF service'.pc = "up" THEN "new" ELSE release
    /\ UNCHANGED <<rows, spc, pending, bf, seen, backfills, faults>>

Backfill ==
    \/ \E reset \in BOOLEAN : StartBackfill(reset)
    \/ DropTable \/ CreateTable
    \/ CountRows \/ OpenCursor
    \/ ReplayRow \/ SkipRow \/ CommitBatch
    \/ FinishBackfill \/ BackfillDies

Ingest ==
    \/ \E r \in AlertRow : OldInsert(r) \/ Triage(r)
    \/ DiscardPending
    \/ Observe \/ (\E written \in 0..6 : ObserveFails(written))
    \/ Crash

Next == Migrate \/ Gate \/ Ingest \/ Backfill \/ OtherCommit

Spec == Init /\ [][Next]_vars

-----------------------------------------------------------------------------
(* Properties.                                                             *)

\* Every variable has its declared shape, and the write lock belongs to whoever
\* has an open transaction.
SpcTypeOK ==
    /\ StartTypeOK
    /\ service.pc \in {"down", "indexes", "columns", "up", "triaged"}
    /\ rows \in Seq(AlertRow)
    /\ spc \in Baseline
    /\ pending \in Baseline \cup {NoData}
    /\ pending # NoData <=> writer = "ingest"
    /\ bf.batch # {} <=> writer = "backfill"
    /\ bf.pc \in {"idle", "drop", "create", "count", "open", "replay"}
    /\ bf.work \in Baseline \cup {NoData}
    /\ bf.until <= Len(rows)
    /\ seen \subseteq 1..Len(rows)
    /\ release \in {"old", "new"}

\* "SPC behaves identically on live and on replayed/backfilled data" (spc.py):
\* when no observation was lost, the tables are what replaying the stored rows
\* in order makes of empty ones, however the rows came to be observed.
BaselineIsHistory == seen = DOMAIN rows => spc = Replay(rows)

RowsIn(h) == {i \in DOMAIN rows : rows[i].hour = h}

\* One spike is one anomaly, a signature is new once and a row is counted at most
\* once in its hour, through retries, interrupted resets and replays.
AlertedOnce ==
    /\ \A s \in Sids : spc.novel[s] <= 1
    /\ \A h \in Hours : spc.rate[h] <= 1 /\ spc.count[h] <= Cardinality(RowsIn(h))

RowsOf(s) == {i \in DOMAIN rows : rows[i].sid = s}

\* A signature none of whose rows was lost has an anomaly exactly when its first
\* row came after the learning age, whatever was lost of the others.
NoveltyExact ==
    \A s \in Sids :
        RowsOf(s) # {} /\ RowsOf(s) \subseteq seen =>
            (spc.novel[s] = 1 <=> rows[Min(RowsOf(s))].hour >= spc.first + MinAge)
=============================================================================
