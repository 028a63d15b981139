--------------------------- MODULE ConfigConsumers ---------------------------
(***************************************************************************)
(* The ingest processes as consumers of the operator configuration:        *)
(* start_configuration_owner and ConfigurationBundleOwner of each consumer *)
(* beside the lifecycle of ConfigLifecycle.                                *)
(*                                                                         *)
(* A consumer is sequential; other processes commit between its            *)
(* transactions.  It looks at the configuration only when a record         *)
(* arrives.  A fault is a failed read, validation or commit, a crash or an *)
(* SPC error; their number is bounded.                                     *)
(***************************************************************************)
EXTENDS ConfigLifecycle

CONSTANTS
    Consumers,  \* RUNTIME_CONSUMERS
    Observers,  \* the consumers that run SPC after each triage row
    MaxFaults   \* bound on the faults

ASSUME ConsumersAssumption ==
    /\ Observers \subseteq Consumers
    /\ MaxFaults \in Nat

\* The steps of a consumer: start, maybe_reload, then the record itself.
\* In "started" and "published" the status row of a bundle is committed and the
\* bundle itself is not yet in memory.
Steps == {"down", "synced", "starting", "started", "idle", "compare", "report",
          "adopt", "published", "classify", "insert"}

\* An in-memory bundle: the revisions it is labelled with, and the documents
\* its policy and inventory objects were built from.
Bundle == [gen : Nat, named : [Kinds -> Docs \cup {NoDoc}],
           content : [Kinds -> Docs \cup {NoDoc}], adopted : BOOLEAN]

\* A row of operator_config_consumers.
Status == [loaded : Nat, desired : Nat, state : {"none", "ok", "error"}]

VARIABLES
    step,
    mounted,      \* the mount snapshot that legacy_* hold, NoPair when None
    bundle,       \* _bundle
    replacement,  \* a bundle read and not yet published
    desired,      \* desired_generation of this check
    complained,   \* _last_audited_failure_generation, 0 for None
    status,       \* operator_config_consumers
    audited,      \* generations with a runtime_reload_failed audit row
    open,         \* consumers whose connection is inside a transaction
    verdict,      \* the pair that classified the record in hand
    faults

ownerVars == <<mounted, bundle, complained>>
tableVars == <<status, audited>>
memoryVars == <<step, ownerVars, replacement, desired, open, verdict>>
consumerVars == <<memoryVars, tableVars, faults>>

NoBundle == [gen |-> 0, named |-> NoPair, content |-> NoPair, adopted |-> FALSE]

ConsumersInit ==
    /\ Init
    /\ step = [c \in Consumers |-> "down"]
    /\ mounted = [c \in Consumers |-> NoPair]
    /\ bundle = [c \in Consumers |-> NoBundle]
    /\ replacement = [c \in Consumers |-> NoBundle]
    /\ desired = [c \in Consumers |-> 0]
    /\ complained = [c \in Consumers |-> 0]
    /\ status = [c \in Consumers |-> [loaded |-> 0, desired |-> 0, state |-> "none"]]
    /\ audited = [c \in Consumers |-> {}]
    /\ open = {}
    /\ verdict = [c \in Consumers |-> NoPair]
    /\ faults = 0

Go(c, to) == step' = [step EXCEPT ![c] = to]

Fault ==
    /\ faults < MaxFaults
    /\ faults' = faults + 1

-----------------------------------------------------------------------------
(* Reading and publishing a bundle.                                        *)

\* Mutant: only the policy of the mount snapshot is compared.
AdoptsComparingPolicy(c) ==
    /\ mode = "legacy"
    /\ mounted[c]["prefilter_policy"] # active["prefilter_policy"]

\* _legacy_snapshot_mismatch: a peer mirrored other mounts since.
AdoptsDurable(c) == mode = "legacy" /\ mounted[c] # active

\* load_configuration_bundle: one read transaction.
BundleNow(c) ==
    [gen |-> generation, named |-> active,
     content |-> IF mode = "legacy" /\ ~AdoptsDurable(c) THEN mounted[c] ELSE active,
     adopted |-> AdoptsDurable(c)]

\* The status row of the generation about to be published.
RecordLoaded(c) ==
    status' = [status EXCEPT ![c] = [loaded |-> replacement[c].gen,
                                     desired |-> replacement[c].gen, state |-> "ok"]]

-----------------------------------------------------------------------------
(* Start.                                                                  *)

\* start_configuration_owner mirrors the mounts under the write lock and keeps
\* what it read; under database authority it reads no file.
SyncMounts(c) ==
    /\ step[c] = "down"
    /\ \/ \E p \in Packaged, m \in Mounts :
            /\ Bootstrap(p, m) \/ SyncLegacy(p, m)
            /\ mounted' = [mounted EXCEPT ![c] = m]
       \/ /\ mode = "database"
          /\ mounted' = [mounted EXCEPT ![c] = NoPair]
          /\ UNCHANGED vars
    /\ Go(c, "synced")
    /\ UNCHANGED <<bundle, complained, replacement, desired, open, verdict, tableVars, faults>>

LoadAtStart(c) ==
    /\ step[c] = "synced"
    /\ replacement' = [replacement EXCEPT ![c] = BundleNow(c)]
    /\ Go(c, "starting")
    /\ UNCHANGED <<vars, ownerVars, desired, open, verdict, tableVars, faults>>

Start(c) ==
    /\ step[c] = "starting"
    /\ RecordLoaded(c)
    /\ Go(c, "started")
    /\ UNCHANGED <<vars, ownerVars, replacement, desired, open, verdict, audited, faults>>

\* _adopt, after the commit of Start or of a reload: the bundle in memory.
Adopt(c) ==
    /\ \/ step[c] = "started" /\ Go(c, "idle")
       \/ step[c] = "published" /\ Go(c, "classify")
    /\ bundle' = [bundle EXCEPT ![c] = replacement[c]]
    /\ mounted' = IF replacement[c].adopted
                  THEN [mounted EXCEPT ![c] = replacement[c].content] ELSE mounted
    /\ complained' = [complained EXCEPT ![c] = 0]
    /\ replacement' = [replacement EXCEPT ![c] = NoBundle]
    /\ UNCHANGED <<vars, desired, open, verdict, tableVars, faults>>

\* Any process may die at any point, and a failed start ends the process.  Its
\* open transaction is rolled back.
Crash(c) ==
    /\ step[c] # "down"
    /\ Fault
    /\ Go(c, "down")
    /\ mounted' = [mounted EXCEPT ![c] = NoPair]
    /\ bundle' = [bundle EXCEPT ![c] = NoBundle]
    /\ replacement' = [replacement EXCEPT ![c] = NoBundle]
    /\ complained' = [complained EXCEPT ![c] = 0]
    /\ desired' = [desired EXCEPT ![c] = 0]
    /\ open' = open \ {c}
    /\ verdict' = [verdict EXCEPT ![c] = NoPair]
    /\ UNCHANGED <<vars, tableVars>>

-----------------------------------------------------------------------------
(* maybe_reload, before each record.                                       *)

\* The next check is not due yet.
SkipCheck(c) ==
    /\ step[c] = "idle"
    /\ Go(c, "classify")
    /\ UNCHANGED <<vars, ownerVars, replacement, desired, open, verdict, tableVars, faults>>

\* Mutant: the generation after the one in force.
ReadNextGeneration(c) ==
    /\ step[c] = "idle"
    /\ desired' = [desired EXCEPT ![c] = generation + 1]
    /\ Go(c, "compare")
    /\ UNCHANGED <<vars, ownerVars, replacement, open, verdict, tableVars, faults>>

\* The check is due: the generation is read, or cannot be.
ReadGeneration(c) ==
    /\ step[c] = "idle"
    /\ \/ /\ desired' = [desired EXCEPT ![c] = generation]
          /\ Go(c, "compare")
          /\ UNCHANGED faults
       \/ /\ desired' = [desired EXCEPT ![c] = bundle[c].gen]
          /\ Go(c, "report")
          /\ Fault
    /\ UNCHANGED <<vars, ownerVars, replacement, open, verdict, tableVars>>

ReportUnchanged(c) ==
    /\ step[c] = "compare"
    /\ desired[c] = bundle[c].gen
    /\ \/ /\ status' = [status EXCEPT ![c] = [loaded |-> bundle[c].gen,
                                             desired |-> desired[c], state |-> "ok"]]
          /\ UNCHANGED faults
       \/ Fault /\ UNCHANGED status
    /\ open' = open \ {c}
    /\ Go(c, "classify")
    /\ UNCHANGED <<vars, ownerVars, replacement, desired, verdict, audited>>

\* Mutant: a generation that failed once is not tried again.
LoadUnlessComplained(c) ==
    /\ step[c] = "compare"
    /\ desired[c] # bundle[c].gen
    /\ \/ /\ c \notin open /\ complained[c] # desired[c]
          /\ replacement' = [replacement EXCEPT ![c] = BundleNow(c)]
          /\ Go(c, "adopt")
          /\ UNCHANGED faults
       \/ /\ complained[c] = desired[c]
          /\ Go(c, "report")
          /\ UNCHANGED <<replacement, faults>>
       \/ /\ \/ c \in open /\ UNCHANGED faults
             \/ c \notin open /\ Fault
          /\ Go(c, "report")
          /\ UNCHANGED replacement
    /\ UNCHANGED <<vars, ownerVars, desired, open, verdict, tableVars>>

\* A bundle is read between transactions only; a document may be invalid.
LoadReplacement(c) ==
    /\ step[c] = "compare"
    /\ desired[c] # bundle[c].gen
    /\ \/ /\ c \notin open
          /\ replacement' = [replacement EXCEPT ![c] = BundleNow(c)]
          /\ Go(c, "adopt")
          /\ UNCHANGED faults
       \/ /\ \/ c \in open /\ UNCHANGED faults
             \/ c \notin open /\ Fault
          /\ Go(c, "report")
          /\ UNCHANGED replacement
    /\ UNCHANGED <<vars, ownerVars, desired, open, verdict, tableVars>>

\* The failure is reported, and audited unless this generation was complained
\* of last; the bundle in memory stays.
ReportFailure(c) ==
    /\ step[c] = "report"
    /\ \/ /\ status' = [status EXCEPT ![c] = [loaded |-> bundle[c].gen,
                                              desired |-> desired[c], state |-> "error"]]
          /\ audited' = IF complained[c] # desired[c]
                        THEN [audited EXCEPT ![c] = @ \cup {desired[c]}] ELSE audited
          /\ UNCHANGED faults
       \/ Fault /\ UNCHANGED tableVars
    /\ complained' = [complained EXCEPT ![c] = desired[c]]
    /\ open' = open \ {c}
    /\ Go(c, "classify")
    /\ UNCHANGED <<vars, mounted, bundle, replacement, desired, verdict>>

\* Mutant: the replacement is adopted although its status row was rolled back.
CommitReloadIgnored(c) ==
    /\ step[c] = "adopt"
    /\ \/ RecordLoaded(c) /\ UNCHANGED faults
       \/ Fault /\ UNCHANGED status
    /\ Go(c, "published")
    /\ UNCHANGED <<vars, ownerVars, replacement, desired, open, verdict, audited>>

\* The status row is committed, or the replacement is given up.
CommitReload(c) ==
    /\ step[c] = "adopt"
    /\ \/ /\ RecordLoaded(c)
          /\ Go(c, "published")
          /\ UNCHANGED <<replacement, faults>>
       \/ /\ Fault
          /\ Go(c, "classify")
          /\ replacement' = [replacement EXCEPT ![c] = NoBundle]
          /\ UNCHANGED status
    /\ UNCHANGED <<vars, ownerVars, desired, open, verdict, audited>>

-----------------------------------------------------------------------------
(* The record.                                                             *)

\* Mutant: the classifier reads the configuration for itself.
ClassifyWithDurable(c) ==
    /\ step[c] = "classify"
    /\ verdict' = [verdict EXCEPT ![c] = active]
    /\ Go(c, "insert")
    /\ UNCHANGED <<vars, ownerVars, replacement, desired, open, tableVars, faults>>

\* Prefilter, asset context and model; or a record that is no new alert, after
\* which a quarantine has ended the open transaction and a skip has not.
Classify(c) ==
    /\ step[c] = "classify"
    /\ \/ /\ verdict' = [verdict EXCEPT ![c] = bundle[c].content]
          /\ Go(c, "insert")
          /\ UNCHANGED open
       \/ /\ Go(c, "idle")
          /\ open' \in {open, open \ {c}}
          /\ UNCHANGED verdict
    /\ UNCHANGED <<vars, ownerVars, replacement, desired, tableVars, faults>>

\* The triage row, which names the revisions and the generation of the bundle, is
\* committed or rolled back; an SPC error after it leaves a transaction open.
Insert(c) ==
    /\ step[c] = "insert"
    /\ verdict' = [verdict EXCEPT ![c] = NoPair]
    /\ \/ open' = open \ {c} /\ UNCHANGED faults
       \/ c \in Observers /\ Fault /\ open' = open \cup {c}
    /\ Go(c, "idle")
    /\ UNCHANGED <<vars, ownerVars, replacement, desired, tableVars>>

-----------------------------------------------------------------------------
Check(c) ==
    \/ ReadGeneration(c)
    \/ ReportUnchanged(c)
    \/ LoadReplacement(c)
    \/ ReportFailure(c)
    \/ CommitReload(c)

Consume(c) ==
    \/ SyncMounts(c)
    \/ LoadAtStart(c)
    \/ Start(c)
    \/ Adopt(c)
    \/ SkipCheck(c)
    \/ Check(c)
    \/ Classify(c)
    \/ Insert(c)
    \/ Crash(c)

Operate == Next /\ UNCHANGED consumerVars

ConsumersNext == Operate \/ \E c \in Consumers : Consume(c)

allVars == <<vars, consumerVars>>

ConsumersSpec == ConsumersInit /\ [][ConsumersNext]_allVars

\* Records keep arriving and a process that died is restarted; a check comes due
\* again and again, however long the backoff has become.
ConsumersFairness ==
    \A c \in Consumers :
        /\ WF_allVars(SyncMounts(c) \/ LoadAtStart(c) \/ Start(c) \/ Adopt(c))
        /\ WF_allVars(Check(c) \/ Classify(c) \/ Insert(c))
        /\ SF_allVars(ReadGeneration(c))

FairConsumersSpec == ConsumersSpec /\ ConsumersFairness

-----------------------------------------------------------------------------
(* Properties.                                                             *)

\* The variables of the consumers have their declared shape.
ConsumersTypeOK ==
    /\ step \in [Consumers -> Steps]
    /\ mounted \in [Consumers -> [Kinds -> Docs \cup {NoDoc}]]
    /\ bundle \in [Consumers -> Bundle]
    /\ replacement \in [Consumers -> Bundle]
    /\ desired \in [Consumers -> 0..MaxGeneration]
    /\ complained \in [Consumers -> Nat]
    /\ status \in [Consumers -> Status]
    /\ audited \in [Consumers -> SUBSET (0..MaxGeneration)]
    /\ open \subseteq Observers
    /\ verdict \in [Consumers -> [Kinds -> Docs \cup {NoDoc}]]
    /\ faults \in 0..MaxFaults

Committed(b) ==
    /\ b.gen \in 1..generation
    /\ b.named = bundles[b.gen]
    /\ b.content = bundles[b.gen]

\* What a consumer classifies with is exactly one committed generation: both
\* documents of it, labelled as such, although peers mirror mounts and operators
\* activate between its mount read, its load and its publication.
BundleTruthful ==
    \A c \in Consumers :
        /\ bundle[c] # NoBundle => Committed(bundle[c])
        /\ replacement[c] # NoBundle => Committed(replacement[c])

Running(c) == step[c] \notin {"down", "synced", "starting", "started"}

Publishing(c) == step[c] \in {"started", "published"}

\* The bundle a consumer runs with, or is committed to adopt before it does
\* anything else.
InForce(c) == IF Publishing(c) THEN replacement[c] ELSE bundle[c]

\* The health row of a live consumer reports the generation in its memory, or
\* the one its next step adopts: no failed commit lets it classify with a bundle
\* the row does not report.  The row never runs ahead of the database and is
\* "ok" only for the generation the consumer wanted.
StatusTruthful ==
    \A c \in Consumers :
        /\ Running(c) \/ Publishing(c) => status[c].loaded = InForce(c).gen
        /\ status[c].loaded <= status[c].desired
        /\ status[c].desired <= generation
        /\ status[c].state = "ok" => status[c].desired = status[c].loaded

\* The revisions recorded in a triage row are those that made its verdict, even
\* when the configuration changed during the model call.
VerdictProvenance ==
    [][\A c \in Consumers : Insert(c) => verdict[c] = bundles[bundle[c].gen]]_allVars

\* A consumer that sees records comes to the generation in force, again and again.
EventuallyCurrent == \A c \in Consumers : []<>(bundle[c].gen = generation)
=============================================================================
