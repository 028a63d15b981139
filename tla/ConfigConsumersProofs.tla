----------------------- MODULE ConfigConsumersProofs -----------------------
(***************************************************************************)
(* Proofs about ConfigConsumers for every set of consumers and documents   *)
(* and every bound on generations and faults.                              *)
(***************************************************************************)
EXTENDS ConfigConsumers, ConfigLifecycleProofs

-----------------------------------------------------------------------------
(* The consumers leave the lifecycle alone but for their synchronization.  *)

LEMMA StepOfLifecycle == [ConsumersNext]_allVars => [Next]_vars
<1> SUFFICES ASSUME [ConsumersNext]_allVars PROVE [Next]_vars
  OBVIOUS
<1>1. CASE Operate \/ UNCHANGED allVars BY <1>1 DEF Operate, allVars
<1>2. ASSUME NEW c \in Consumers, Consume(c) PROVE [Next]_vars
  <2>1. CASE SyncMounts(c) BY <2>1 DEF SyncMounts, Next, Synchronize
  <2> QED BY <1>2, <2>1 DEF Consume, Check, LoadAtStart, Start, SkipCheck, ReadGeneration,
         ReportUnchanged, LoadReplacement, ReportFailure, CommitReload, Adopt, Classify,
         Insert, Crash
<1> QED BY <1>1, <1>2 DEF ConsumersNext

\* The lifecycle beside its consumers is the lifecycle proved correct before:
\* no step of a consumer, whatever fails in it, disturbs the durable state.
THEOREM LifecycleKept == ConsumersSpec => Spec
<1>1. ConsumersInit => Init BY DEF ConsumersInit
<1> QED BY <1>1, StepOfLifecycle, PTL DEF ConsumersSpec, Spec

\* What a consumer relies on when other processes commit between its steps.
LEMMA LifecycleStep ==
    ASSUME IInv, [ConsumersNext]_allVars
    PROVE  /\ generation \in Nat /\ generation' \in Nat
           /\ generation <= generation' /\ generation' \in 0..MaxGeneration
           /\ \A g \in 1..generation : bundles'[g] = bundles[g]
           /\ mode # "none" => mode' # "none"
           /\ mode # "none" => generation >= 1 /\ bundles[generation] = active
           /\ active \in [Kinds -> Docs \cup {NoDoc}]
<1>1. [Next]_vars BY StepOfLifecycle
<1>2. IInv' BY <1>1, Inductive
<1>3. /\ generation \in Nat /\ generation' \in Nat /\ generation' \in 0..MaxGeneration
      /\ active \in [Kinds -> Docs \cup {NoDoc}]
  BY <1>2, InputAssumption DEF IInv, StoreInv, TypeOK
<1>4. /\ mode # "none" => generation >= 1 /\ bundles[generation] = active
      /\ mode' = "none" => generation' = 0
  BY <1>2, <1>3 DEF IInv, StoreInv, BundlesRecorded, NothingYet
<1> QED BY <1>1, <1>3, <1>4, BundlesGrow DEF IInv

-----------------------------------------------------------------------------
(* The invariant, one consumer at a time.                                  *)

\* What a consumer knows at each of its steps: it synchronized before it looks
\* at the configuration, it holds a bundle from the load to the adoption and once
\* it started, the generation it checks against is between its own and the
\* database's.
Phase(c) ==
    /\ step[c] # "down" => mode # "none"
    /\ step[c] \in {"starting", "adopt"} \/ Publishing(c) => replacement[c] # NoBundle
    /\ Running(c) => bundle[c] # NoBundle
    /\ step[c] \in {"compare", "report"} => bundle[c].gen <= desired[c]
    /\ desired[c] <= generation
    /\ step[c] = "insert" => verdict[c] = bundle[c].content

Truthful(c) ==
    /\ bundle[c] # NoBundle => Committed(bundle[c])
    /\ replacement[c] # NoBundle => Committed(replacement[c])

Reported(c) ==
    /\ Running(c) \/ Publishing(c) => status[c].loaded = InForce(c).gen
    /\ status[c].loaded <= status[c].desired
    /\ status[c].desired <= generation
    /\ status[c].state = "ok" => status[c].desired = status[c].loaded

Sound(c) == Phase(c) /\ Truthful(c) /\ Reported(c)

ConsumersInv == ConsumersTypeOK /\ \A c \in Consumers : Sound(c)

StateOf(c) == <<step[c], mounted[c], bundle[c], replacement[c], desired[c], complained[c],
                status[c], audited[c], verdict[c]>>

LEMMA SoundIsEnough == ConsumersInv => BundleTruthful /\ StatusTruthful
  BY DEF ConsumersInv, Sound, Truthful, Reported, BundleTruthful, StatusTruthful

LEMMA NoPairType == NoPair \in [Kinds -> Docs \cup {NoDoc}] /\ NoBundle \in Bundle
  BY DEF NoPair, NoBundle, Bundle

LEMMA ConsumersInvInit == ConsumersInit => ConsumersInv
<1> SUFFICES ASSUME ConsumersInit PROVE ConsumersInv
  OBVIOUS
<1>1. ConsumersTypeOK
  BY NoPairType, InputAssumption, ConsumersAssumption
     DEF ConsumersInit, Init, ConsumersTypeOK, Status, Steps
<1>2. ASSUME NEW c \in Consumers PROVE Sound(c)
  BY <1>2 DEF ConsumersInit, Init, Sound, Phase, Truthful, Reported, Running, Publishing, InForce, NoBundle
<1> QED BY <1>1, <1>2 DEF ConsumersInv

\* What holds of a consumer that takes no step keeps holding.
LEMMA OthersKept ==
    ASSUME IInv, ConsumersInv, [ConsumersNext]_allVars,
           NEW c \in Consumers, UNCHANGED StateOf(c)
    PROVE  Sound(c)'
<1>1. /\ bundle[c].gen \in Nat /\ replacement[c].gen \in Nat /\ desired[c] \in Nat
      /\ status[c].desired \in Nat
  BY DEF ConsumersInv, ConsumersTypeOK, Bundle, Status
<1>2. Sound(c) BY DEF ConsumersInv
<1>3. Phase(c)'
  BY <1>1, <1>2, LifecycleStep DEF StateOf, Sound, Phase, Running, Publishing
<1>4. Truthful(c)'
  BY <1>1, <1>2, LifecycleStep DEF StateOf, Sound, Truthful, Committed
<1>5. Reported(c)'
  BY <1>1, <1>2, LifecycleStep DEF StateOf, Sound, Reported, Running, Publishing, InForce
<1> QED BY <1>3, <1>4, <1>5 DEF Sound

\* A bundle read in one transaction is the pair in force.
LEMMA BundleNowCommitted ==
    ASSUME IInv, ConsumersInv, [ConsumersNext]_allVars, mode # "none", NEW c \in Consumers
    PROVE  /\ BundleNow(c) \in Bundle
           /\ BundleNow(c).gen = generation
           /\ BundleNow(c) # NoBundle
           /\ BundleNow(c).named = bundles[generation]
           /\ BundleNow(c).content = bundles[generation]
<1>1. /\ generation \in Nat /\ generation >= 1 /\ bundles[generation] = active
      /\ active \in [Kinds -> Docs \cup {NoDoc}]
  BY LifecycleStep
<1>2. /\ BundleNow(c).gen = generation /\ BundleNow(c).named = active
      /\ BundleNow(c).content = active /\ AdoptsDurable(c) \in BOOLEAN
  BY DEF BundleNow, AdoptsDurable
<1>3. BundleNow(c) = [gen |-> generation, named |-> active, content |-> active,
                      adopted |-> AdoptsDurable(c)]
  BY DEF BundleNow, AdoptsDurable
<1>4. BundleNow(c) \in Bundle
  BY <1>1, <1>2, <1>3 DEF Bundle
<1> QED BY <1>1, <1>2, <1>4 DEF NoBundle

LEMMA OthersUntouched ==
    ASSUME ConsumersTypeOK, NEW c \in Consumers, Consume(c), NEW e \in Consumers, e # c
    PROVE  UNCHANGED StateOf(e)
  BY DEF ConsumersTypeOK, Consume, Check, SyncMounts, LoadAtStart, Start, SkipCheck,
         ReadGeneration, ReportUnchanged, LoadReplacement, ReportFailure, CommitReload, Adopt,
         Classify, Insert, Crash, RecordLoaded, Go, StateOf, ownerVars, tableVars

LEMMA CountersKept ==
    ASSUME ConsumersTypeOK, NEW c \in Consumers, Consume(c)
    PROVE  /\ step' \in [Consumers -> Steps]
           /\ faults' \in 0..MaxFaults
           /\ open' \subseteq Observers
<1>1. ASSUME Fault \/ UNCHANGED faults PROVE faults' \in 0..MaxFaults
  BY <1>1, ConsumersAssumption DEF Fault, ConsumersTypeOK
<1>2. ASSUME NEW to \in Steps, Go(c, to) PROVE step' \in [Consumers -> Steps]
  BY <1>2 DEF Go, ConsumersTypeOK
<1>3. Fault \/ UNCHANGED faults
  BY DEF Consume, Check, SyncMounts, LoadAtStart, Start, SkipCheck, ReadGeneration,
         ReportUnchanged, LoadReplacement, ReportFailure, CommitReload, Adopt, Classify,
         Insert, Crash
<1>4. \E to \in Steps : Go(c, to)
  BY DEF Consume, Check, SyncMounts, LoadAtStart, Start, SkipCheck, ReadGeneration,
         ReportUnchanged, LoadReplacement, ReportFailure, CommitReload, Adopt, Classify,
         Insert, Crash, Steps
<1>5. open' \subseteq Observers
  BY DEF ConsumersTypeOK, Consume, Check, SyncMounts, LoadAtStart, Start, SkipCheck,
         ReadGeneration, ReportUnchanged, LoadReplacement, ReportFailure, CommitReload, Adopt,
         Classify, Insert, Crash
<1> QED BY <1>1, <1>2, <1>3, <1>4, <1>5

LEMMA TypesKept ==
    ASSUME IInv, ConsumersInv, NEW c \in Consumers, Consume(c), ConsumersNext
    PROVE  ConsumersTypeOK'
<1>1. /\ generation \in 0..MaxGeneration /\ active \in [Kinds -> Docs \cup {NoDoc}]
      /\ generation \in Nat /\ generation <= MaxGeneration /\ MaxGeneration \in Nat
  BY InputAssumption DEF IInv, StoreInv, TypeOK
<1>2. /\ bundle[c] \in Bundle /\ replacement[c] \in Bundle /\ desired[c] \in 0..MaxGeneration
      /\ bundle[c].gen \in Nat /\ bundle[c].content \in [Kinds -> Docs \cup {NoDoc}]
      /\ replacement[c].gen \in Nat /\ replacement[c].content \in [Kinds -> Docs \cup {NoDoc}]
  BY DEF ConsumersInv, ConsumersTypeOK, Bundle
<1>3. bundle[c].gen <= generation
  BY <1>1, <1>2 DEF ConsumersInv, Sound, Truthful, Committed, NoBundle
<1>4. ConsumersTypeOK BY DEF ConsumersInv
<1>0. /\ step' \in [Consumers -> Steps] /\ faults' \in 0..MaxFaults
      /\ open' \subseteq Observers
  BY <1>4, CountersKept
<1> USE NoPairType
<1>5. CASE SyncMounts(c)
  <2>1. mounted' \in [Consumers -> [Kinds -> Docs \cup {NoDoc}]]
    <3>1. PICK m \in [Kinds -> Docs \cup {NoDoc}] : mounted' = [mounted EXCEPT ![c] = m]
      <4>1. \A m \in Mounts : m \in [Kinds -> Docs \cup {NoDoc}]
        BY MountFacts
      <4> QED BY <1>5, <4>1 DEF SyncMounts
    <3> QED BY <1>4, <3>1 DEF ConsumersTypeOK
  <2> QED BY <1>0, <1>4, <1>5, <2>1 DEF SyncMounts, ConsumersTypeOK, tableVars
<1>6. CASE LoadAtStart(c) \/ LoadReplacement(c)
  <2>1. mode # "none" BY <1>6 DEF ConsumersInv, Sound, Phase, LoadAtStart, LoadReplacement
  <2>2. BundleNow(c) \in Bundle BY <2>1, BundleNowCommitted
  <2>3. replacement' \in [Consumers -> Bundle]
    BY <1>0, <1>4, <1>6, <2>2 DEF LoadAtStart, LoadReplacement, ConsumersTypeOK
  <2> QED BY <1>0, <1>4, <1>6, <2>3
          DEF LoadAtStart, LoadReplacement, ConsumersTypeOK, ownerVars, tableVars
<1>7. CASE Start(c) \/ CommitReload(c)
  <2>1. status' \in [Consumers -> Status]
    <3>1. [loaded |-> replacement[c].gen, desired |-> replacement[c].gen,
           state |-> "ok"] \in Status
      BY <1>2 DEF Status
    <3> QED BY <1>4, <1>7, <3>1 DEF Start, CommitReload, RecordLoaded, ConsumersTypeOK
  <2>2. replacement' \in [Consumers -> Bundle]
    BY <1>4, <1>7 DEF Start, CommitReload, ConsumersTypeOK
  <2> QED BY <1>0, <1>4, <1>7, <2>1, <2>2
          DEF Start, CommitReload, ConsumersTypeOK, ownerVars
<1>15. CASE Adopt(c)
  <2>1. /\ bundle' \in [Consumers -> Bundle] /\ replacement' \in [Consumers -> Bundle]
        /\ complained' \in [Consumers -> Nat]
    BY <1>2, <1>4, <1>15 DEF Adopt, ConsumersTypeOK
  <2>2. mounted' \in [Consumers -> [Kinds -> Docs \cup {NoDoc}]]
    BY <1>2, <1>4, <1>15 DEF Adopt, ConsumersTypeOK
  <2> QED BY <1>0, <1>4, <1>15, <2>1, <2>2 DEF Adopt, ConsumersTypeOK, tableVars
<1>8. CASE SkipCheck(c)
  BY <1>0, <1>4, <1>8 DEF SkipCheck, ConsumersTypeOK, ownerVars, tableVars
<1>9. CASE ReadGeneration(c)
  <2>1. desired' \in [Consumers -> 0..MaxGeneration]
    BY <1>1, <1>2, <1>3, <1>0, <1>4, <1>9 DEF ReadGeneration, ConsumersTypeOK
  <2> QED BY <1>0, <1>4, <1>9, <2>1 DEF ReadGeneration, ConsumersTypeOK, ownerVars, tableVars
<1>10. CASE ReportUnchanged(c)
  <2>1. status' \in [Consumers -> Status]
    <3>1. [loaded |-> bundle[c].gen, desired |-> desired[c], state |-> "ok"] \in Status
      BY <1>2 DEF Status
    <3> QED BY <1>4, <1>10, <3>1 DEF ReportUnchanged, ConsumersTypeOK
  <2> QED BY <1>0, <1>4, <1>10, <2>1 DEF ReportUnchanged, ConsumersTypeOK, ownerVars
<1>11. CASE ReportFailure(c)
  <2>1. status' \in [Consumers -> Status]
    <3>1. [loaded |-> bundle[c].gen, desired |-> desired[c], state |-> "error"] \in Status
      BY <1>2 DEF Status
    <3> QED BY <1>4, <1>11, <3>1 DEF ReportFailure, ConsumersTypeOK, tableVars
  <2>2. audited' \in [Consumers -> SUBSET (0..MaxGeneration)]
    <3>1. audited[c] \cup {desired[c]} \in SUBSET (0..MaxGeneration)
      BY <1>2, <1>4 DEF ConsumersTypeOK
    <3> QED BY <1>4, <1>11, <3>1 DEF ReportFailure, ConsumersTypeOK, tableVars
  <2>3. complained' \in [Consumers -> Nat]
    BY <1>2, <1>4, <1>11 DEF ReportFailure, ConsumersTypeOK
  <2> QED BY <1>0, <1>4, <1>11, <2>1, <2>2, <2>3 DEF ReportFailure, ConsumersTypeOK
<1>12. CASE Classify(c)
  <2>1. verdict' \in [Consumers -> [Kinds -> Docs \cup {NoDoc}]]
    BY <1>2, <1>0, <1>4, <1>12 DEF Classify, ConsumersTypeOK
  <2> QED BY <1>0, <1>4, <1>12, <2>1 DEF Classify, ConsumersTypeOK, ownerVars, tableVars
<1>13. CASE Insert(c)
  BY <1>0, <1>4, <1>13 DEF Insert, ConsumersTypeOK, ownerVars, tableVars
<1>14. CASE Crash(c)
  <2>1. desired' \in [Consumers -> 0..MaxGeneration]
    BY <1>1, <1>0, <1>4, <1>14 DEF Crash, ConsumersTypeOK
  <2> QED BY <1>0, <1>4, <1>14, <2>1 DEF Crash, ConsumersTypeOK, tableVars
<1> QED BY <1>5, <1>6, <1>7, <1>8, <1>9, <1>10, <1>11, <1>12, <1>13, <1>14, <1>15 DEF Consume, Check

\* The step a consumer takes keeps what is known of it.
LEMMA SoundStep ==
    ASSUME IInv, ConsumersInv, NEW c \in Consumers, Consume(c), ConsumersNext
    PROVE  Sound(c)'
<1>1. Sound(c) /\ ConsumersTypeOK BY DEF ConsumersInv
<1>2. /\ bundle[c] \in Bundle /\ replacement[c] \in Bundle /\ desired[c] \in Nat
      /\ bundle[c].gen \in Nat /\ replacement[c].gen \in Nat
      /\ status[c].loaded \in Nat /\ status[c].desired \in Nat
  BY <1>1 DEF ConsumersTypeOK, Bundle, Status
<1>3. /\ generation \in Nat /\ generation' \in Nat /\ generation <= generation'
      /\ \A g \in 1..generation : bundles'[g] = bundles[g]
      /\ mode # "none" => mode' # "none"
  BY LifecycleStep
<1>4. bundle[c].gen <= generation /\ replacement[c].gen <= generation
  BY <1>1, <1>2, <1>3 DEF Sound, Truthful, Committed, NoBundle
<1>5. ASSUME NEW b, Committed(b) PROVE Committed(b)'
  BY <1>3, <1>5 DEF Committed
<1>6. CASE SyncMounts(c)
  <2>1. mode' # "none"
    BY <1>6 DEF SyncMounts, Bootstrap, SyncLegacy, vars, stateVars
  <2> QED BY <1>1, <1>2, <1>3, <1>6, <2>1
          DEF SyncMounts, Go, tableVars, Sound, Phase, Truthful, Committed, Reported, Running, Publishing, InForce, ConsumersTypeOK
<1>7. CASE LoadAtStart(c) \/ LoadReplacement(c)
  <2>1. mode # "none" BY <1>1, <1>7 DEF Sound, Phase, LoadAtStart, LoadReplacement
  <2>2. BundleNow(c) # NoBundle /\ Committed(BundleNow(c))
    BY <2>1, BundleNowCommitted, LifecycleStep DEF Committed
  <2> HIDE DEF NoBundle
  <2> QED BY <1>1, <1>2, <1>3, <1>4, <1>7, <2>1, <2>2
          DEF LoadAtStart, LoadReplacement, Go, Fault, ownerVars, tableVars, vars,
              Sound, Phase, Truthful, Committed, Reported, Running, Publishing, InForce, ConsumersTypeOK
<1>8. CASE Start(c) \/ CommitReload(c)
  <2>1. /\ UNCHANGED <<vars, desired, bundle, verdict>>
        /\ replacement[c] # NoBundle /\ step[c] \in {"starting", "adopt"}
    BY <1>1, <1>8 DEF Sound, Phase, Start, CommitReload, ownerVars
  <2>2. CASE RecordLoaded(c) /\ step'[c] \in {"started", "published"}
             /\ UNCHANGED replacement
    <3>1. status'[c] = [loaded |-> replacement[c].gen, desired |-> replacement[c].gen,
                        state |-> "ok"]
      BY <1>1, <2>2 DEF RecordLoaded, ConsumersTypeOK
    <3>2. step'[c] = "published" => step[c] = "adopt"
      <4>1. CASE Start(c) BY <1>1, <4>1 DEF Start, Go, ConsumersTypeOK
      <4>2. CASE CommitReload(c) BY <4>2 DEF CommitReload
      <4> QED BY <1>8, <4>1, <4>2
    <3>3. mode' # "none" /\ generation' = generation
      BY <1>1, <2>1 DEF Sound, Phase, vars, stateVars
    <3>4. Phase(c)'
      BY <1>1, <2>1, <2>2, <3>2, <3>3 DEF Sound, Phase, Running, Publishing
    <3>5. Truthful(c)'
      BY <1>1, <1>5, <2>1, <2>2 DEF Sound, Truthful
    <3>6. Reported(c)'
      BY <1>2, <1>4, <2>2, <3>1, <3>3 DEF Reported, Running, Publishing, InForce
    <3> QED BY <3>4, <3>5, <3>6 DEF Sound
  <2>3. CASE /\ step[c] = "adopt" /\ step'[c] = "classify"
             /\ replacement'[c] = NoBundle /\ UNCHANGED status
    BY <1>1, <1>2, <1>3, <2>1, <2>3
       DEF Sound, Phase, Truthful, Committed, Reported, Running, Publishing, InForce, vars
  <2> QED BY <1>1, <1>8, <2>2, <2>3 DEF Start, CommitReload, Go, ConsumersTypeOK
<1>14. CASE Adopt(c)
  <2>1. /\ bundle'[c] = replacement[c] /\ replacement'[c] = NoBundle
        /\ UNCHANGED <<vars, desired, status>>
    BY <1>1, <1>14 DEF Adopt, ConsumersTypeOK, tableVars
  <2>2. Publishing(c) /\ replacement[c] # NoBundle
    BY <1>1, <1>14 DEF Adopt, Publishing, Sound, Phase
  <2>3. step'[c] \in {"idle", "classify"}
    BY <1>1, <1>14 DEF Adopt, Go, ConsumersTypeOK
  <2> QED BY <1>1, <1>2, <1>3, <1>4, <2>1, <2>2, <2>3
          DEF Sound, Phase, Truthful, Committed, Reported, Running, Publishing, InForce, vars
<1>9. CASE SkipCheck(c) \/ ReadGeneration(c)
  BY <1>1, <1>2, <1>3, <1>4, <1>9
     DEF SkipCheck, ReadGeneration, Go, Fault, ownerVars, tableVars, vars,
         Sound, Phase, Truthful, Committed, Reported, Running, Publishing, InForce, ConsumersTypeOK
<1>10. CASE ReportUnchanged(c)
  BY <1>1, <1>2, <1>3, <1>4, <1>10
     DEF ReportUnchanged, Go, Fault, ownerVars, vars,
         Sound, Phase, Truthful, Committed, Reported, Running, Publishing, InForce, ConsumersTypeOK
<1>11. CASE ReportFailure(c)
  BY <1>1, <1>2, <1>3, <1>4, <1>11
     DEF ReportFailure, Go, Fault, tableVars, vars,
         Sound, Phase, Truthful, Committed, Reported, Running, Publishing, InForce, ConsumersTypeOK
<1>12. CASE Classify(c) \/ Insert(c)
  BY <1>1, <1>2, <1>3, <1>12
     DEF Classify, Insert, Go, Fault, ownerVars, tableVars, vars,
         Sound, Phase, Truthful, Committed, Reported, Running, Publishing, InForce, ConsumersTypeOK
<1>13. CASE Crash(c)
  BY <1>1, <1>2, <1>3, <1>13
     DEF Crash, Go, Fault, tableVars, vars,
         Sound, Phase, Truthful, Committed, Reported, Running, Publishing, InForce, ConsumersTypeOK
<1> QED BY <1>6, <1>7, <1>8, <1>9, <1>10, <1>11, <1>12, <1>13, <1>14 DEF Consume, Check

LEMMA ConsumersInductive == IInv /\ ConsumersInv /\ [ConsumersNext]_allVars => ConsumersInv'
<1> SUFFICES ASSUME IInv, ConsumersInv, [ConsumersNext]_allVars PROVE ConsumersInv'
  OBVIOUS
<1>1. CASE UNCHANGED consumerVars
  <2>1. ConsumersTypeOK'
    BY <1>1 DEF ConsumersInv, ConsumersTypeOK, consumerVars, memoryVars, ownerVars, tableVars
  <2>2. ASSUME NEW c \in Consumers PROVE Sound(c)'
    BY <1>1, OthersKept DEF StateOf, consumerVars, memoryVars, ownerVars, tableVars
  <2> QED BY <2>1, <2>2 DEF ConsumersInv
<1>2. ASSUME NEW c \in Consumers, Consume(c) PROVE ConsumersInv'
  <2>1. ConsumersNext BY <1>2 DEF ConsumersNext
  <2>2. ConsumersTypeOK' BY <1>2, <2>1, TypesKept
  <2>3. ASSUME NEW e \in Consumers PROVE Sound(e)'
    <3>1. CASE e = c BY <1>2, <2>1, <3>1, SoundStep
    <3>2. CASE e # c
      BY <1>2, <2>1, <3>2, OthersUntouched, OthersKept DEF ConsumersInv
    <3> QED BY <3>1, <3>2
  <2> QED BY <2>2, <2>3 DEF ConsumersInv
<1> QED BY <1>1, <1>2 DEF ConsumersNext, Operate, allVars

-----------------------------------------------------------------------------
(* The theorems.                                                           *)

\* Every consumer keeps its phase, its bundles committed and its row truthful.
THEOREM ConsumersInvHolds == ConsumersSpec => [](IInv /\ ConsumersInv)
<1>1. ConsumersSpec => []IInv BY LifecycleKept, InvariantHolds
<1> QED BY <1>1, ConsumersInvInit, ConsumersInductive, PTL DEF ConsumersSpec

\* Every variable of the consumers keeps its shape.
THEOREM ConsumersTypeCorrect == ConsumersSpec => []ConsumersTypeOK
<1>1. ConsumersInv => ConsumersTypeOK BY DEF ConsumersInv
<1> QED BY <1>1, ConsumersInvHolds, PTL

\* A consumer never holds documents of two generations, or labels them as another.
THEOREM BundlesTruthful == ConsumersSpec => []BundleTruthful
<1> QED BY SoundIsEnough, ConsumersInvHolds, PTL

\* The health row of a running consumer is what is in its memory.
THEOREM StatusCorrect == ConsumersSpec => []StatusTruthful
<1> QED BY SoundIsEnough, ConsumersInvHolds, PTL

\* A triage row names the revisions that made its verdict.
THEOREM VerdictsTraceable == ConsumersSpec => VerdictProvenance
<1>1. ASSUME ConsumersInv, NEW c \in Consumers, Insert(c)
      PROVE  verdict[c] = bundles[bundle[c].gen]
  BY <1>1 DEF ConsumersInv, Sound, Phase, Truthful, Committed, Insert, Running
<1>2. IInv /\ ConsumersInv /\ [ConsumersNext]_allVars =>
        [\A c \in Consumers : Insert(c) => verdict[c] = bundles[bundle[c].gen]]_allVars
  BY <1>1
<1> QED BY <1>2, ConsumersInvHolds, PTL DEF ConsumersSpec, VerdictProvenance
=============================================================================
