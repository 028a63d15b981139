----------------------- MODULE ConfigLifecycleProofs -----------------------
(***************************************************************************)
(* Proofs about ConfigLifecycle for every set of documents, every number   *)
(* of concurrent previews and every bound on the generations.              *)
(***************************************************************************)
EXTENDS ConfigLifecycle, TLAPS

-----------------------------------------------------------------------------
(* Documents, kinds and the operators on revision rows.                    *)

LEMMA DocFacts ==
    /\ NoDoc \notin Docs
    /\ Canonical \subseteq Docs
    /\ \A k \in Kinds : DocsOf(k) \subseteq Docs
    /\ \A d \in Docs : KindOf(d) \in Kinds /\ d \in DocsOf(KindOf(d))
    /\ \A k \in Kinds : \A d \in DocsOf(k) : KindOf(d) = k
    /\ \A k \in Kinds : OtherKind(k) \in Kinds
  BY DocsAssumption DEF Docs, Canonical, Kinds, DocsOf, KindOf, OtherKind

LEMMA CanonFacts ==
    ASSUME NEW d \in Valid
    PROVE  /\ Canon[d] \in Canonical
           /\ d \in Docs
           /\ KindOf(Canon[d]) = KindOf(d)
<1>1. Canon[d] \in Valid /\ Canon[Canon[d]] = Canon[d] /\ d \in Docs
  BY DocsAssumption, CanonAssumption
<1>2. Canon[d] \in DocsOf(KindOf(d))
  BY <1>1, CanonAssumption, DocFacts
<1> QED BY <1>1, <1>2, DocFacts DEF Canonical

LEMMA InsertIgnoreType ==
    ASSUME NEW rs \in [Docs -> Row], NEW d \in Docs, NEW source \in Sources,
           NEW base \in Docs \cup {NoDoc}
    PROVE  InsertIgnore(rs, d, source, base) \in [Docs -> Row]
  BY DEF InsertIgnore, Row, NoRow, States

\* A change of state keeps a table of rows a table of rows.
LEMMA StateUpdateType ==
    ASSUME NEW rs \in [Docs -> Row], NEW d \in Docs, NEW st \in States
    PROVE  [rs EXCEPT ![d].state = st] \in [Docs -> Row]
<1>1. [rs[d] EXCEPT !.state = st] \in Row
  BY DEF Row
<1> QED BY <1>1

LEMMA MountFacts ==
    ASSUME NEW m \in Mounts
    PROVE  /\ m \in [Kinds -> Docs]
           /\ \A k \in Kinds : m[k] \in DocsOf(k) \cap Canonical
           /\ m["prefilter_policy"] \in PrefilterDocs
           /\ m["asset_inventory"] \in AssetDocs
  BY InputAssumption, DocFacts DEF Mounts, Kinds, DocsOf

LEMMA WithMountsType ==
    ASSUME TypeOK, NEW p \in Packaged, NEW m \in Mounts
    PROVE  /\ InsertShipped(p) \in [Docs -> Row]
           /\ WithMounts(p, m) \in [Docs -> Row]
<1> p \in Docs BY InputAssumption, DocFacts
<1>1. InsertShipped(p) \in [Docs -> Row]
  BY InsertIgnoreType DEF InsertShipped, TypeOK, Sources
<1> DEFINE ri == InsertIgnore(InsertShipped(p), m["prefilter_policy"], "operator_import", p)
<1>2. ri \in [Docs -> Row]
  BY <1>1, InsertIgnoreType, MountFacts DEF Docs, Sources
<1>3. InsertIgnore(ri, m["asset_inventory"], "operator_import", NoDoc) \in [Docs -> Row]
  <2> HIDE DEF ri
  <2> QED BY <1>2, InsertIgnoreType, MountFacts DEF Docs, Sources
<1> QED BY <1>1, <1>3 DEF WithMounts

LEMMA ReactivatedType ==
    ASSUME NEW rs \in [Docs -> Row], NEW old, NEW next
    PROVE  Reactivated(rs, old, next) \in [Docs -> Row]
  BY DEF Reactivated, Row, States

LEMMA PublishType ==
    ASSUME TypeOK, NEW next \in [Kinds -> Docs \cup {NoDoc}],
           NEW g \in 1..MaxGeneration, g <= generation + 1, Publish(next, g)
    PROVE  /\ active' \in [Kinds -> Docs \cup {NoDoc}]
           /\ previous' \in [Kinds -> Docs \cup {NoDoc}]
           /\ generation' \in 0..MaxGeneration
           /\ bundles' \in [1..generation' -> [Kinds -> Docs \cup {NoDoc}]]
  BY InputAssumption DEF TypeOK, Publish

LEMMA RecordShippedType ==
    ASSUME TypeOK, NEW p \in Packaged, RecordShipped(p)
    PROVE  /\ newestShipped' \in Docs \cup {NoDoc}
           /\ discovered' \subseteq Docs
           /\ packaged' \in Docs \cup {NoDoc}
<1> p \in Docs BY InputAssumption, DocFacts
<1> QED BY DEF TypeOK, RecordShipped

LEMMA CandidateFacts ==
    ASSUME TypeOK, NEW d \in Docs
    PROVE  Candidate(d) \in Docs \cup {NoDoc}
  BY DEF TypeOK, Candidate, NormalizationInput, Row

-----------------------------------------------------------------------------
(* Type correctness, one lemma per group of actions.                       *)

LEMMA InitType == Init => TypeOK
  BY InputAssumption DEF Init, TypeOK, NoRow, Row, NoPair, NoEvidence, Evidence, Idle,
     Session, States, Sources

LEMMA SynchronizeType ==
    ASSUME TypeOK, NEW p \in Packaged, NEW m \in Mounts,
           Bootstrap(p, m) \/ SyncLegacy(p, m)
    PROVE  TypeOK'
<1> p \in Docs BY InputAssumption, DocFacts
<1>0. m \in [Kinds -> Docs \cup {NoDoc}] BY MountFacts
<1>1. rows' \in [Docs -> Row]
  BY WithMountsType, ReactivatedType DEF Bootstrap, SyncLegacy
<1>2. CASE Bootstrap(p, m)
  <2>1. /\ active' \in [Kinds -> Docs \cup {NoDoc}]
        /\ previous' \in [Kinds -> Docs \cup {NoDoc}]
        /\ generation' \in 0..MaxGeneration
        /\ bundles' \in [1..generation' -> [Kinds -> Docs \cup {NoDoc}]]
    <3>1. 1 \in 1..MaxGeneration /\ 1 <= generation + 1 /\ Publish(m, 1)
      BY <1>2, InputAssumption DEF Bootstrap, TypeOK
    <3> QED BY <3>1, <1>0, PublishType
  <2> QED BY <1>1, <1>2, <2>1 DEF TypeOK, Bootstrap
<1>3. CASE SyncLegacy(p, m)
  <2>1. /\ active' \in [Kinds -> Docs \cup {NoDoc}]
        /\ previous' \in [Kinds -> Docs \cup {NoDoc}]
        /\ generation' \in 0..MaxGeneration
        /\ bundles' \in [1..generation' -> [Kinds -> Docs \cup {NoDoc}]]
    <3>1. CASE m = active
      BY <1>3, <3>1 DEF SyncLegacy, TypeOK
    <3>2. CASE m # active
      <4>1. /\ generation + 1 \in 1..MaxGeneration
            /\ generation + 1 <= generation + 1
            /\ Publish(m, generation + 1)
        BY <1>3, <3>2, InputAssumption DEF SyncLegacy, TypeOK
      <4> QED BY <4>1, <1>0, PublishType
    <3> QED BY <3>1, <3>2
  <2>2. RecordShipped(p) BY <1>3 DEF SyncLegacy
  <2> QED BY <1>1, <1>3, <2>1, <2>2, RecordShippedType DEF TypeOK, SyncLegacy
<1> QED BY <1>2, <1>3

LEMMA DiscoverShippedType ==
    ASSUME TypeOK, NEW p \in Packaged, DiscoverShipped(p)
    PROVE  TypeOK'
<1>1. rows' \in [Docs -> Row]
  <2> p \in Docs BY InputAssumption, DocFacts
  <2> QED BY InsertIgnoreType DEF DiscoverShipped, InsertShipped, TypeOK, Sources
<1>2. RecordShipped(p) BY DEF DiscoverShipped
<1> QED BY <1>1, <1>2, RecordShippedType DEF TypeOK, DiscoverShipped, stateVars

LEMMA EditDraftType ==
    ASSUME TypeOK, EditDraft
    PROVE  TypeOK'
<1>0. rows \in [Docs -> Row] BY DEF TypeOK
<1>1. ASSUME NEW d \in Docs, NEW parent \in Docs, NEW g \in 1..MaxGeneration,
             CreateDraft(d, parent, g)
      PROVE  rows' \in [Docs -> Row]
  <2> DEFINE new == [NoRow EXCEPT !.state = "draft", !.source = "operator",
                                  !.parent = parent, !.base = rows[parent].base]
  <2>1. rows[parent].base \in Docs \cup {NoDoc} 
    BY <1>0 DEF Row
  <2>2. new \in Row
    BY <2>1 DEF NoRow, Row, States, Sources
  <2>3. rows' = [rows EXCEPT ![d] = new]
    BY <1>1 DEF CreateDraft
  <2> HIDE DEF new
  <2> QED BY <1>0, <2>2, <2>3
<1>2. ASSUME NEW d \in Docs, RejectDraft(d) \/ ValidateInPlace(d)
      PROVE  rows' \in [Docs -> Row]
  <2>1. {"rejected", "validated"} \subseteq States BY DEF States
  <2>2. \E st \in {"rejected", "validated"} : rows' = [rows EXCEPT ![d].state = st]
    BY <1>2 DEF RejectDraft, ValidateInPlace
  <2> QED BY <1>0, <2>1, <2>2, StateUpdateType
<1>3. ASSUME NEW d \in Docs, ValidateByNormalizing(d)
      PROVE  rows' \in [Docs -> Row]
  <2>1. d \in Valid /\ Canon[d] \in Docs /\ Canon[d] # d
    BY <1>3, CanonFacts, DocFacts DEF ValidateByNormalizing, Canonical
  <2>2. rows[d] \in Row /\ rows[Canon[d]] \in Row
    BY <2>1 DEF TypeOK
  <2>3. CanonicalRow(d) \in Row
    <3>1. [rows[d] EXCEPT !.state = "validated", !.source = "operator"] \in Row
      BY <2>2 DEF Row, States, Sources
    <3>2. [rows[Canon[d]] EXCEPT !.state = "validated"] \in Row
      BY <2>2 DEF Row, States
    <3> QED BY <2>2, <3>1, <3>2 DEF CanonicalRow
  <2>4. [rows[d] EXCEPT !.state = "superseded", !.normalized = Canon[d]] \in Row
    BY <2>1, <2>2 DEF Row, States
  <2>5. rows' = [e \in Docs |->
                   IF e = d THEN [rows[d] EXCEPT !.state = "superseded",
                                                 !.normalized = Canon[d]]
                   ELSE IF e = Canon[d] THEN CanonicalRow(d)
                   ELSE rows[e]]
    BY <1>3, <2>1 DEF ValidateByNormalizing, TypeOK
  <2> QED BY <2>3, <2>4, <2>5 DEF TypeOK
<1>4. rows' \in [Docs -> Row]
  BY <1>1, <1>2, <1>3 DEF EditDraft
<1>5. UNCHANGED <<stateVars, shippedVars, evidence, session>>
  BY DEF EditDraft, CreateDraft, RejectDraft, ValidateInPlace, ValidateByNormalizing
<1> QED BY <1>4, <1>5 DEF TypeOK, stateVars, shippedVars

LEMMA PreviewType ==
    ASSUME TypeOK, Preview
    PROVE  TypeOK'
<1>0. Idle \in Session
  BY DEF Idle, Session, NoPair
<1> PICK s \in Sessions :
        \/ \E d \in Docs, g \in 1..MaxGeneration : PreviewState(s, d, g)
        \/ PreviewCandidate(s)
        \/ PreviewActive(s)
        \/ \E sampled \in BOOLEAN : PreviewOther(s, sampled)
        \/ PreviewRecord(s)
        \/ PreviewFail(s)
  BY DEF Preview
<1>1. session[s] \in Session BY DEF TypeOK
<1>2. session' \in [Sessions -> Session]
  <2>1. ASSUME NEW d \in Docs, NEW g \in 1..MaxGeneration, PreviewState(s, d, g)
        PROVE  session' \in [Sessions -> Session]
    <3>0. g \in Nat /\ active \in [Kinds -> Docs \cup {NoDoc}]
      BY InputAssumption DEF TypeOK
    <3>1. [Idle EXCEPT !.pc = "resolve", !.handle = d, !.gen = g, !.pair = active]
            \in Session
      BY <3>0 DEF Session, Idle
    <3> QED BY <2>1, <3>1 DEF PreviewState, TypeOK
  <2>2. CASE PreviewCandidate(s)
    BY <2>2, <1>0, <1>1, DocFacts DEF PreviewCandidate, TypeOK, Session
  <2>3. CASE PreviewActive(s)
    BY <2>3, <1>0, <1>1 DEF PreviewActive, TypeOK, Session, Idle
  <2>4. ASSUME NEW sampled \in BOOLEAN, PreviewOther(s, sampled)
        PROVE  session' \in [Sessions -> Session]
    BY <2>4, <1>0, <1>1 DEF PreviewOther, TypeOK, Session, Idle
  <2>5. CASE PreviewRecord(s) \/ PreviewFail(s)
    BY <2>5, <1>0, ZenonT(60) DEF PreviewRecord, PreviewFail, TypeOK
  <2> QED BY <2>1, <2>2, <2>3, <2>4, <2>5
<1>3. evidence' \in [AssetDocs -> Evidence]
  <2>1. CASE PreviewRecord(s)
    BY <2>1, <1>1 DEF PreviewRecord, TypeOK, Session, Evidence, Kinds
  <2>2. CASE ~PreviewRecord(s)
    BY <2>2 DEF PreviewState, PreviewCandidate, PreviewActive, PreviewOther, PreviewFail,
       TypeOK
  <2> QED BY <2>1, <2>2
<1>4. UNCHANGED <<rows, stateVars, shippedVars>>
  BY DEF PreviewState, PreviewCandidate, PreviewActive, PreviewOther, PreviewRecord, PreviewFail
<1> QED BY <1>2, <1>3, <1>4 DEF TypeOK, stateVars, shippedVars

LEMMA InstallType ==
    ASSUME TypeOK, NEW c \in Docs, generation < MaxGeneration, Install(c)
    PROVE  TypeOK'
<1>1. rows' \in [Docs -> Row]
  <2> DEFINE a == active[KindOf(c)]
             r1 == [rows EXCEPT ![a].state = "superseded"]
  <2>1. r1 \in [Docs -> Row]
    BY DEF TypeOK, Row, States
  <2>2. rows' = [r1 EXCEPT ![c].state = "active"]
    <3>1. rows' = [rows EXCEPT ![a].state = "superseded", ![c].state = "active"]
      BY DEF Install
    <3> HIDE DEF a
    <3> QED BY <3>1
  <2> HIDE DEF r1
  <2> QED BY <2>1, <2>2 DEF Row, States
<1>2. KindOf(c) \in Kinds BY DocFacts
<1>3. [active EXCEPT ![KindOf(c)] = c] \in [Kinds -> Docs \cup {NoDoc}]
  BY <1>2 DEF TypeOK
<1>4. generation + 1 \in 1..MaxGeneration /\ generation + 1 <= generation + 1
  BY InputAssumption DEF TypeOK
<1>5. Publish([active EXCEPT ![KindOf(c)] = c], generation + 1)
  BY DEF Install
<1>6. /\ active' \in [Kinds -> Docs \cup {NoDoc}]
      /\ previous' \in [Kinds -> Docs \cup {NoDoc}]
      /\ generation' \in 0..MaxGeneration
      /\ bundles' \in [1..generation' -> [Kinds -> Docs \cup {NoDoc}]]
  BY <1>3, <1>4, <1>5, PublishType
<1> QED BY <1>1, <1>6 DEF TypeOK, Install, shippedVars

\* What every activation and rollback comes down to.
LEMMA ChangeBundleInstalls ==
    ASSUME TypeOK, ChangeBundle
    PROVE  /\ mode # "none"
           /\ generation < MaxGeneration
           /\ \E c \in Canonical : Install(c)
<1> PICK d \in Docs, g \in 1..MaxGeneration, acks \in SUBSET Acks :
        ActivateDraft(d, g, acks) \/ Rollback(d, g, acks)
  BY DEF ChangeBundle
<1>1. CASE ActivateDraft(d, g, acks)
  BY <1>1 DEF ActivateDraft
<1>2. CASE Rollback(d, g, acks)
  BY <1>2 DEF Rollback
<1> QED BY <1>1, <1>2

LEMMA TypeStep == TypeOK /\ [Next]_vars => TypeOK'
<1> SUFFICES ASSUME TypeOK, [Next]_vars PROVE TypeOK'
  OBVIOUS
<1>1. CASE Synchronize BY <1>1, SynchronizeType DEF Synchronize
<1>2. ASSUME NEW p \in Packaged, DiscoverShipped(p) PROVE TypeOK'
  BY <1>2, DiscoverShippedType
<1>3. CASE EditDraft BY <1>3, EditDraftType
<1>4. CASE Preview BY <1>4, PreviewType
<1>5. CASE ChangeBundle BY <1>5, ChangeBundleInstalls, InstallType, DocFacts
<1>6. CASE UNCHANGED vars BY <1>6 DEF TypeOK, vars, stateVars, shippedVars
<1> QED BY <1>1, <1>2, <1>3, <1>4, <1>5, <1>6 DEF Next

\* Every reachable state has the declared shape, for all constants.
THEOREM TypeCorrect == Spec => []TypeOK
<1> QED BY InitType, TypeStep, PTL DEF Spec

-----------------------------------------------------------------------------
(* The inductive invariant.  The pointers, the bundle history and the      *)
(* revision states are tied together; what a step may do to a row that is  *)
(* neither active nor superseded is summarised by QuietEdit.               *)

\* Before the bootstrap there is no row, no pointer and no generation.
NothingYet ==
    mode = "none" =>
        generation = 0 /\ active = NoPair /\ \A d \in Docs : rows[d] = NoRow

\* Every generation named a document of each kind.
BundlesTyped ==
    \A g \in 1..generation : \A k \in Kinds : bundles[g][k] \in DocsOf(k)

\* Only a superseded, non-canonical submission points at its canonical form.
NormalizedRaw ==
    \A d \in Docs : rows[d].normalized # NoDoc =>
        /\ d \in Valid \ Canonical
        /\ rows[d].normalized = Canon[d]
        /\ rows[d].state = "superseded"

\* A preview under way holds the pair of the generation it was asked for.
PreviewPair ==
    \A s \in Sessions : session[s].pc \notin {"idle", "inconsistent"} =>
        /\ session[s].handle \in Docs
        /\ session[s].gen \in 1..generation
        /\ session[s].pair = bundles[session[s].gen]

StoreInv ==
    /\ TypeOK
    /\ NothingYet
    /\ PointersAgree
    /\ BundlesRecorded
    /\ BundlesTyped
    /\ NormalizedRaw
    /\ RollbackTargetsWereActive

\* What a preview compares, and what its evidence is about, is the canonical
\* form of the submitted document.
PreviewCanonical ==
    /\ \A s \in Sessions : session[s].pc \in {"active", "other", "record"} =>
            session[s].candidate = Canon[session[s].handle]
    /\ \A d \in AssetDocs : evidence[d].gen > 0 => evidence[d].candidate = Canon[d]

IInv ==
    /\ StoreInv
    /\ PreviewPair
    /\ PreviewCanonical
    /\ EvidenceTruthful

\* rt is rs but for rows that were never active: these are edited, and none
\* becomes active or takes a normalized pointer without being superseded by it.
QuietEdit(rs, rt) ==
    \A e \in Docs :
        /\ rs[e].state \in {"active", "superseded"} => rt[e] = rs[e]
        /\ rs[e].state \notin {"active", "superseded"} =>
              /\ rt[e].state # "active"
              /\ rt[e].state = "superseded" => rt[e].normalized # NoDoc
        /\ rt[e].normalized # NoDoc =>
              /\ e \in Valid \ Canonical
              /\ rt[e].normalized = Canon[e]
              /\ rt[e].state = "superseded"

LEMMA InsertIgnoreEffect ==
    ASSUME NEW rs \in [Docs -> Row], NEW d, NEW source, NEW base, NEW e \in Docs
    PROVE  \/ InsertIgnore(rs, d, source, base)[e] = rs[e]
           \/ /\ rs[e].state = "absent"
              /\ InsertIgnore(rs, d, source, base)[e].state = "validated"
              /\ InsertIgnore(rs, d, source, base)[e].normalized = NoDoc
  BY DEF InsertIgnore, NoRow

LEMMA InsertQuiet ==
    ASSUME StoreInv, NEW p \in Packaged
    PROVE  /\ QuietEdit(rows, InsertShipped(p))
           /\ \A m \in Mounts : QuietEdit(rows, WithMounts(p, m))
<1>0. rows \in [Docs -> Row] /\ NormalizedRaw BY DEF StoreInv, TypeOK
<1>1. \A e \in Docs :
        \/ InsertShipped(p)[e] = rows[e]
        \/ /\ rows[e].state = "absent"
           /\ InsertShipped(p)[e].state = "validated"
           /\ InsertShipped(p)[e].normalized = NoDoc
  BY <1>0, InsertIgnoreEffect DEF InsertShipped
<1>2. QuietEdit(rows, InsertShipped(p))
  BY <1>0, <1>1 DEF QuietEdit, NormalizedRaw
<1>3. ASSUME NEW m \in Mounts PROVE QuietEdit(rows, WithMounts(p, m))
  <2> DEFINE r1 == InsertShipped(p)
             r2 == InsertIgnore(r1, m["prefilter_policy"], "operator_import", p)
             r3 == InsertIgnore(r2, m["asset_inventory"], "operator_import", NoDoc)
  <2>1. r1 \in [Docs -> Row] /\ r2 \in [Docs -> Row]
    BY WithMountsType, InsertIgnoreType, MountFacts, InputAssumption, DocFacts
       DEF Docs, Sources, StoreInv
  <2>2. \A e \in Docs :
          \/ r2[e] = r1[e]
          \/ r1[e].state = "absent" /\ r2[e].state = "validated" /\ r2[e].normalized = NoDoc
    BY <2>1, InsertIgnoreEffect
  <2>3. \A e \in Docs :
          \/ r3[e] = r2[e]
          \/ r2[e].state = "absent" /\ r3[e].state = "validated" /\ r3[e].normalized = NoDoc
    BY <2>1, InsertIgnoreEffect
  <2>4. WithMounts(p, m) = r3 BY DEF WithMounts
  <2> HIDE DEF r1, r2, r3
  <2>5. \A e \in Docs :
          \/ r1[e] = rows[e]
          \/ rows[e].state = "absent" /\ r1[e].state = "validated" /\ r1[e].normalized = NoDoc
    BY <1>1 DEF r1
  <2>6. \A e \in Docs :
          \/ r3[e] = rows[e]
          \/ rows[e].state = "absent" /\ r3[e].state = "validated" /\ r3[e].normalized = NoDoc
    BY <2>2, <2>3, <2>5
  <2> QED BY <1>0, <2>4, <2>6 DEF QuietEdit, NormalizedRaw
<1> QED BY <1>2, <1>3

LEMMA EditDraftQuiet ==
    ASSUME StoreInv, EditDraft
    PROVE  QuietEdit(rows, rows')
<1>0. rows \in [Docs -> Row] /\ NormalizedRaw BY DEF StoreInv, TypeOK
<1>1. ASSUME NEW d \in Docs, NEW parent \in Docs, NEW g \in 1..MaxGeneration,
             CreateDraft(d, parent, g)
      PROVE  QuietEdit(rows, rows')
  <2>1. /\ rows[d].state = "absent"
        /\ rows'[d].state = "draft" /\ rows'[d].normalized = NoDoc
        /\ \A e \in Docs \ {d} : rows'[e] = rows[e]
    BY <1>0, <1>1 DEF CreateDraft, NoRow
  <2> QED BY <1>0, <2>1 DEF QuietEdit, NormalizedRaw
<1>2. ASSUME NEW d \in Docs, RejectDraft(d) \/ ValidateInPlace(d)
      PROVE  QuietEdit(rows, rows')
  <2>1. /\ rows[d].state \in {"draft", "validated"}
        /\ rows'[d].state \in {"rejected", "validated"}
        /\ rows'[d].normalized = rows[d].normalized
        /\ \A e \in Docs \ {d} : rows'[e] = rows[e]
    BY <1>0, <1>2 DEF RejectDraft, ValidateInPlace, Validatable, Row
  <2> QED BY <1>0, <2>1 DEF QuietEdit, NormalizedRaw
<1>3. ASSUME NEW d \in Docs, ValidateByNormalizing(d)
      PROVE  QuietEdit(rows, rows')
  <2> DEFINE c == Canon[d]
  <2>1. /\ d \in Valid \ Canonical /\ c \in Docs /\ c \in Canonical /\ c # d /\ c # NoDoc
    BY <1>3, CanonFacts, DocFacts DEF ValidateByNormalizing, Canonical
  <2>2. /\ rows'[d].state = "superseded" /\ rows'[d].normalized = c
        /\ rows'[c] = CanonicalRow(d)
        /\ \A e \in Docs \ {d, c} : rows'[e] = rows[e]
        /\ rows[d].state = "draft"
    BY <1>0, <1>3, <2>1 DEF ValidateByNormalizing, Row
  <2>3. rows[c].normalized = NoDoc /\ rows[d].normalized = NoDoc
    BY <1>0, <2>1, <2>2 DEF NormalizedRaw
  <2>4. /\ rows[c].state \in {"active", "superseded", "validated"} => rows'[c] = rows[c]
        /\ rows[c].state \notin {"active", "superseded", "validated"} =>
              rows'[c].state = "validated"
        /\ rows'[c].normalized = NoDoc
    BY <1>0, <2>1, <2>2, <2>3 DEF CanonicalRow, Row, States
  <2> HIDE DEF c
  <2>5. c = Canon[d] BY DEF c
  <2> QED BY <1>0, <2>1, <2>2, <2>4, <2>5 DEF QuietEdit, NormalizedRaw
<1> QED BY <1>1, <1>2, <1>3 DEF EditDraft

\* A quiet edit of the rows that leaves the pointers alone keeps the store.
LEMMA QuietStep ==
    ASSUME StoreInv, TypeOK', QuietEdit(rows, rows'), UNCHANGED stateVars,
           mode # "none"
    PROVE  StoreInv'
<1>0. rows \in [Docs -> Row] /\ rows' \in [Docs -> Row] BY DEF StoreInv, TypeOK
<1>1. NothingYet' /\ BundlesRecorded' /\ BundlesTyped'
  BY DEF StoreInv, NothingYet, BundlesRecorded, BundlesTyped, stateVars
<1>2. PointersAgree'
  BY DocFacts DEF StoreInv, PointersAgree, QuietEdit, stateVars
<1>3. NormalizedRaw'
  BY DEF NormalizedRaw, QuietEdit
<1>4. RollbackTargetsWereActive'
  <2>1. \A d \in Docs : EverActive(d)' <=> EverActive(d)
    BY DEF EverActive, stateVars
  <2> QED BY <2>1 DEF StoreInv, RollbackTargetsWereActive, QuietEdit, NormalizationInput
<1> QED BY <1>1, <1>2, <1>3, <1>4 DEF StoreInv

\* Publishing a canonical pair over quietly edited rows keeps the store.
LEMMA PublishStep ==
    ASSUME StoreInv, TypeOK', NEW rs \in [Docs -> Row], QuietEdit(rows, rs),
           NEW next \in [Kinds -> Docs],
           \A k \in Kinds : next[k] \in DocsOf(k) \cap Canonical,
           rows' = Reactivated(rs, active, next),
           Publish(next, generation + 1), mode' # "none"
    PROVE  StoreInv'
<1> DEFINE g == generation + 1
<1>0. /\ generation \in Nat /\ g \in Nat \ {0} /\ generation' = g
      /\ active' = next /\ previous' = active
      /\ \A i \in 1..g : bundles'[i] = IF i = g THEN next ELSE bundles[i]
  BY DEF StoreInv, TypeOK, Publish
<1>1. NothingYet' BY DEF NothingYet
<1>2. \A d \in Docs : \A k \in Kinds : d = next[k] <=> k = KindOf(d) /\ d = next[KindOf(d)]
  BY DocFacts
<1>3. \A d \in Docs : \A k \in Kinds :
        d = active[k] <=> k = KindOf(d) /\ d = active[KindOf(d)]
  <2>1. CASE mode = "none"
    BY <2>1, DocFacts DEF StoreInv, NothingYet, NoPair
  <2>2. CASE mode # "none"
    BY <2>2, DocFacts DEF StoreInv, PointersAgree
  <2> QED BY <2>1, <2>2
<1>4. ASSUME NEW d \in Docs
      PROVE  /\ d = next[KindOf(d)] => rows'[d] = [rs[d] EXCEPT !.state = "active"]
             /\ d # next[KindOf(d)] /\ d = active[KindOf(d)] =>
                    rows'[d] = [rs[d] EXCEPT !.state = "superseded"]
             /\ d # next[KindOf(d)] /\ d # active[KindOf(d)] => rows'[d] = rs[d]
  BY <1>2, <1>3, DocFacts DEF Reactivated
<1>5. \A d \in Docs :
        /\ d = next[KindOf(d)] => rows'[d].state = "active"
        /\ d # next[KindOf(d)] /\ d = active[KindOf(d)] => rows'[d].state = "superseded"
        /\ rows'[d].normalized = rs[d].normalized
  <2>1. \A r \in Row, st \in States :
          /\ [r EXCEPT !.state = st].state = st
          /\ [r EXCEPT !.state = st].normalized = r.normalized
    BY DEF Row
  <2>2. "active" \in States /\ "superseded" \in States
    BY DEF States
  <2>3. ASSUME NEW d \in Docs
        PROVE  /\ d = next[KindOf(d)] => rows'[d].state = "active"
               /\ d # next[KindOf(d)] /\ d = active[KindOf(d)] =>
                     rows'[d].state = "superseded"
               /\ rows'[d].normalized = rs[d].normalized
    <3> DEFINE r == rs[d]
    <3>1. r \in Row OBVIOUS
    <3>2. CASE d = next[KindOf(d)]
      <4>1. rows'[d] = [r EXCEPT !.state = "active"] BY <1>4, <3>2
      <4> HIDE DEF r
      <4>2. rows'[d].state = "active" /\ rows'[d].normalized = r.normalized
        BY <2>1, <2>2, <3>1, <4>1
      <4> QED BY <3>2, <4>2 DEF r
    <3>3. CASE d # next[KindOf(d)] /\ d = active[KindOf(d)]
      <4>1. rows'[d] = [r EXCEPT !.state = "superseded"] BY <1>4, <3>3
      <4> HIDE DEF r
      <4>2. rows'[d].state = "superseded" /\ rows'[d].normalized = r.normalized
        BY <2>1, <2>2, <3>1, <4>1
      <4> QED BY <3>3, <4>2 DEF r
    <3>4. CASE d # next[KindOf(d)] /\ d # active[KindOf(d)] BY <1>4, <3>4
    <3> QED BY <3>2, <3>3, <3>4
  <2> QED BY <2>3
<1>6. \A d \in Docs : d = active[KindOf(d)] =>
        /\ rows[d].state = "active" /\ d \in Canonical
        /\ rs[d] = rows[d] /\ rows[d].normalized = NoDoc
  <2>1. CASE mode = "none"
    BY <2>1, DocFacts DEF StoreInv, NothingYet, NoPair
  <2>2. CASE mode # "none"
    BY <2>2, DocFacts DEF StoreInv, PointersAgree, QuietEdit, NormalizedRaw
  <2> QED BY <2>1, <2>2
<1>7. \A d \in Docs : rows[d].state = "active" => d = active[KindOf(d)]
  BY DocFacts DEF StoreInv, PointersAgree, NothingYet, NoRow
<1>8. PointersAgree'
  <2> SUFFICES ASSUME NEW k \in Kinds, NEW d \in DocsOf(k)
               PROVE  rows'[d].state = "active" <=> d = next[k]
    BY <1>0 DEF PointersAgree
  <2>1. d \in Docs /\ KindOf(d) = k BY DocFacts
  <2>2. CASE d = next[k] BY <1>5, <2>1, <2>2
  <2>3. CASE d # next[k] /\ d = active[k] BY <1>5, <2>1, <2>3
  <2>4. CASE d # next[k] /\ d # active[k]
    BY <1>4, <1>7, <2>1, <2>4 DEF QuietEdit
  <2> QED BY <2>2, <2>3, <2>4
<1>9. BundlesRecorded'
  <2>1. bundles'[g] = next BY <1>0
  <2>2. CASE mode = "none"
    BY <1>0, <2>1, <2>2 DEF StoreInv, NothingYet, BundlesRecorded
  <2>3. CASE mode # "none"
    <3>1. generation \in 1..g /\ generation # g /\ bundles'[generation] = active
      BY <1>0, <2>3 DEF StoreInv, BundlesRecorded
    <3> QED BY <1>0, <2>1, <3>1 DEF BundlesRecorded
  <2> QED BY <2>2, <2>3
<1>10. BundlesTyped'
  BY <1>0 DEF StoreInv, BundlesTyped
<1>11. NormalizedRaw'
  <2> SUFFICES ASSUME NEW d \in Docs, rows'[d].normalized # NoDoc
               PROVE  /\ d \in Valid \ Canonical
                      /\ rows'[d].normalized = Canon[d]
                      /\ rows'[d].state = "superseded"
    BY DEF NormalizedRaw
  <2>1. rs[d].normalized # NoDoc BY <1>5
  <2>2. d \in Valid \ Canonical /\ rs[d].normalized = Canon[d] /\ rs[d].state = "superseded"
    BY <2>1 DEF QuietEdit
  <2>3. d # next[KindOf(d)] /\ d # active[KindOf(d)]
    BY <1>6, <2>2, DocFacts
  <2> QED BY <1>4, <2>2, <2>3
<1>12. RollbackTargetsWereActive'
  <2> SUFFICES ASSUME NEW d \in Docs
               PROVE  EverActive(d)' <=>
                        \/ rows'[d].state = "active"
                        \/ rows'[d].state = "superseded" /\ rows'[d].normalized = NoDoc
    BY DEF RollbackTargetsWereActive, NormalizationInput
  <2>1. EverActive(d)' <=> EverActive(d) \/ d = next[KindOf(d)]
    <3>1. 1..generation' = (1..generation) \cup {g} /\ g \notin 1..generation
      BY <1>0
    <3> QED BY <1>0, <3>1 DEF EverActive
  <2>2. EverActive(d) <=> \/ rows[d].state = "active"
                          \/ rows[d].state = "superseded" /\ rows[d].normalized = NoDoc
    BY DEF StoreInv, RollbackTargetsWereActive, NormalizationInput
  <2>3. CASE d = next[KindOf(d)] BY <1>5, <2>1, <2>3
  <2>4. CASE d # next[KindOf(d)] /\ d = active[KindOf(d)]
    BY <1>5, <1>6, <2>1, <2>2, <2>4
  <2>5. CASE d # next[KindOf(d)] /\ d # active[KindOf(d)]
    BY <1>4, <1>7, <2>1, <2>2, <2>5, ZenonT(60) DEF QuietEdit
  <2> QED BY <2>3, <2>4, <2>5
<1> QED BY <1>1, <1>8, <1>9, <1>10, <1>11, <1>12 DEF StoreInv

LEMMA InstallStep ==
    ASSUME StoreInv, TypeOK', NEW c \in Canonical, mode # "none", Install(c)
    PROVE  StoreInv'
<1> DEFINE next == [active EXCEPT ![KindOf(c)] = c]
<1>1. /\ c \in Docs /\ KindOf(c) \in Kinds /\ c \in DocsOf(KindOf(c))
      /\ active \in [Kinds -> Docs]
      /\ \A k \in Kinds : active[k] \in DocsOf(k) \cap Canonical
  BY DocFacts DEF StoreInv, TypeOK, PointersAgree
<1>2. next \in [Kinds -> Docs] /\ \A k \in Kinds : next[k] \in DocsOf(k) \cap Canonical
  BY <1>1
<1>3. QuietEdit(rows, rows)
  BY DEF StoreInv, QuietEdit, NormalizedRaw
<1>4. rows' = Reactivated(rows, active, next)
  <2> DEFINE k == KindOf(c)
             a == active[k]
  <2>1. /\ a \in Docs /\ KindOf(a) = k /\ rows[a].state = "active"
        /\ rows' = [rows EXCEPT ![a].state = "superseded", ![c].state = "active"]
    BY <1>1, DocFacts DEF StoreInv, PointersAgree, Install
  <2>2. ASSUME NEW d \in Docs
        PROVE  rows'[d] = Reactivated(rows, active, next)[d]
    <3>0. rows[d] \in Row /\ rows \in [Docs -> Row] BY DEF StoreInv, TypeOK
    <3>1. CASE d = c
      <4>1. \E j \in Kinds : d = next[j] BY <1>1, <3>1
      <4>2. rows'[d] = [rows[d] EXCEPT !.state = "active"]
        BY <1>1, <2>1, <3>0, <3>1 DEF Row
      <4> QED BY <4>1, <4>2 DEF Reactivated
    <3>2. CASE d # c /\ d = a
      <4>1. ~ \E j \in Kinds : d = next[j] BY <1>1, <2>1, <3>2, DocFacts
      <4>2. \E j \in Kinds : d = active[j] BY <1>1, <3>2
      <4>3. rows'[d] = [rows[d] EXCEPT !.state = "superseded"]
        BY <1>1, <2>1, <3>0, <3>2
      <4> QED BY <4>1, <4>2, <4>3 DEF Reactivated
    <3>3. CASE d # c /\ d # a /\ \E j \in Kinds : d = active[j]
      <4>1. PICK j \in Kinds : d = active[j] BY <3>3
      <4>2. j # k /\ next[j] = d BY <1>1, <3>3, <4>1
      <4>3. rows[d].state = "active"
        BY <1>1, <4>1 DEF StoreInv, PointersAgree
      <4>4. [rows[d] EXCEPT !.state = "active"] = rows[d]
        BY <3>0, <4>3 DEF Row
      <4>5. rows'[d] = rows[d] BY <1>1, <2>1, <3>0, <3>3
      <4> QED BY <4>2, <4>4, <4>5 DEF Reactivated
    <3>4. CASE d # c /\ ~ \E j \in Kinds : d = active[j]
      <4>1. ~ \E j \in Kinds : d = next[j] BY <1>1, <3>4
      <4>2. rows'[d] = rows[d] BY <1>1, <2>1, <3>0, <3>4
      <4> QED BY <3>4, <4>1, <4>2 DEF Reactivated
    <3> QED BY <1>1, <3>1, <3>2, <3>3, <3>4
  <2> HIDE DEF next
  <2>3. DOMAIN rows' = Docs /\ rows' = [d \in Docs |-> rows'[d]]
    BY DEF TypeOK
  <2>4. Reactivated(rows, active, next) =
          [d \in Docs |-> Reactivated(rows, active, next)[d]]
    BY DEF Reactivated
  <2> QED BY <2>2, <2>3, <2>4
<1>5. Publish(next, generation + 1) /\ mode' # "none"
  BY DEF Install
<1>6. rows \in [Docs -> Row] BY DEF StoreInv, TypeOK
<1> HIDE DEF next
<1> QED BY <1>2, <1>3, <1>4, <1>5, <1>6, PublishStep

-----------------------------------------------------------------------------
(* The store under each group of actions.                                  *)

LEMMA StoreInit == Init => StoreInv
<1> SUFFICES ASSUME Init PROVE StoreInv
  OBVIOUS
<1>1. /\ mode = "none" /\ generation = 0 /\ active = NoPair
      /\ \A d \in Docs : rows[d] = NoRow
  BY DEF Init
<1>2. RollbackTargetsWereActive
  BY <1>1 DEF RollbackTargetsWereActive, EverActive, NoRow
<1> QED BY <1>1, <1>2, InitType DEF StoreInv, NothingYet, PointersAgree, BundlesRecorded,
       BundlesTyped, NormalizedRaw, NoRow

LEMMA SynchronizeStep ==
    ASSUME StoreInv, TypeOK', NEW p \in Packaged, NEW m \in Mounts,
           Bootstrap(p, m) \/ SyncLegacy(p, m)
    PROVE  StoreInv'
<1>1. /\ WithMounts(p, m) \in [Docs -> Row]
      /\ QuietEdit(rows, WithMounts(p, m))
      /\ m \in [Kinds -> Docs]
      /\ \A k \in Kinds : m[k] \in DocsOf(k) \cap Canonical
  BY WithMountsType, InsertQuiet, MountFacts DEF StoreInv
<1>2. CASE Bootstrap(p, m)
  <2>1. active = NoPair /\ generation + 1 = 1
    BY <1>2 DEF Bootstrap, StoreInv, NothingYet
  <2>2. /\ rows' = Reactivated(WithMounts(p, m), active, m)
        /\ Publish(m, generation + 1) /\ mode' # "none"
    BY <1>2, <2>1 DEF Bootstrap
  <2> QED BY <1>1, <2>2, PublishStep
<1>3. CASE SyncLegacy(p, m) /\ m = active
  <2>1. /\ QuietEdit(rows, rows') /\ mode # "none"
        /\ UNCHANGED stateVars
    BY <1>1, <1>3 DEF SyncLegacy, stateVars
  <2> QED BY <2>1, QuietStep
<1>4. CASE SyncLegacy(p, m) /\ m # active
  <2>1. /\ rows' = Reactivated(WithMounts(p, m), active, m)
        /\ Publish(m, generation + 1) /\ mode' # "none"
    BY <1>4 DEF SyncLegacy
  <2> QED BY <1>1, <2>1, PublishStep
<1> QED BY <1>2, <1>3, <1>4

LEMMA DiscoverShippedStep ==
    ASSUME StoreInv, TypeOK', NEW p \in Packaged, DiscoverShipped(p)
    PROVE  StoreInv'
<1>1. QuietEdit(rows, rows') /\ UNCHANGED stateVars /\ mode # "none"
  BY InsertQuiet DEF DiscoverShipped
<1> QED BY <1>1, QuietStep

LEMMA EditDraftStep ==
    ASSUME StoreInv, TypeOK', EditDraft
    PROVE  StoreInv'
<1>1. UNCHANGED stateVars
  BY ZenonT(60) DEF EditDraft, CreateDraft, RejectDraft, ValidateInPlace, ValidateByNormalizing
<1>2. mode # "none"
  <2> SUFFICES ASSUME mode = "none" PROVE FALSE
    OBVIOUS
  <2>1. \A d \in Docs : rows[d].state = "absent"
    BY DEF StoreInv, NothingYet, NoRow
  <2> QED BY <2>1 DEF EditDraft, CreateDraft, RejectDraft, ValidateInPlace,
         ValidateByNormalizing, Validatable
<1> QED BY <1>1, <1>2, EditDraftQuiet, QuietStep

LEMMA PreviewLeavesStore ==
    ASSUME Preview
    PROVE  UNCHANGED <<rows, stateVars, shippedVars>>
  BY DEF Preview, PreviewState, PreviewCandidate, PreviewActive, PreviewOther,
     PreviewRecord, PreviewFail

LEMMA StoreStep == StoreInv /\ [Next]_vars => StoreInv'
<1> SUFFICES ASSUME StoreInv, [Next]_vars PROVE StoreInv'
  OBVIOUS
<1>0. TypeOK' BY TypeStep DEF StoreInv
<1>1. CASE Synchronize BY <1>0, <1>1, SynchronizeStep DEF Synchronize
<1>2. ASSUME NEW p \in Packaged, DiscoverShipped(p) PROVE StoreInv'
  BY <1>0, <1>2, DiscoverShippedStep
<1>3. CASE EditDraft BY <1>0, <1>3, EditDraftStep
<1>4. CASE Preview \/ UNCHANGED vars
  <2>1. UNCHANGED <<rows, stateVars, shippedVars>>
    BY <1>4, PreviewLeavesStore DEF vars
  <2>2. \A d \in Docs : (EverActive(d)' <=> EverActive(d))
                       /\ (NormalizationInput(d)' <=> NormalizationInput(d))
    BY <2>1 DEF EverActive, NormalizationInput, stateVars
  <2> QED BY <1>0, <2>1, <2>2 DEF StoreInv, NothingYet, PointersAgree, BundlesRecorded,
         BundlesTyped, NormalizedRaw, RollbackTargetsWereActive, stateVars
<1>5. CASE ChangeBundle
  <2>1. PICK c \in Canonical : Install(c) BY <1>5, ChangeBundleInstalls DEF StoreInv
  <2> QED BY <1>0, <1>5, <2>1, ChangeBundleInstalls, InstallStep DEF StoreInv
<1> QED BY <1>1, <1>2, <1>3, <1>4, <1>5 DEF Next

-----------------------------------------------------------------------------
(* Generations are only ever added.                                        *)

LEMMA BundlesGrow ==
    ASSUME StoreInv, [Next]_vars
    PROVE  /\ generation' \in {generation, generation + 1}
           /\ active' # active => generation' = generation + 1
           /\ \A g \in 1..generation : bundles'[g] = bundles[g]
<1>0. generation \in Nat /\ generation' \in Nat
  BY TypeStep DEF StoreInv, TypeOK
<1>1. ASSUME NEW next, Publish(next, generation + 1)
      PROVE  /\ generation' = generation + 1
             /\ \A g \in 1..generation : bundles'[g] = bundles[g]
  BY <1>0, <1>1 DEF Publish
<1>2. CASE UNCHANGED stateVars
  BY <1>0, <1>2 DEF stateVars
<1>3. CASE Synchronize
  <2> PICK p \in Packaged, m \in Mounts : Bootstrap(p, m) \/ SyncLegacy(p, m)
    BY <1>3 DEF Synchronize
  <2>1. CASE Bootstrap(p, m)
    <3>1. generation + 1 = 1 BY <2>1 DEF Bootstrap, StoreInv, NothingYet
    <3>2. Publish(m, generation + 1) BY <2>1, <3>1 DEF Bootstrap
    <3> QED BY <1>1, <3>2
  <2>2. CASE SyncLegacy(p, m)
    <3>1. UNCHANGED stateVars \/ Publish(m, generation + 1)
      BY <2>2 DEF SyncLegacy, stateVars
    <3> QED BY <1>1, <1>2, <3>1
  <2> QED BY <2>1, <2>2
<1>4. CASE ChangeBundle
  <2> PICK c \in Canonical : Install(c) BY <1>4, ChangeBundleInstalls DEF StoreInv
  <2> QED BY <1>1 DEF Install
<1>5. CASE ~Synchronize /\ ~ChangeBundle
  <2>1. ASSUME UNCHANGED vars PROVE UNCHANGED stateVars BY <2>1 DEF vars, stateVars
  <2>2. ASSUME NEW p \in Packaged, DiscoverShipped(p) PROVE UNCHANGED stateVars
    BY <2>2 DEF DiscoverShipped
  <2>3. ASSUME EditDraft PROVE UNCHANGED stateVars
    BY <2>3, ZenonT(60) DEF EditDraft, CreateDraft, RejectDraft, ValidateInPlace,
           ValidateByNormalizing, stateVars
  <2>4. ASSUME Preview PROVE UNCHANGED stateVars BY <2>4, PreviewLeavesStore DEF stateVars
  <2>5. UNCHANGED stateVars BY <1>5, <2>1, <2>2, <2>3, <2>4 DEF Next, stateVars
  <2> QED BY <1>2, <2>5
<1> QED BY <1>3, <1>4, <1>5

-----------------------------------------------------------------------------
(* The evidence.                                                           *)

LEMMA CandidateCanonical ==
    ASSUME StoreInv, NEW d \in Docs, Candidate(d) \in Canonical
    PROVE  Candidate(d) = Canon[d]
  BY DocFacts DEF StoreInv, NormalizedRaw, Candidate, NormalizationInput, Canonical

LEMMA EvidenceInit == Init => PreviewPair /\ PreviewCanonical /\ EvidenceTruthful
  BY DEF Init, PreviewPair, PreviewCanonical, EvidenceTruthful, Idle, NoEvidence

LEMMA EvidenceKept ==
    ASSUME IInv, [Next]_vars, UNCHANGED <<evidence, session>>
    PROVE  PreviewPair' /\ PreviewCanonical' /\ EvidenceTruthful'
<1>1. /\ generation \in Nat /\ generation' \in Nat /\ generation' >= generation
      /\ \A g \in 1..generation : bundles'[g] = bundles[g]
  BY BundlesGrow, TypeStep DEF IInv, StoreInv, TypeOK
<1>2. \A d \in AssetDocs : evidence[d].gen \in Nat
  BY DEF IInv, StoreInv, TypeOK, Evidence
<1> QED BY <1>1, <1>2 DEF IInv, PreviewPair, PreviewCanonical, EvidenceTruthful

LEMMA EvidenceStep ==
    ASSUME IInv, Preview
    PROVE  PreviewPair' /\ PreviewCanonical' /\ EvidenceTruthful'
<1>0. /\ StoreInv /\ session \in [Sessions -> Session] /\ evidence \in [AssetDocs -> Evidence]
      /\ generation \in Nat
      /\ UNCHANGED <<rows, active, generation, bundles>>
  BY PreviewLeavesStore, SMTT(60) DEF IInv, StoreInv, TypeOK, stateVars
<1> PICK s \in Sessions :
        \/ \E d \in Docs, g \in 1..MaxGeneration : PreviewState(s, d, g)
        \/ PreviewCandidate(s)
        \/ PreviewActive(s)
        \/ \E sampled \in BOOLEAN : PreviewOther(s, sampled)
        \/ PreviewRecord(s)
        \/ PreviewFail(s)
  BY DEF Preview
<1> DEFINE old == session[s]
           new == session'[s]
<1>1. old \in Session /\ \A t \in Sessions \ {s} : session'[t] = session[t]
  BY <1>0 DEF PreviewState, PreviewCandidate, PreviewActive, PreviewOther, PreviewRecord,
              PreviewFail
<1>2. /\ new.pc \notin {"idle", "inconsistent"} =>
            /\ new.handle \in Docs
            /\ new.gen \in 1..generation /\ new.pair = bundles[new.gen]
      /\ new.pc \in {"active", "other", "record"} => new.candidate = Canon[new.handle]
  <2>1. ASSUME NEW d \in Docs, NEW g \in 1..MaxGeneration, PreviewState(s, d, g)
        PROVE  /\ new.pc = "resolve"
               /\ new.handle \in Docs
               /\ new.gen \in 1..generation /\ new.pair = bundles[new.gen]
    <3>1. new = [Idle EXCEPT !.pc = "resolve", !.handle = d, !.gen = g, !.pair = active]
      BY <1>0, <2>1 DEF PreviewState
    <3>2. g = generation /\ bundles[g] = active
      BY <1>0, <2>1 DEF PreviewState, StoreInv, BundlesRecorded
    <3>3. new.pc = "resolve" /\ new.handle = d /\ new.gen = g /\ new.pair = active
      BY <3>1 DEF Idle
    <3> QED BY <1>0, <3>2, <3>3
  <2>2. CASE PreviewCandidate(s)
    <3> DEFINE c == Candidate(old.handle)
    <3>1. new = IF c \in Canonical THEN [old EXCEPT !.pc = "active", !.candidate = c]
                                   ELSE Idle
      BY <1>0, <2>2 DEF PreviewCandidate
    <3>2. CASE c \in Canonical
      <4>1. old.handle \in Docs
        BY <2>2 DEF PreviewCandidate, IInv, PreviewPair
      <4>2. c = Canon[old.handle] BY <1>0, <3>2, <4>1, CandidateCanonical
      <4> HIDE DEF c
      <4>3. /\ new.pc = "active" /\ new.candidate = c /\ new.gen = old.gen
            /\ new.pair = old.pair /\ new.handle = old.handle
        BY <1>1, <3>1, <3>2 DEF Session
      <4>4. old.pc = "resolve" BY <2>2 DEF PreviewCandidate
      <4> QED BY <4>1, <4>2, <4>3, <4>4 DEF IInv, PreviewPair
    <3>3. CASE c \notin Canonical BY <3>1, <3>3 DEF Idle
    <3> QED BY <3>2, <3>3
  <2>3. CASE PreviewActive(s)
    <3>1. old.pc = "active" BY <2>3 DEF PreviewActive
    <3>2. \/ new = [Idle EXCEPT !.pc = "inconsistent"]
          \/ new = Idle
          \/ new = [old EXCEPT !.pc = "other"]
      BY <1>0, <2>3 DEF PreviewActive
    <3> QED BY <1>1, <3>1, <3>2 DEF IInv, PreviewPair, PreviewCanonical, Idle, Session
  <2>4. ASSUME NEW sampled \in BOOLEAN, PreviewOther(s, sampled)
        PROVE  /\ new.pc \notin {"idle", "inconsistent"} =>
                     /\ new.handle \in Docs
                     /\ new.gen \in 1..generation /\ new.pair = bundles[new.gen]
               /\ new.pc \in {"active", "other", "record"} =>
                     new.candidate = Canon[new.handle]
    <3>1. old.pc = "other" BY <2>4, ZenonT(60) DEF PreviewOther
    <3>2. \/ new = [Idle EXCEPT !.pc = "inconsistent"]
          \/ \E b : new = [old EXCEPT !.pc = "record", !.complete = b]
      BY <1>0, <2>4 DEF PreviewOther
    <3>3. CASE new = [Idle EXCEPT !.pc = "inconsistent"]
      BY <3>3 DEF Idle
    <3>4. CASE \E b : new = [old EXCEPT !.pc = "record", !.complete = b]
      <4>1. PICK b : new = [old EXCEPT !.pc = "record", !.complete = b] BY <3>4
      <4>2. /\ new.handle = old.handle /\ new.gen = old.gen /\ new.pair = old.pair
            /\ new.candidate = old.candidate
        BY <1>1, <4>1 DEF Session
      <4>3. /\ old.handle \in Docs /\ old.gen \in 1..generation
            /\ old.pair = bundles[old.gen] /\ old.candidate = Canon[old.handle]
        BY <3>1 DEF IInv, PreviewPair, PreviewCanonical
      <4> HIDE DEF old, new
      <4> QED BY <4>2, <4>3
    <3> HIDE DEF old, new
    <3> QED BY <3>2, <3>3, <3>4, ZenonT(60)
  <2>5. CASE PreviewRecord(s) \/ PreviewFail(s)
    BY <1>0, <2>5 DEF PreviewRecord, PreviewFail, Idle
  <2> HIDE DEF old, new
  <2> QED BY <2>1, <2>2, <2>3, <2>4, <2>5
<1>3. PreviewPair'
  <2> HIDE DEF old
  <2> QED BY <1>0, <1>1, <1>2, SMTT(60) DEF IInv, PreviewPair
<1>4. /\ \A d \in AssetDocs : evidence'[d].gen > 0 => evidence'[d].candidate = Canon[d]
      /\ EvidenceTruthful'
  <2>1. CASE UNCHANGED evidence
    BY <1>0, <2>1 DEF IInv, PreviewCanonical, EvidenceTruthful
  <2>2. CASE PreviewRecord(s) /\ old.gen = generation /\ old.handle \in AssetDocs
    <3> DEFINE e == [gen |-> old.gen, complete |-> old.complete,
                     policy |-> old.pair["prefilter_policy"],
                     against |-> old.pair["asset_inventory"],
                     candidate |-> old.candidate]
    <3>1. evidence' = [evidence EXCEPT ![old.handle] = e] /\ old.pc = "record"
      BY <2>2 DEF PreviewRecord
    <3>2. /\ old.pair = bundles[old.gen] /\ old.candidate = Canon[old.handle]
          /\ old.gen \in 1..generation
      BY <1>0, <3>1 DEF IInv, PreviewPair, PreviewCanonical
    <3>3. /\ e.candidate = Canon[old.handle] /\ e.gen <= generation
          /\ e.policy = bundles[e.gen]["prefilter_policy"]
          /\ e.against = bundles[e.gen]["asset_inventory"]
      BY <1>0, <3>2
    <3> HIDE DEF e, old
    <3>4. ASSUME NEW d \in AssetDocs, d # old.handle PROVE evidence'[d] = evidence[d]
      BY <1>0, <3>1, <3>4
    <3>5. evidence'[old.handle] = e BY <1>0, <2>2, <3>1
    <3> QED BY <1>0, <3>3, <3>4, <3>5 DEF IInv, PreviewCanonical, EvidenceTruthful
  <2> QED BY <2>1, <2>2 DEF PreviewState, PreviewCandidate, PreviewActive, PreviewOther,
         PreviewRecord, PreviewFail
<1>5. PreviewCanonical'
  <2> HIDE DEF old
  <2> QED BY <1>0, <1>1, <1>2, <1>4 DEF IInv, PreviewCanonical
<1> QED BY <1>3, <1>4, <1>5

-----------------------------------------------------------------------------
(* The theorems.                                                           *)

LEMMA Inductive == IInv /\ [Next]_vars => IInv'
<1> SUFFICES ASSUME IInv, [Next]_vars PROVE IInv'
  OBVIOUS
<1>1. StoreInv' BY StoreStep DEF IInv
<1>2. CASE Preview BY <1>1, <1>2, EvidenceStep DEF IInv
<1>3. CASE ~Preview
  <2>1. UNCHANGED <<evidence, session>>
    BY <1>3, ChangeBundleInstalls
       DEF IInv, StoreInv, Next, Synchronize, Bootstrap, SyncLegacy, DiscoverShipped,
           EditDraft, CreateDraft, RejectDraft, ValidateInPlace, ValidateByNormalizing,
           Install, vars, ChangeBundle, ActivateDraft, Rollback
  <2> QED BY <1>1, <2>1, EvidenceKept, SMTT(60) DEF IInv
<1> QED BY <1>2, <1>3

\* The store agrees with itself, previews in flight and evidence with the bundle
\* history, in every reachable state: the inductive invariant of the rest.
THEOREM InvariantHolds == Spec => []IInv
<1>1. Init => IInv BY StoreInit, EvidenceInit DEF IInv
<1> QED BY <1>1, Inductive, PTL DEF Spec

\* The singleton row and the revision states agree in every committed state.
THEOREM PointersCorrect == Spec => []PointersAgree
<1>1. IInv => PointersAgree BY DEF IInv, StoreInv
<1> QED BY <1>1, InvariantHolds, PTL

\* Every generation names its pair, and the previous pointers the pair before.
THEOREM BundlesCorrect == Spec => []BundlesRecorded
<1>1. IInv => BundlesRecorded BY DEF IInv, StoreInv
<1> QED BY <1>1, InvariantHolds, PTL

\* What rollback accepts is what the bundle history holds.
THEOREM RollbackCorrect == Spec => []RollbackTargetsWereActive
<1>1. IInv => RollbackTargetsWereActive BY DEF IInv, StoreInv
<1> QED BY <1>1, InvariantHolds, PTL

\* Preview evidence describes the pair of the generation it names, however many
\* previews and mutations interleave.
THEOREM EvidenceCorrect == Spec => []EvidenceTruthful
<1>1. IInv => EvidenceTruthful BY DEF IInv
<1> QED BY <1>1, InvariantHolds, PTL

\* Generations are named once, in order.
THEOREM BundlesNeverRenamed == Spec => BundlesAppendOnly
<1>1. IInv /\ [Next]_vars =>
        [/\ generation' \in {generation, generation + 1}
         /\ active' # active => generation' = generation + 1
         /\ \A g \in 1..generation : bundles'[g] = bundles[g]]_vars
  BY BundlesGrow DEF IInv
<1> QED BY <1>1, InvariantHolds, PTL DEF Spec, BundlesAppendOnly

\* No inventory replaces another under an asset-scoped policy, without the
\* acknowledgement, unless a complete preview compared these very documents.
THEOREM ActivationsAreInformed == Spec => AssetActivationInformed
<1>1. ASSUME IInv, NEW d \in AssetDocs, NEW g \in 1..MaxGeneration,
             NEW acks \in SUBSET (Acks \ {"incomplete_preview"}),
             ActivateDraft(d, g, acks), active["prefilter_policy"] \in AssetScoped
      PROVE  /\ evidence[d].complete
             /\ evidence[d].policy = active["prefilter_policy"]
             /\ evidence[d].against = active["asset_inventory"]
             /\ evidence[d].candidate = active'["asset_inventory"]
  <2> DEFINE c == Candidate(d)
  <2>1. /\ d \in Docs /\ KindOf(d) = "asset_inventory" /\ c \in Canonical
        /\ g = generation /\ RequiredAcks(c, rows[d].base, d, g) \subseteq acks
        /\ Install(c)
    BY <1>1, DocsAssumption DEF Docs, KindOf, ActivateDraft
  <2>2. c = Canon[d] BY <1>1, <2>1, CandidateCanonical DEF IInv
  <2>3. KindOf(c) = "asset_inventory" /\ c \in AssetDocs
    <3>1. d \in Valid
      BY <1>1, <2>1, DocFacts
         DEF IInv, StoreInv, NormalizedRaw, Candidate, NormalizationInput, Canonical
    <3>2. KindOf(c) = KindOf(d) /\ c \in Docs
      BY <2>1, <2>2, <3>1, CanonFacts, DocFacts
    <3> QED BY <2>1, <3>2 DEF KindOf, Docs
  <2>4. CompletePreview(d, g)
    BY <1>1, <2>1, <2>3 DEF RequiredAcks, Acks
  <2>5. /\ bundles[generation] = active /\ generation > 0
        /\ active \in [Kinds -> Docs \cup {NoDoc}]
    BY <1>1 DEF IInv, StoreInv, BundlesRecorded, ActivateDraft, TypeOK
  <2>6. /\ evidence[d].complete /\ evidence[d].gen = generation
        /\ evidence[d].policy = active["prefilter_policy"]
        /\ evidence[d].against = active["asset_inventory"]
        /\ evidence[d].candidate = Canon[d]
    BY <1>1, <2>1, <2>4, <2>5 DEF CompletePreview, IInv, EvidenceTruthful, PreviewCanonical
  <2>7. active'["asset_inventory"] = c
    BY <2>1, <2>3, <2>5 DEF Install, Publish, Kinds
  <2> QED BY <2>2, <2>6, <2>7
<1>2. IInv /\ [Next]_vars =>
        [\A d \in AssetDocs, g \in 1..MaxGeneration,
            acks \in SUBSET (Acks \ {"incomplete_preview"}) :
          /\ ActivateDraft(d, g, acks)
          /\ active["prefilter_policy"] \in AssetScoped
          => /\ evidence[d].complete
             /\ evidence[d].policy = active["prefilter_policy"]
             /\ evidence[d].against = active["asset_inventory"]
             /\ evidence[d].candidate = active'["asset_inventory"]]_vars
  BY <1>1
<1> QED BY <1>2, InvariantHolds, PTL DEF Spec, AssetActivationInformed

-----------------------------------------------------------------------------
(* Lineage, and the authority of the database.                             *)

\* No row of rs is lost in rt, nor is its origin rewritten.
KeepsOrigin(rs, rt) ==
    \A d \in Docs : rs[d].state # "absent" =>
        /\ rt[d].state # "absent"
        /\ rt[d].parent = rs[d].parent
        /\ rt[d].base = rs[d].base
        /\ rt[d].source = rs[d].source

LEMMA OriginKeptTransitive ==
    ASSUME NEW r1, NEW r2, NEW r3, KeepsOrigin(r1, r2), KeepsOrigin(r2, r3)
    PROVE  KeepsOrigin(r1, r3)
  BY DEF KeepsOrigin

LEMMA InsertKeepsOrigin ==
    ASSUME NEW rs \in [Docs -> Row], NEW d, NEW source, NEW base
    PROVE  KeepsOrigin(rs, InsertIgnore(rs, d, source, base))
  BY DEF KeepsOrigin, InsertIgnore

LEMMA WithMountsKeepOrigin ==
    ASSUME TypeOK, NEW p \in Packaged, NEW m \in Mounts
    PROVE  /\ KeepsOrigin(rows, InsertShipped(p))
           /\ KeepsOrigin(rows, WithMounts(p, m))
<1> DEFINE r1 == InsertShipped(p)
           r2 == InsertIgnore(r1, m["prefilter_policy"], "operator_import", p)
           r3 == InsertIgnore(r2, m["asset_inventory"], "operator_import", NoDoc)
<1>1. r1 \in [Docs -> Row] /\ r2 \in [Docs -> Row]
  BY WithMountsType, InsertIgnoreType, MountFacts, InputAssumption, DocFacts
     DEF Docs, Sources
<1>2. KeepsOrigin(rows, r1) BY InsertKeepsOrigin DEF InsertShipped, TypeOK
<1>3. KeepsOrigin(r1, r2) /\ KeepsOrigin(r2, r3) BY <1>1, InsertKeepsOrigin
<1>4. KeepsOrigin(rows, r3)
  <2> HIDE DEF r1, r2, r3
  <2> QED BY <1>2, <1>3, OriginKeptTransitive
<1> QED BY <1>2, <1>4 DEF WithMounts

LEMMA ReactivatedKeepsOrigin ==
    ASSUME NEW rs \in [Docs -> Row], NEW old, NEW next
    PROVE  KeepsOrigin(rs, Reactivated(rs, old, next))
<1> SUFFICES ASSUME NEW d \in Docs, rs[d].state # "absent"
    PROVE  LET r == Reactivated(rs, old, next)[d] IN
           /\ r.state # "absent" /\ r.parent = rs[d].parent
           /\ r.base = rs[d].base /\ r.source = rs[d].source
  BY DEF KeepsOrigin
<1> rs[d] \in Row OBVIOUS
<1> QED BY DEF Reactivated, Row

LEMMA EditDraftKeepsOrigin ==
    ASSUME TypeOK, EditDraft
    PROVE  KeepsOrigin(rows, rows')
<1>0. rows \in [Docs -> Row] BY DEF TypeOK
<1>1. ASSUME NEW d \in Docs, NEW parent \in Docs, NEW g \in 1..MaxGeneration,
             CreateDraft(d, parent, g)
      PROVE  KeepsOrigin(rows, rows')
  BY <1>0, <1>1 DEF CreateDraft, KeepsOrigin
<1>2. ASSUME NEW d \in Docs, RejectDraft(d) \/ ValidateInPlace(d)
      PROVE  KeepsOrigin(rows, rows')
  BY <1>0, <1>2 DEF RejectDraft, ValidateInPlace, KeepsOrigin, Row
<1>3. ASSUME NEW d \in Docs, ValidateByNormalizing(d)
      PROVE  KeepsOrigin(rows, rows')
  <2> DEFINE c == Canon[d]
  <2>1. c \in Docs /\ c # d
    BY <1>3, CanonFacts, DocFacts DEF ValidateByNormalizing, Canonical
  <2>2. /\ rows'[c] = CanonicalRow(d)
        /\ rows'[d] = [rows[d] EXCEPT !.state = "superseded", !.normalized = c]
        /\ \A e \in Docs \ {d, c} : rows'[e] = rows[e]
    BY <1>0, <1>3, <2>1 DEF ValidateByNormalizing
  <2>3. rows[d] \in Row /\ rows[c] \in Row BY <1>0, <2>1
  <2>4. rows[c].state # "absent" =>
          /\ rows'[c].state # "absent"
          /\ rows'[c].parent = rows[c].parent
          /\ rows'[c].base = rows[c].base
          /\ rows'[c].source = rows[c].source
    BY <2>2, <2>3 DEF CanonicalRow, Row
  <2>5. /\ rows'[d].state # "absent"
        /\ rows'[d].parent = rows[d].parent
        /\ rows'[d].base = rows[d].base
        /\ rows'[d].source = rows[d].source
    BY <2>2, <2>3 DEF Row
  <2> HIDE DEF c
  <2> QED BY <2>2, <2>4, <2>5 DEF KeepsOrigin
<1> QED BY <1>1, <1>2, <1>3 DEF EditDraft

LEMMA StepKeepsOrigin ==
    ASSUME TypeOK, [Next]_vars
    PROVE  KeepsOrigin(rows, rows')
<1>0. rows \in [Docs -> Row] BY DEF TypeOK
<1>1. CASE UNCHANGED rows BY <1>1 DEF KeepsOrigin
<1>2. CASE Synchronize
  <2> PICK p \in Packaged, m \in Mounts : Bootstrap(p, m) \/ SyncLegacy(p, m)
    BY <1>2 DEF Synchronize
  <2>1. \/ rows' = WithMounts(p, m)
        \/ \E old : rows' = Reactivated(WithMounts(p, m), old, m)
    BY DEF Bootstrap, SyncLegacy
  <2> QED BY <2>1, WithMountsType, WithMountsKeepOrigin, ReactivatedKeepsOrigin,
             OriginKeptTransitive
<1>3. ASSUME NEW p \in Packaged, DiscoverShipped(p) PROVE KeepsOrigin(rows, rows')
  BY <1>0, <1>3, InsertKeepsOrigin DEF DiscoverShipped, InsertShipped
<1>4. CASE EditDraft BY <1>4, EditDraftKeepsOrigin, SMTT(60)
<1>5. CASE Preview
  BY <1>1, <1>5 DEF Preview, PreviewState, PreviewCandidate, PreviewActive, PreviewOther,
        PreviewRecord, PreviewFail
<1>6. CASE ChangeBundle
  <2> PICK c \in Canonical : Install(c) BY <1>6, ChangeBundleInstalls
  <2> QED BY <1>0 DEF Install, KeepsOrigin, Row
<1> QED BY <1>1, <1>2, <1>3, <1>4, <1>5, <1>6 DEF Next, vars

\* Where a revision came from is never rewritten, by any operation.
THEOREM LineageKept == Spec => LineageImmutable
<1>1. TypeOK /\ [Next]_vars =>
        [\A d \in Docs : rows[d].state # "absent" =>
            /\ rows'[d].state # "absent"
            /\ rows'[d].parent = rows[d].parent
            /\ rows'[d].base = rows[d].base
            /\ rows'[d].source = rows[d].source]_vars
  BY StepKeepsOrigin DEF KeepsOrigin
<1> QED BY <1>1, TypeCorrect, PTL DEF Spec, LineageImmutable

\* A start in database mode at most inserts the row of its image's default.
LEMMA StartIsQuiet ==
    ASSUME TypeOK, mode = "database",
           Synchronize \/ (\E p \in Packaged : DiscoverShipped(p))
    PROVE  /\ UNCHANGED stateVars
           /\ \A d \in Docs : rows'[d] # rows[d] =>
                   rows[d].state = "absent" /\ d = packaged'
<1>1. PICK p \in Packaged : DiscoverShipped(p)
  BY DEF Synchronize, Bootstrap, SyncLegacy
<1>2. rows' = InsertIgnore(rows, p, "shipped", p) /\ packaged' = p
  BY <1>1 DEF DiscoverShipped, RecordShipped, InsertShipped
<1>3. \A d \in Docs : rows'[d] # rows[d] => rows[d].state = "absent" /\ d = p
  BY <1>2 DEF InsertIgnore, TypeOK
<1> QED BY <1>1, <1>2, <1>3 DEF DiscoverShipped

LEMMA AuthorityStep ==
    ASSUME [Next]_vars, mode = "database"
    PROVE  /\ mode' = "database"
           /\ active' # active \/ generation' # generation => ChangeBundle
<1>1. CASE UNCHANGED vars BY <1>1 DEF vars, stateVars
<1>2. ASSUME NEW p \in Packaged, DiscoverShipped(p)
      PROVE  UNCHANGED stateVars
  BY <1>2 DEF DiscoverShipped
<1>3. CASE EditDraft
  BY <1>3, ZenonT(60) DEF EditDraft, CreateDraft, RejectDraft, ValidateInPlace,
         ValidateByNormalizing, stateVars
<1>4. CASE Preview
  BY <1>4, ZenonT(60) DEF Preview, PreviewState, PreviewCandidate, PreviewActive,
         PreviewOther, PreviewRecord, PreviewFail, stateVars
<1>5. CASE ChangeBundle
  BY <1>5 DEF ChangeBundle, ActivateDraft, Rollback, Install
<1>6. ~Synchronize BY DEF Synchronize, Bootstrap, SyncLegacy
<1> QED BY <1>1, <1>2, <1>3, <1>4, <1>5, <1>6 DEF Next, stateVars

\* Under database authority only an operator changes the active pair, and a
\* restart over any mounts leaves the mode, the pair and every stored row alone.
THEOREM AuthorityKept == Spec => DatabaseAuthority
<1>1. TypeOK /\ [Next]_vars =>
        [mode = "database" =>
            /\ mode' = "database"
            /\ active' # active \/ generation' # generation => ChangeBundle
            /\ Synchronize \/ (\E p \in Packaged : DiscoverShipped(p)) =>
                /\ UNCHANGED stateVars
                /\ \A d \in Docs : rows'[d] # rows[d] =>
                        rows[d].state = "absent" /\ d = packaged']_vars
  BY AuthorityStep, StartIsQuiet
<1> QED BY <1>1, TypeCorrect, PTL DEF Spec, DatabaseAuthority

-----------------------------------------------------------------------------
(* What a resubmission resumes.                                            *)

\* Only canonical content is ever marked validated.
ValidatedCanonical ==
    \A d \in Docs : rows[d].state = "validated" => d \in Canonical

\* No row of rt became validated but canonical ones.
ValidatesCanonical(rs, rt) ==
    \A d \in Docs :
        rt[d].state = "validated" => rs[d].state = "validated" \/ d \in Canonical

LEMMA InsertValidates ==
    ASSUME NEW rs \in [Docs -> Row], NEW d \in Canonical, NEW source, NEW base
    PROVE  ValidatesCanonical(rs, InsertIgnore(rs, d, source, base))
<1> SUFFICES ASSUME NEW e \in Docs, e # d
    PROVE  InsertIgnore(rs, d, source, base)[e] = rs[e]
  BY DEF ValidatesCanonical
<1> QED BY DEF InsertIgnore

LEMMA WithMountsValidate ==
    ASSUME TypeOK, NEW p \in Packaged, NEW m \in Mounts
    PROVE  ValidatesCanonical(rows, WithMounts(p, m))
<1> DEFINE r1 == InsertShipped(p)
           r2 == InsertIgnore(r1, m["prefilter_policy"], "operator_import", p)
           r3 == InsertIgnore(r2, m["asset_inventory"], "operator_import", NoDoc)
<1>1. r1 \in [Docs -> Row] /\ r2 \in [Docs -> Row]
  BY WithMountsType, InsertIgnoreType, MountFacts, InputAssumption, DocFacts
     DEF Docs, Sources
<1>2. /\ p \in Canonical
      /\ m["prefilter_policy"] \in Canonical
      /\ m["asset_inventory"] \in Canonical
  BY InputAssumption, MountFacts DEF Kinds
<1>3. ValidatesCanonical(rows, r1)
  BY <1>2, InsertValidates DEF InsertShipped, TypeOK
<1>4. ValidatesCanonical(r1, r2) /\ ValidatesCanonical(r2, r3)
  BY <1>1, <1>2, InsertValidates
<1>5. ValidatesCanonical(rows, r3)
  <2> HIDE DEF r1, r2, r3
  <2> QED BY <1>3, <1>4 DEF ValidatesCanonical
<1> QED BY <1>5 DEF WithMounts

LEMMA ReactivatedValidates ==
    ASSUME NEW rs \in [Docs -> Row], NEW old, NEW next
    PROVE  ValidatesCanonical(rs, Reactivated(rs, old, next))
<1> SUFFICES ASSUME NEW d \in Docs, Reactivated(rs, old, next)[d].state = "validated"
    PROVE  rs[d].state = "validated"
  BY DEF ValidatesCanonical
<1> rs[d] \in Row OBVIOUS
<1> QED BY DEF Reactivated, Row

LEMMA EditDraftValidates ==
    ASSUME TypeOK, EditDraft
    PROVE  ValidatesCanonical(rows, rows')
<1>0. rows \in [Docs -> Row] BY DEF TypeOK
<1>1. ASSUME NEW d \in Docs, NEW parent \in Docs, NEW g \in 1..MaxGeneration,
             CreateDraft(d, parent, g)
      PROVE  ValidatesCanonical(rows, rows')
  BY <1>0, <1>1 DEF CreateDraft, ValidatesCanonical
<1>2. ASSUME NEW d \in Docs, RejectDraft(d) PROVE ValidatesCanonical(rows, rows')
  BY <1>0, <1>2 DEF RejectDraft, ValidatesCanonical, Row
<1>3. ASSUME NEW d \in Docs, ValidateInPlace(d) PROVE ValidatesCanonical(rows, rows')
  <2>1. d \in Canonical /\ \A e \in Docs \ {d} : rows'[e] = rows[e]
    BY <1>0, <1>3 DEF ValidateInPlace
  <2> QED BY <2>1 DEF ValidatesCanonical
<1>4. ASSUME NEW d \in Docs, ValidateByNormalizing(d)
      PROVE  ValidatesCanonical(rows, rows')
  <2>1. Canon[d] \in Canonical /\ d # Canon[d] /\ Canon[d] \in Docs
    BY <1>4, CanonFacts, DocFacts DEF ValidateByNormalizing, Canonical
  <2>2. /\ rows'[d].state = "superseded"
        /\ \A e \in Docs \ {d, Canon[d]} : rows'[e] = rows[e]
    BY <1>0, <1>4, <2>1 DEF ValidateByNormalizing, Row
  <2> QED BY <2>1, <2>2 DEF ValidatesCanonical
<1> QED BY <1>1, <1>2, <1>3, <1>4 DEF EditDraft

LEMMA ValidatedStep ==
    ASSUME TypeOK, [Next]_vars, ValidatedCanonical
    PROVE  ValidatedCanonical'
<1>0. rows \in [Docs -> Row] BY DEF TypeOK
<1> SUFFICES ValidatesCanonical(rows, rows')
  BY DEF ValidatedCanonical, ValidatesCanonical
<1>1. CASE UNCHANGED rows BY <1>1 DEF ValidatesCanonical
<1>2. CASE Synchronize
  <2> PICK p \in Packaged, m \in Mounts : Bootstrap(p, m) \/ SyncLegacy(p, m)
    BY <1>2 DEF Synchronize
  <2>1. \/ rows' = WithMounts(p, m)
        \/ \E old : rows' = Reactivated(WithMounts(p, m), old, m)
    BY DEF Bootstrap, SyncLegacy
  <2>2. ASSUME NEW old, rows' = Reactivated(WithMounts(p, m), old, m)
        PROVE  ValidatesCanonical(rows, rows')
    <3>1. ValidatesCanonical(WithMounts(p, m), rows')
      BY <2>2, WithMountsType, ReactivatedValidates
    <3> QED BY <3>1, WithMountsValidate DEF ValidatesCanonical
  <2> QED BY <2>1, <2>2, WithMountsValidate
<1>3. ASSUME NEW p \in Packaged, DiscoverShipped(p) PROVE ValidatesCanonical(rows, rows')
  BY <1>0, <1>3, InputAssumption, InsertValidates DEF DiscoverShipped, InsertShipped
<1>4. CASE EditDraft BY <1>4, EditDraftValidates, SMTT(60)
<1>5. CASE Preview
  BY <1>1, <1>5 DEF Preview, PreviewState, PreviewCandidate, PreviewActive, PreviewOther,
        PreviewRecord, PreviewFail
<1>6. CASE ChangeBundle
  <2> PICK c \in Canonical : Install(c) BY <1>6, ChangeBundleInstalls
  <2> QED BY <1>0 DEF Install, ValidatesCanonical, Row
<1> QED BY <1>1, <1>2, <1>3, <1>4, <1>5, <1>6 DEF Next, vars

LEMMA ResumeFromStore ==
    ASSUME StoreInv, ValidatedCanonical
    PROVE  ResumeKeepsLineage
<1> SUFFICES ASSUME NEW d \in Docs, NEW h \in Resumable(d, active[KindOf(d)])
    PROVE  /\ rows[h].parent = active[KindOf(h)]
           /\ h # d => Canon[h] = d
           /\ rows[h].state = "draft" \/ Candidate(h) \in Canonical
  BY DEF ResumeKeepsLineage
<1>0. rows \in [Docs -> Row] /\ NormalizedRaw BY DEF StoreInv, TypeOK
\* A normalization input stands for the canonical form of its document.
<1>1. ASSUME NEW e \in Docs, NormalizationInput(e)
      PROVE  /\ rows[e].normalized = Canon[e]
             /\ Candidate(e) \in Canonical
             /\ KindOf(Canon[e]) = KindOf(e)
  <2>1. /\ rows[e].normalized = Canon[e] /\ rows[e].state = "superseded"
        /\ e \in Valid
    BY <1>0, <1>1 DEF NormalizationInput, NormalizedRaw
  <2>2. Candidate(e) = Canon[e]
    BY <1>1, <2>1 DEF Candidate
  <2> QED BY <2>1, <2>2, CanonFacts
<1>2. CASE /\ h = d
           /\ rows[d].parent = active[KindOf(d)]
           /\ rows[d].state \in {"draft", "validated"} \/ NormalizationInput(d)
  <2>1. rows[d].state = "validated" => Candidate(d) \in Canonical
    BY DEF Candidate, ValidatedCanonical
  <2> QED BY <1>1, <1>2, <2>1
<1>3. CASE h \in HandlesFor(d, active[KindOf(d)])
  <2>1. /\ h \in Docs /\ NormalizationInput(h)
        /\ rows[h].normalized = d /\ rows[h].parent = active[KindOf(d)]
    BY <1>3 DEF HandlesFor
  <2> QED BY <1>1, <2>1
<1> QED BY <1>2, <1>3 DEF Resumable

\* A resubmitted document only ever resumes a handle raised from the revision
\* that is active now, standing for that very document.
THEOREM ResumeCorrect == Spec => []ResumeKeepsLineage
<1>1. Init => ValidatedCanonical BY DEF Init, ValidatedCanonical, NoRow
<1>2. IInv => TypeOK /\ StoreInv BY DEF IInv, StoreInv
<1>3. TypeOK /\ [Next]_vars /\ ValidatedCanonical => ValidatedCanonical' BY ValidatedStep
<1>4. StoreInv /\ ValidatedCanonical => ResumeKeepsLineage BY ResumeFromStore
<1> QED BY <1>1, <1>2, <1>3, <1>4, InvariantHolds, PTL DEF Spec
=============================================================================
