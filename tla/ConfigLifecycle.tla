--------------------------- MODULE ConfigLifecycle ---------------------------
(***************************************************************************)
(* The durable operator-configuration lifecycle: the tables                *)
(* operator_config_revisions and operator_config_state, the serialized     *)
(* bootstrap / legacy synchronization of operator_config.py and the        *)
(* create / validate / preview / activate / rollback operations of         *)
(* config_repository.py.                                                   *)
(*                                                                         *)
(* (kind, revision) is UNIQUE and the revision is the digest of the stored *)
(* document, so a revision row is identified by its document.  Every       *)
(* mutation runs under BEGIN IMMEDIATE and is one step; a preview reads in *)
(* autocommit mode and takes one step per read.  A refused mutation rolls  *)
(* back and leaves these tables alone: it is a step that is not enabled.   *)
(***************************************************************************)
EXTENDS Naturals

CONSTANTS
    PrefilterDocs,  \* documents of kind prefilter_policy
    AssetDocs,      \* documents of kind asset_inventory
    NoDoc,          \* NULL in a revision column
    Valid,          \* documents the production parsers accept
    Canon,          \* canonicalize_document on the valid ones
    Broad,          \* policies with an unscoped, signature-only rule
    AssetScoped,    \* policies with a rule that reads asset context
    Packaged,       \* defaults an installed image may package
    MountDocs,      \* canonical documents the legacy mounts may hold
    Sessions,       \* requests that may be inside a preview at one time
    MaxGeneration   \* bound on the number of bundle generations

Docs == PrefilterDocs \cup AssetDocs
Kinds == {"prefilter_policy", "asset_inventory"}
DocsOf(k) == IF k = "prefilter_policy" THEN PrefilterDocs ELSE AssetDocs
KindOf(d) == IF d \in PrefilterDocs THEN "prefilter_policy" ELSE "asset_inventory"
OtherKind(k) == IF k = "prefilter_policy" THEN "asset_inventory" ELSE "prefilter_policy"

\* Documents whose stored form is the form the production parser writes back.
Canonical == {d \in Valid : Canon[d] = d}

ASSUME DocsAssumption ==
    /\ PrefilterDocs \cap AssetDocs = {}
    /\ NoDoc \notin Docs
    /\ Valid \subseteq Docs

ASSUME CanonAssumption ==
    /\ Canon \in [Valid -> Valid]
    /\ \A d \in Valid : Canon[Canon[d]] = Canon[d]
    /\ \A k \in Kinds : \A d \in Valid \cap DocsOf(k) : Canon[d] \in DocsOf(k)

ASSUME InputAssumption ==
    /\ Packaged \subseteq Canonical \cap PrefilterDocs
    /\ MountDocs \subseteq Canonical
    /\ MaxGeneration \in Nat

States == {"absent", "draft", "validated", "active", "superseded", "rejected"}
Sources == {"shipped", "operator_import", "operator", "none"}
Acks == {"broad_rules", "shipped_base", "incomplete_preview"}

\* One revision row.  "normalized" is the normalized_revision_id that
\* validation leaves in the row's validation_json.
Row == [state : States, source : Sources, parent : Docs \cup {NoDoc},
        base : Docs \cup {NoDoc}, normalized : Docs \cup {NoDoc}]

\* The newest draft_previewed audit row of an asset handle: the generation and
\* completeness it recorded, and the documents the preview compared.
Evidence == [gen : Nat, complete : BOOLEAN, policy : Docs \cup {NoDoc},
             against : Docs \cup {NoDoc}, candidate : Docs \cup {NoDoc}]

\* A preview request between two of its reads.  "pair" is the state row it read
\* first, "compared" the documents of the active rows it has read since.
Session == [pc : {"idle", "resolve", "active", "other", "record", "inconsistent"},
            handle : Docs \cup {NoDoc}, gen : Nat,
            pair : [Kinds -> Docs \cup {NoDoc}],
            candidate : Docs \cup {NoDoc}, complete : BOOLEAN]

VARIABLES
    rows,           \* operator_config_revisions
    active,         \* active_*_revision_id of the singleton state row
    previous,       \* previous_*_revision_id
    mode,           \* "none" until the singleton row exists
    generation,
    newestShipped,  \* the shipped baseline the activation guard compares with
    discovered,     \* revisions with a shipped_revision_discovered audit row
    packaged,       \* the default the last synchronization read from its image
    evidence,       \* newest preview audit row per asset handle
    bundles,        \* the pair each generation was committed with (audit rows)
    session

stateVars == <<active, previous, mode, generation, bundles>>
shippedVars == <<newestShipped, discovered, packaged>>
vars == <<rows, stateVars, shippedVars, evidence, session>>

NoRow == [state |-> "absent", source |-> "none", parent |-> NoDoc,
          base |-> NoDoc, normalized |-> NoDoc]
NoEvidence == [gen |-> 0, complete |-> FALSE, policy |-> NoDoc,
               against |-> NoDoc, candidate |-> NoDoc]
NoPair == [k \in Kinds |-> NoDoc]
Idle == [pc |-> "idle", handle |-> NoDoc, gen |-> 0, pair |-> NoPair,
         candidate |-> NoDoc, complete |-> FALSE]

Init ==
    /\ rows = [d \in Docs |-> NoRow]
    /\ active = NoPair
    /\ previous = NoPair
    /\ mode = "none"
    /\ generation = 0
    /\ newestShipped = NoDoc
    /\ discovered = {}
    /\ packaged = NoDoc
    /\ evidence = [d \in AssetDocs |-> NoEvidence]
    /\ bundles = [g \in 1..0 |-> NoPair]
    /\ session = [s \in Sessions |-> Idle]

-----------------------------------------------------------------------------
(* Bootstrap and legacy synchronization (operator_config.py).              *)

\* INSERT OR IGNORE: an existing row keeps its state, source and lineage.
InsertIgnore(rs, d, source, base) ==
    IF rs[d].state = "absent"
    THEN [rs EXCEPT ![d] = [NoRow EXCEPT !.state = "validated",
                                         !.source = source, !.base = base]]
    ELSE rs

InsertShipped(p) == InsertIgnore(rows, p, "shipped", p)

\* A packaged default not yet on record as shipped.
NewlyShipped(p) ==
    \/ rows[p].state = "absent"
    \/ rows[p].source # "shipped" /\ p \notin discovered

\* The shipped_revision_discovered audit row of a database that already exists.
RecordShipped(p) ==
    /\ packaged' = p
    /\ IF NewlyShipped(p)
       THEN discovered' = discovered \cup {p} /\ newestShipped' = p
       ELSE UNCHANGED <<discovered, newestShipped>>

\* The rows after the packaged default p and the mounted pair m are on record.
WithMounts(p, m) ==
    InsertIgnore(
        InsertIgnore(InsertShipped(p), m["prefilter_policy"], "operator_import", p),
        m["asset_inventory"], "operator_import", NoDoc)

\* Mutant: the replaced revision keeps its active state.
ReactivatedWithoutSuperseding(rs, old, next) ==
    [d \in Docs |->
        IF \E k \in Kinds : d = next[k] THEN [rs[d] EXCEPT !.state = "active"]
        ELSE rs[d]]

\* The rows once "next" is the active pair instead of "old".
Reactivated(rs, old, next) ==
    [d \in Docs |->
        IF \E k \in Kinds : d = next[k] THEN [rs[d] EXCEPT !.state = "active"]
        ELSE IF \E k \in Kinds : d = old[k] THEN [rs[d] EXCEPT !.state = "superseded"]
        ELSE rs[d]]

\* Mutant: the previous pointers are read after the new pair is written.
PublishForgettingPrevious(next, g) ==
    /\ active' = next
    /\ previous' = next
    /\ generation' = g
    /\ bundles' = [i \in 1..g |-> IF i = g THEN next ELSE bundles[i]]

\* Mutant: the audit row of the commit is forgotten.
PublishWithoutRecord(next, g) ==
    /\ active' = next
    /\ previous' = active
    /\ generation' = g
    /\ UNCHANGED bundles

\* Mutant: the generation is not advanced.
PublishInPlace(next, g) ==
    LET i == IF generation = 0 THEN g ELSE generation IN
    /\ active' = next
    /\ previous' = active
    /\ generation' = i
    /\ bundles' = [j \in 1..i |-> IF j = i THEN next ELSE bundles[j]]

\* Commit "next" as the pair of generation g.
Publish(next, g) ==
    /\ active' = next
    /\ previous' = active
    /\ generation' = g
    /\ bundles' = [i \in 1..g |-> IF i = g THEN next ELSE bundles[i]]

Mounts == {m \in [Kinds -> MountDocs] : \A k \in Kinds : m[k] \in DocsOf(k)}

Bootstrap(p, m) ==
    /\ mode = "none"
    /\ MaxGeneration >= 1
    /\ rows' = Reactivated(WithMounts(p, m), NoPair, m)
    /\ Publish(m, 1)
    /\ mode' = "legacy"
    /\ newestShipped' = p
    /\ packaged' = p
    /\ UNCHANGED <<discovered, evidence, session>>

\* Mutant: synchronization does not look at the authority mode.
SyncAnyMode(p, m) ==
    /\ mode # "none"
    /\ RecordShipped(p)
    /\ m # active
    /\ generation < MaxGeneration
    /\ rows' = Reactivated(WithMounts(p, m), active, m)
    /\ Publish(m, generation + 1)
    /\ UNCHANGED <<mode, evidence, session>>

\* Any later start while the mounts are authoritative.
SyncLegacy(p, m) ==
    /\ mode = "legacy"
    /\ RecordShipped(p)
    /\ IF m = active
       THEN /\ rows' = WithMounts(p, m)
            /\ UNCHANGED <<active, previous, generation, bundles>>
       ELSE /\ generation < MaxGeneration
            /\ rows' = Reactivated(WithMounts(p, m), active, m)
            /\ Publish(m, generation + 1)
    /\ UNCHANGED <<mode, evidence, session>>

\* A later start of the bootstrap owner once the database is authoritative.  A
\* consumer start reads no file then and changes nothing.
DiscoverShipped(p) ==
    /\ mode = "database"
    /\ RecordShipped(p)
    /\ rows' = InsertShipped(p)
    /\ UNCHANGED <<stateVars, evidence, session>>

-----------------------------------------------------------------------------
(* Drafts and validation (config_repository.py).                           *)

NormalizationInput(d) ==
    /\ rows[d].state = "superseded"
    /\ rows[d].normalized # NoDoc

\* Mutant: the parent is not part of the handle lookup.
HandlesForAnyParent(c, parent) ==
    {h \in Docs : NormalizationInput(h) /\ rows[h].normalized = c}

\* A submitted draft raised from "parent" that validation normalized to c.  The
\* code takes the newest one; which one it is makes no difference to the state.
HandlesFor(c, parent) ==
    {h \in Docs : NormalizationInput(h) /\ rows[h].normalized = c
                    /\ rows[h].parent = parent}

\* The lifecycle handles a resubmission of document d may resume.
Resumable(d, parent) ==
    IF /\ rows[d].parent = parent
       /\ rows[d].state \in {"draft", "validated"} \/ NormalizationInput(d)
    THEN {d}
    ELSE IF rows[d].state \in {"validated", "superseded"}
         THEN HandlesFor(d, parent)
         ELSE {}

\* A new document becomes a draft of the active revision its author named.  A
\* document already on record is resumed or refused and changes no row.
CreateDraft(d, parent, g) ==
    /\ mode # "none"
    /\ g = generation
    /\ parent = active[KindOf(d)]
    /\ rows[parent].state = "active" /\ parent \in Canonical
    /\ rows[d].state = "absent"
    /\ rows' = [rows EXCEPT ![d] = [NoRow EXCEPT !.state = "draft",
                                                 !.source = "operator",
                                                 !.parent = parent,
                                                 !.base = rows[parent].base]]
    /\ UNCHANGED <<stateVars, shippedVars, evidence, session>>

Validatable(d) == rows[d].state \in {"draft", "validated"}

RejectDraft(d) ==
    /\ Validatable(d)
    /\ d \notin Valid
    /\ rows' = [rows EXCEPT ![d].state = "rejected"]
    /\ UNCHANGED <<stateVars, shippedVars, evidence, session>>

ValidateInPlace(d) ==
    /\ Validatable(d)
    /\ d \in Canonical
    /\ rows' = [rows EXCEPT ![d].state = "validated"]
    /\ UNCHANGED <<stateVars, shippedVars, evidence, session>>

\* Mutant: reused canonical content is always marked validated.
CanonicalRowRevalidated(d) ==
    IF rows[Canon[d]].state = "absent"
    THEN [rows[d] EXCEPT !.state = "validated", !.source = "operator"]
    ELSE [rows[Canon[d]] EXCEPT !.state = "validated"]

\* Mutant: reused canonical content takes over the draft's lineage.
CanonicalRowAdopted(d) ==
    IF rows[Canon[d]].state = "absent"
    THEN [rows[d] EXCEPT !.state = "validated", !.source = "operator"]
    ELSE [rows[Canon[d]] EXCEPT !.parent = rows[d].parent, !.base = rows[d].base]

\* The canonical content may be new, may still await validation, or may be a
\* revision with a life of its own, whose state and lineage are kept.
CanonicalRow(d) ==
    LET known == rows[Canon[d]] IN
    IF known.state = "absent"
    THEN [rows[d] EXCEPT !.state = "validated", !.source = "operator"]
    ELSE IF known.state \in {"draft", "rejected"}
         THEN [known EXCEPT !.state = "validated"]
         ELSE known

ValidateByNormalizing(d) ==
    /\ rows[d].state = "draft"
    /\ d \in Valid \ Canonical
    /\ rows' = [rows EXCEPT ![Canon[d]] = CanonicalRow(d),
                            ![d].state = "superseded",
                            ![d].normalized = Canon[d]]
    /\ UNCHANGED <<stateVars, shippedVars, evidence, session>>

\* The content row a lifecycle handle stands for, or NoDoc.
Candidate(d) ==
    IF rows[d].state = "validated" THEN d
    ELSE IF NormalizationInput(d) THEN rows[d].normalized
    ELSE NoDoc

-----------------------------------------------------------------------------
(* Preview: unlocked reads, then one locked write of the evidence.         *)

\* Mutant: the caller's generation is recorded without being compared.
PreviewStateUnchecked(s, d, g) ==
    /\ session[s].pc = "idle"
    /\ mode # "none"
    /\ rows[d].state # "absent"
    /\ session' = [session EXCEPT ![s] =
                    [Idle EXCEPT !.pc = "resolve", !.handle = d, !.gen = g,
                                 !.pair = active]]
    /\ UNCHANGED <<rows, stateVars, shippedVars, evidence>>

PreviewState(s, d, g) ==
    /\ session[s].pc = "idle"
    /\ mode # "none"
    /\ rows[d].state # "absent"
    /\ g = generation
    /\ session' = [session EXCEPT ![s] =
                    [Idle EXCEPT !.pc = "resolve", !.handle = d, !.gen = g,
                                 !.pair = active]]
    /\ UNCHANGED <<rows, stateVars, shippedVars, evidence>>

PreviewCandidate(s) ==
    /\ session[s].pc = "resolve"
    /\ LET c == Candidate(session[s].handle) IN
       session' = [session EXCEPT ![s] =
                    IF c \in Canonical THEN [@ EXCEPT !.pc = "active", !.candidate = c]
                                       ELSE Idle]
    /\ UNCHANGED <<rows, stateVars, shippedVars, evidence>>

\* A pointer whose row is no longer active is reported as corrupt storage.
PreviewActive(s) ==
    /\ session[s].pc = "active"
    /\ LET h == session[s].handle
           a == session[s].pair[KindOf(h)]
       IN session' = [session EXCEPT ![s] =
                       IF rows[a].state # "active" THEN [Idle EXCEPT !.pc = "inconsistent"]
                       ELSE IF rows[h].parent # a THEN Idle
                       ELSE [@ EXCEPT !.pc = "other"]]
    /\ UNCHANGED <<rows, stateVars, shippedVars, evidence>>

\* The active document of the other kind, and the sample: an asset preview is
\* complete when no active rule reads asset context or the sample was.
PreviewOther(s, sampled) ==
    /\ session[s].pc = "other"
    /\ LET h == session[s].handle
           o == session[s].pair[OtherKind(KindOf(h))]
       IN session' = [session EXCEPT ![s] =
                       IF rows[o].state # "active" THEN [Idle EXCEPT !.pc = "inconsistent"]
                       ELSE [@ EXCEPT !.pc = "record",
                                      !.complete = \/ h \notin AssetDocs
                                                   \/ o \notin AssetScoped
                                                   \/ sampled]]
    /\ UNCHANGED <<rows, stateVars, shippedVars, evidence>>

\* Only the newest evidence of an asset handle is ever read back.
PreviewRecord(s) ==
    /\ session[s].pc = "record"
    /\ LET r == session[s] IN
       evidence' = IF r.gen = generation /\ r.handle \in AssetDocs
                   THEN [evidence EXCEPT ![r.handle] =
                          [gen |-> r.gen, complete |-> r.complete,
                           policy |-> r.pair["prefilter_policy"],
                           against |-> r.pair["asset_inventory"],
                           candidate |-> r.candidate]]
                   ELSE evidence
    /\ session' = [session EXCEPT ![s] = Idle]
    /\ UNCHANGED <<rows, stateVars, shippedVars>>

PreviewFail(s) ==
    /\ session[s].pc = "inconsistent"
    /\ session' = [session EXCEPT ![s] = Idle]
    /\ UNCHANGED <<rows, stateVars, shippedVars, evidence>>

-----------------------------------------------------------------------------
(* Activation and rollback.                                                *)

\* Mutant: evidence of any generation counts.
CompletePreviewEver(handle, g) == handle # NoDoc /\ evidence[handle].complete

CompletePreview(handle, g) ==
    /\ handle # NoDoc
    /\ evidence[handle].complete
    /\ evidence[handle].gen = g

\* The acknowledgements installing c needs; "base" is the shipped base of the
\* submitted handle, "handle" the one whose preview counts.
RequiredAcks(c, base, handle, g) ==
    {a \in Acks :
        \/ /\ a = "incomplete_preview"
           /\ c \in AssetDocs
           /\ active["prefilter_policy"] \in AssetScoped
           /\ ~CompletePreview(handle, g)
        \/ a = "broad_rules" /\ c \in Broad
        \/ a = "shipped_base" /\ c \in PrefilterDocs /\ base # newestShipped}

\* _activate_revision_locked: swap the two states, move the pointers, and leave
\* legacy authority for good.
Install(c) ==
    LET k == KindOf(c) IN
    /\ rows' = [rows EXCEPT ![active[k]].state = "superseded", ![c].state = "active"]
    /\ Publish([active EXCEPT ![k] = c], generation + 1)
    /\ mode' = "database"
    /\ UNCHANGED <<shippedVars, evidence, session>>

ActivateDraft(d, g, acks) ==
    LET c == Candidate(d) IN
    /\ mode # "none"
    /\ g = generation /\ generation < MaxGeneration
    /\ c \in Canonical
    /\ c # active[KindOf(d)]
    /\ rows[d].parent = active[KindOf(d)]
    /\ RequiredAcks(c, rows[d].base, d, g) \subseteq acks
    /\ Install(c)

Rollback(c, g, acks) ==
    /\ mode = "database"
    /\ g = generation /\ generation < MaxGeneration
    /\ rows[c].state = "superseded"
    /\ ~NormalizationInput(c)
    /\ c \in Canonical
    /\ RequiredAcks(c, rows[c].base, NoDoc, g) \subseteq acks
    /\ Install(c)

-----------------------------------------------------------------------------
Synchronize == \E p \in Packaged, m \in Mounts : Bootstrap(p, m) \/ SyncLegacy(p, m)

EditDraft ==
    \E d \in Docs :
        \/ \E parent \in Docs, g \in 1..MaxGeneration : CreateDraft(d, parent, g)
        \/ RejectDraft(d)
        \/ ValidateInPlace(d)
        \/ ValidateByNormalizing(d)

Preview ==
    \E s \in Sessions :
        \/ \E d \in Docs, g \in 1..MaxGeneration : PreviewState(s, d, g)
        \/ PreviewCandidate(s)
        \/ PreviewActive(s)
        \/ \E sampled \in BOOLEAN : PreviewOther(s, sampled)
        \/ PreviewRecord(s)
        \/ PreviewFail(s)

ChangeBundle ==
    \E d \in Docs, g \in 1..MaxGeneration, acks \in SUBSET Acks :
        ActivateDraft(d, g, acks) \/ Rollback(d, g, acks)

Next ==
    \/ Synchronize
    \/ \E p \in Packaged : DiscoverShipped(p)
    \/ EditDraft
    \/ Preview
    \/ ChangeBundle

Spec == Init /\ [][Next]_vars

-----------------------------------------------------------------------------
(* Properties.                                                             *)

\* Every variable has its declared shape: the rows follow schema.sql, a session
\* is between two reads of preview_draft.
TypeOK ==
    /\ rows \in [Docs -> Row]
    /\ active \in [Kinds -> Docs \cup {NoDoc}]
    /\ previous \in [Kinds -> Docs \cup {NoDoc}]
    /\ mode \in {"none", "legacy", "database"}
    /\ generation \in 0..MaxGeneration
    /\ newestShipped \in Docs \cup {NoDoc}
    /\ discovered \subseteq Docs
    /\ packaged \in Docs \cup {NoDoc}
    /\ evidence \in [AssetDocs -> Evidence]
    /\ bundles \in [1..generation -> [Kinds -> Docs \cup {NoDoc}]]
    /\ session \in [Sessions -> Session]

\* The singleton row and the revision states never disagree: per kind exactly
\* the row the pointer names is active, and its content is canonical, so that
\* no committed state makes a reader report an inconsistent pointer
\* (synchronize_legacy_configuration, validate_draft, _activate_revision_locked).
PointersAgree ==
    mode # "none" =>
        \A k \in Kinds :
            /\ active[k] \in DocsOf(k) \cap Canonical
            /\ \A d \in DocsOf(k) : rows[d].state = "active" <=> d = active[k]

\* The generation names the active pair, and the previous pointers name the
\* pair of the generation before it, after a mirror of both mounts as after an
\* activation of one kind.
BundlesRecorded ==
    mode # "none" =>
        /\ generation \in Nat \ {0}
        /\ bundles[generation] = active
        /\ previous = IF generation = 1 THEN NoPair ELSE bundles[generation - 1]

EverActive(d) == \E g \in 1..generation : bundles[g][KindOf(d)] = d

\* A superseded revision that is not a normalization input was active in some
\* generation, and a revision that was active never becomes a candidate again:
\* what rollback_revision accepts is exactly what the bundle history holds.
RollbackTargetsWereActive ==
    \A d \in Docs :
        EverActive(d) <=> \/ rows[d].state = "active"
                          \/ rows[d].state = "superseded" /\ ~NormalizationInput(d)

\* What a resubmission resumes was raised from the active revision, stands for
\* the document resubmitted, and is a live handle of the lifecycle
\* (_resumable_revision, _handle_for_canonical_revision).
ResumeKeepsLineage ==
    mode # "none" =>
        \A d \in Docs : \A h \in Resumable(d, active[KindOf(d)]) :
            /\ rows[h].parent = active[KindOf(h)]
            /\ h # d => Canon[h] = d
            /\ rows[h].state = "draft" \/ Candidate(h) \in Canonical

\* The evidence of an asset preview describes the pair of the generation it
\* names, although its reads ran unlocked between other operators' commits.
EvidenceTruthful ==
    \A d \in AssetDocs : evidence[d].gen > 0 =>
        /\ evidence[d].gen <= generation
        /\ evidence[d].policy = bundles[evidence[d].gen]["prefilter_policy"]
        /\ evidence[d].against = bundles[evidence[d].gen]["asset_inventory"]

\* Without the incomplete-preview acknowledgement, an inventory goes live under
\* an asset-scoped policy only when a complete preview compared that very
\* inventory with the one it replaces under the policy now in force.
AssetActivationInformed ==
    [][\A d \in AssetDocs, g \in 1..MaxGeneration,
          acks \in SUBSET (Acks \ {"incomplete_preview"}) :
        /\ ActivateDraft(d, g, acks)
        /\ active["prefilter_policy"] \in AssetScoped
        => /\ evidence[d].complete
           /\ evidence[d].policy = active["prefilter_policy"]
           /\ evidence[d].against = active["asset_inventory"]
           /\ evidence[d].candidate = active'["asset_inventory"]]_vars

\* Content and lineage of a revision are written once: no validation, reuse,
\* rediscovery, activation or rollback rewrites where a row came from.
LineageImmutable ==
    [][\A d \in Docs : rows[d].state # "absent" =>
        /\ rows'[d].state # "absent"
        /\ rows'[d].parent = rows[d].parent
        /\ rows'[d].base = rows[d].base
        /\ rows'[d].source = rows[d].source]_vars

\* Once an activation has moved authority to the database, the active pair and
\* the generation change by an operator's activation or rollback alone, and
\* never back to mount authority.  A restart, whatever its mounts hold by then
\* and whatever revisions the operators replaced since, leaves the pair, the
\* history and every stored row as they are, and at most puts the default of
\* its image on record (synchronize_legacy_configuration).
DatabaseAuthority ==
    [][mode = "database" =>
        /\ mode' = "database"
        /\ active' # active \/ generation' # generation => ChangeBundle
        /\ Synchronize \/ (\E p \in Packaged : DiscoverShipped(p)) =>
            /\ UNCHANGED stateVars
            /\ \A d \in Docs : rows'[d] # rows[d] =>
                    rows[d].state = "absent" /\ d = packaged']_vars

\* A generation is named once and never renamed.
BundlesAppendOnly ==
    [][/\ generation' \in {generation, generation + 1}
       /\ active' # active => generation' = generation + 1
       /\ \A g \in 1..generation : bundles'[g] = bundles[g]]_vars

=============================================================================
