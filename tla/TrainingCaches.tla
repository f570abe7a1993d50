--------------------------- MODULE TrainingCaches ---------------------------
(***************************************************************************)
(* The cached steps of one training run, prepare_training_frame in         *)
(* trainer_hightier/trainer.py: the cleaned bets of all players (`base`),  *)
(* their projection on the players of the run's policy (`entity`), and the *)
(* walk-away labels of those.  Each artefact lies at one path that all     *)
(* runs share and is rewritten in place; beside it, or in a directory per  *)
(* policy, lies a manifest written afterwards, by which a later run        *)
(* decides to use the artefact again.                                      *)
(*                                                                         *)
(* A run reads the exports of one snapshot directory.  New exports may come *)
(* at any time, also while a run reads them; between runs the trainer may   *)
(* be pointed at any directory, or a backup be put back, so what the next   *)
(* run reads may be what some earlier run read.  A run may end between any  *)
(* two steps: killed, or by an exception such as DuckDB's out of memory.    *)
(***************************************************************************)
EXTENDS Integers

CONSTANTS
    Policies,       \* selected quantiles
    NBuckets,       \* dedup_hash_buckets of the bet cleaning
    MayIgnore,      \* whether runs may be started with --ignore-caches
    MaxVersions, MaxBuilds, MaxStops   \* bounds of the model

ASSUME CachesAssumption ==
    /\ NBuckets \in Nat \ {0}
    /\ MayIgnore \in BOOLEAN
    /\ MaxVersions \in Nat /\ MaxBuilds \in Nat /\ MaxStops \in Nat

VARIABLES
    source,      \* version of the exports that the present or the next run reads
    versions,    \* the exports there have been: each version has new content and stats
    builds,      \* files written so far, which gives each its modification time
    base,        \* cleaned__gmwds_t_bet_base: bucket -> file, for the files there
    sidecar,     \* its .cache.json
    orphaned,    \* history: the base that the sidecar was written for has been removed
    entity,      \* cleaned__gmwds_t_bet, whatever policy it was made for
    manifests,   \* entity set manifests: policy -> manifest
    labels,      \* the labels parquet
    labelKeys,   \* the entity set fingerprints that have a labels manifest
    pc,          \* where the run is
    run,         \* policy, caches used or not, hashed source of the run
    staged,      \* bucket -> version read into the temporary directory
    settled,     \* history: the last run that ended well, if no run since read other exports
    stops        \* model bound

disk == <<base, sidecar, entity, manifests, labels, labelKeys>>
vars == <<source, versions, builds, disk, orphaned, pc, run, staged, settled, stops>>

Buckets == 1 .. NBuckets

None == [none |-> TRUE]
Nothing == [b \in {} |-> 0]

-----------------------------------------------------------------------------
(* The decisions to use an artefact again.                                 *)

\* Mutant: the record identifies the cleaning code but not its sources.
BaseRecordMutantNoSource(fp, stat) == [fp |-> 0, stat |-> 0]
\* build_bet_base_clean_cache_record: content fingerprint of the exports, hashed
\* when the run began, and the files' stats, read when the record is made.
BaseRecord(fp, stat) == [fp |-> fp, stat |-> stat]

\* bet_base_clean_cache_is_hit; use_preprocess_caches
BaseHit(r) ==
    /\ r.useCache
    /\ base # Nothing
    /\ sidecar = BaseRecord(r.fp, source)

\* The manifest of an entity set: source fingerprint and the fingerprint of the
\* base, which is one of its files' names, sizes and modification times.
EntityRecord(r, files) == [fp |-> r.fp, base |-> files]

\* entity_set_cache_is_hit
EntityHit(r) ==
    /\ r.useCache
    /\ entity # None
    /\ manifests[r.policy] = EntityRecord(r, base)

\* entity_set_policy_fingerprint_sha256_hex
LabelKey(r, files) == [policy |-> r.policy, record |-> EntityRecord(r, files)]

\* labels_cache_is_hit
LabelsHit(r) ==
    /\ r.useCache
    /\ labels # None
    /\ LabelKey(r, base) \in labelKeys

-----------------------------------------------------------------------------
Init ==
    /\ source = 1 /\ versions = 1 /\ builds = 0
    /\ base = Nothing /\ sidecar = None /\ orphaned = FALSE
    /\ entity = None /\ manifests = [p \in Policies |-> None]
    /\ labels = None /\ labelKeys = {}
    /\ pc = "idle" /\ run = None /\ staged = Nothing
    /\ settled = None /\ stops = 0

\* What a run that ended well leaves settled.
Settled(r) == [policy |-> r.policy, version |-> r.fp]

\* New exports come, also while a run reads the directory they come to.
Replace ==
    /\ versions < MaxVersions
    /\ versions' = versions + 1
    /\ source' = versions'
    /\ UNCHANGED <<builds, disk, orphaned, pc, run, staged, settled, stops>>

\* --partition-snapshot-dir names another directory for the next run, or a backup is
\* put back with its modification times: exports that are not new.
OtherSnapshot(v) ==
    /\ pc = "idle"
    /\ source' = v
    /\ UNCHANGED <<versions, builds, disk, orphaned, pc, run, staged, settled, stops>>

\* A run starts and hashes the exports in its directory: materialize_source_manifest_v2_phase1.
Begin(p, useCache) ==
    /\ pc = "idle"
    /\ run' = [policy |-> p, useCache |-> useCache, fp |-> source]
    /\ pc' = "base"
    /\ settled' = IF useCache /\ settled = Settled(run') THEN settled ELSE None
    /\ UNCHANGED <<source, versions, builds, disk, orphaned, staged, stops>>

BaseReuse ==
    /\ pc = "base" /\ BaseHit(run)
    /\ pc' = "entity"
    /\ UNCHANGED <<source, versions, builds, disk, orphaned, run, staged, settled,
                   stops>>

\* Mutant: the manifest is written first.
BaseClearMutantRecords ==
    /\ pc = "base" /\ ~BaseHit(run)
    /\ builds < MaxBuilds
    /\ base' = Nothing /\ orphaned' = (sidecar # None)
    /\ sidecar' = BaseRecord(run.fp, source)
    /\ builds' = builds + 1
    /\ pc' = "stage"
    /\ UNCHANGED <<source, versions, entity, manifests, labels, labelKeys, run, staged,
                   settled, stops>>
\* preprocess_bets_from_parquet_streaming removes the old directory first; the sidecar
\* beside it stays until a new one is written.
BaseClear ==
    /\ pc = "base" /\ ~BaseHit(run)
    /\ builds < MaxBuilds
    /\ base' = Nothing /\ orphaned' = (sidecar # None)
    /\ builds' = builds + 1
    /\ pc' = "stage"
    /\ UNCHANGED <<source, versions, sidecar, entity, manifests, labels, labelKeys, run,
                   staged, settled, stops>>

\* One bucket is read and cleaned into the temporary directory.
Stage(b) ==
    /\ pc = "stage"
    /\ b \notin DOMAIN staged /\ 1 .. b - 1 \subseteq DOMAIN staged
    /\ staged' = [c \in DOMAIN staged \cup {b} |-> IF c = b THEN source ELSE staged[c]]
    /\ pc' = IF DOMAIN staged' = Buckets THEN "move" ELSE "stage"
    /\ UNCHANGED <<source, versions, builds, disk, orphaned, run, settled, stops>>

\* A moved file: its content, and its modification time in the fingerprint.
File(b) == [version |-> staged[b], build |-> builds]

\* _consolidate_staged_bucket_partition_dirs moves its files to the final place.
Move(b) ==
    /\ pc = "move"
    /\ b \notin DOMAIN base /\ 1 .. b - 1 \subseteq DOMAIN base
    /\ base' = [c \in DOMAIN base \cup {b} |->
                  IF c = b THEN File(b) ELSE base[c]]
    /\ pc' = IF DOMAIN base' = Buckets THEN "sidecar" ELSE "move"
    /\ staged' = IF pc' = "sidecar" THEN Nothing ELSE staged
    /\ UNCHANGED <<source, versions, builds, sidecar, orphaned, entity, manifests,
                   labels, labelKeys, run, settled, stops>>

\* Mutant: a sidecar that is there is kept.
WriteSidecarMutantKeep ==
    /\ pc = "sidecar"
    /\ sidecar' = IF sidecar = None THEN BaseRecord(run.fp, source) ELSE sidecar
    /\ orphaned' = FALSE
    /\ pc' = "entity"
    /\ UNCHANGED <<source, versions, builds, base, entity, manifests, labels, labelKeys,
                   run, staged, settled, stops>>
\* write_bet_base_clean_cache_manifest
WriteSidecar ==
    /\ pc = "sidecar"
    /\ sidecar' = BaseRecord(run.fp, source) /\ orphaned' = FALSE
    /\ pc' = "entity"
    /\ UNCHANGED <<source, versions, builds, base, entity, manifests, labels, labelKeys,
                   run, staged, settled, stops>>

EntityReuse ==
    /\ pc = "entity" /\ EntityHit(run)
    /\ pc' = "labels"
    /\ UNCHANGED <<source, versions, builds, disk, orphaned, run, staged, settled,
                   stops>>

\* What the projection of the base files on policy p gives; `whole` is FALSE for
\* the months a COPY that was cut off had written.
Projection(p, files, whole) == [policy |-> p, base |-> files, whole |-> whole]

\* _copy_entity_set_to_output clears the directory and copies into it.
EntityCopy ==
    /\ pc = "entity" /\ ~EntityHit(run)
    /\ entity' = Projection(run.policy, base, FALSE)
    /\ pc' = "copying"
    /\ UNCHANGED <<source, versions, builds, base, sidecar, orphaned, manifests, labels,
                   labelKeys, run, staged, settled, stops>>

EntityCopied ==
    /\ pc = "copying"
    /\ entity' = Projection(run.policy, base, TRUE)
    /\ pc' = "manifest"
    /\ UNCHANGED <<source, versions, builds, base, sidecar, orphaned, manifests, labels,
                   labelKeys, run, staged, settled, stops>>

WriteManifest ==
    /\ pc = "manifest"
    /\ manifests' = [manifests EXCEPT ![run.policy] = EntityRecord(run, base)]
    /\ pc' = "labels"
    /\ UNCHANGED <<source, versions, builds, base, sidecar, orphaned, entity, labels,
                   labelKeys, run, staged, settled, stops>>

LabelsReuse ==
    /\ pc = "labels" /\ LabelsHit(run)
    /\ pc' = "done"
    /\ UNCHANGED <<source, versions, builds, disk, orphaned, run, staged, settled,
                   stops>>

\* The labels of the bets in the entity set, and a file cut off in the writing.
LabelsOf(rows) == [of |-> rows, whole |-> TRUE]
TornLabels == [of |-> None, whole |-> FALSE]

\* write_walkaway_labels_from_joined_dataframe rewrites the file in place.
LabelsWrite ==
    /\ pc = "labels" /\ ~LabelsHit(run)
    /\ labels' = TornLabels
    /\ pc' = "writing"
    /\ UNCHANGED <<source, versions, builds, base, sidecar, orphaned, entity, manifests,
                   labelKeys, run, staged, settled, stops>>

LabelsWritten ==
    /\ pc = "writing"
    /\ labels' = LabelsOf(entity)
    /\ pc' = "key"
    /\ UNCHANGED <<source, versions, builds, base, sidecar, orphaned, entity, manifests,
                   labelKeys, run, staged, settled, stops>>

WriteLabelKey ==
    /\ pc = "key"
    /\ labelKeys' = labelKeys \cup {LabelKey(run, base)}
    /\ pc' = "done"
    /\ UNCHANGED <<source, versions, builds, base, sidecar, orphaned, entity, manifests,
                   labels, run, staged, settled, stops>>

\* The training frame is built from the artefacts and the run is over.
Finish ==
    /\ pc = "done"
    /\ settled' = IF source = run.fp THEN Settled(run) ELSE None
    /\ pc' = "idle"
    /\ run' = None
    /\ UNCHANGED <<source, versions, builds, disk, orphaned, staged, stops>>

\* The run ends in the middle.  The temporary directory goes with it.
Stop ==
    /\ pc # "idle"
    /\ stops < MaxStops
    /\ stops' = stops + 1
    /\ pc' = "idle"
    /\ run' = None /\ staged' = Nothing
    /\ settled' = IF source = run.fp THEN settled ELSE None
    /\ UNCHANGED <<source, versions, builds, disk, orphaned>>

Next ==
    \/ Replace
    \/ \E v \in 1 .. versions : OtherSnapshot(v)
    \/ \E p \in Policies, useCache \in BOOLEAN : (useCache \/ MayIgnore) /\ Begin(p, useCache)
    \/ BaseReuse \/ BaseClear \/ WriteSidecar
    \/ \E b \in Buckets : Stage(b) \/ Move(b)
    \/ EntityReuse \/ EntityCopy \/ EntityCopied \/ WriteManifest
    \/ LabelsReuse \/ LabelsWrite \/ LabelsWritten \/ WriteLabelKey
    \/ Finish \/ Stop

Spec == Init /\ [][Next]_vars

-----------------------------------------------------------------------------
(* Properties.                                                             *)

Files == [version : Nat, build : Nat]
IsBase(files) == DOMAIN files \subseteq Buckets /\ files \in [DOMAIN files -> Files]
IsRecord(m) == m = None \/ (DOMAIN m = {"fp", "base"} /\ m.fp \in Nat /\ IsBase(m.base))
IsEntity(e) ==
    e = None \/ (/\ DOMAIN e = {"policy", "base", "whole"}
                 /\ e.policy \in Policies /\ IsBase(e.base) /\ e.whole \in BOOLEAN)

\* Type correctness of the exports, the artefacts on disk and the run.
TypeOK ==
    /\ versions \in Nat /\ source \in Nat /\ builds \in Nat /\ stops \in Nat
    /\ IsBase(base) /\ sidecar \in {None} \cup [fp : Nat, stat : Nat] /\ orphaned \in BOOLEAN
    /\ IsEntity(entity)
    /\ DOMAIN manifests = Policies /\ \A p \in Policies : IsRecord(manifests[p])
    /\ labels = None \/ labels = TornLabels
         \/ (labels = LabelsOf(labels.of) /\ IsEntity(labels.of))
    /\ \A k \in labelKeys : DOMAIN k = {"policy", "record"} /\ IsRecord(k.record)
    /\ pc \in {"idle", "base", "stage", "move", "sidecar", "entity", "copying", "manifest",
              "labels", "writing", "key", "done"}
    /\ run = None \/ run \in [policy : Policies, useCache : BOOLEAN, fp : Nat]
    /\ DOMAIN staged \subseteq Buckets /\ staged \in [DOMAIN staged -> Nat]
    /\ settled \in {None} \cup [policy : Policies, version : Nat]

\* The base holds every bucket as it is in the exports now.
BaseIsFresh == DOMAIN base = Buckets /\ \A b \in Buckets : base[b].version = source

\* A run that ends well, on exports that did not change under it, has the artefacts
\* that a run without any cache would have built, whatever earlier runs on whatever
\* exports left behind: mixed bases, half copies, manifests older than their
\* artefacts.  One case is excepted, for the base only: it may have been used again
\* under a sidecar older than a rebuild that was cut off, which matches when the
\* exports have come back or --ignore-caches made the rebuild.  (Cache Redesign -
\* SSOT: when the identity of the source is not certain there is no silent reuse.)
FreshOutputs ==
    (pc = "done" /\ source = run.fp) =>
        /\ BaseIsFresh \/ orphaned
        /\ entity = Projection(run.policy, base, TRUE)
        /\ labels = LabelsOf(entity)

NextRun(p) == [policy |-> p, useCache |-> TRUE, fp |-> source]

\* Between runs no half-made artefact is accepted by the decisions of the next run,
\* with the same exception for the base (Cache Redesign - SSOT, D-013: an interruption
\* must not leave a half product that looks usable).
NoUsableDebris ==
    pc = "idle" =>
        \A p \in Policies :
            LET r == NextRun(p) IN
            BaseHit(r) =>
                /\ DOMAIN base = Buckets \/ orphaned
                /\ EntityHit(r) => entity.whole
                /\ LabelsHit(r) => labels.whole

\* A run with the policy and the exports of the last run that ended well rebuilds
\* nothing: what the manifests are compared with is what they recorded.
NothingRebuilt ==
    [][(pc # "idle" /\ run.useCache /\ source = run.fp /\ settled = Settled(run))
         => UNCHANGED disk]_vars
=============================================================================
