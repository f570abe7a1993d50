------------------------- MODULE TrainingCachesProofs -------------------------
(***************************************************************************)
(* Theorems about TrainingCaches, for any number of buckets, versions of   *)
(* the exports, builds and interrupted runs, with exports that come back   *)
(* between runs: types, and, when all runs have one policy, fresh outputs, *)
(* no usable debris, and a repeated run that rebuilds nothing.             *)
(***************************************************************************)
EXTENDS TrainingCaches, TLAPS

\* The runs are of one policy.
OnePolicy == \A p, q \in Policies : p = q

-----------------------------------------------------------------------------
(* The invariant.                                                          *)

RunType == [policy : Policies, useCache : BOOLEAN, fp : Nat]
Bases == UNION {[S -> Files] : S \in (SUBSET Buckets) \ {{}}}
Records == [fp : Nat, base : Bases]

\* The steps of a run: those that build the base, make the entity set, and the rest.
Building == {"stage", "move", "sidecar"}
Copying == {"copying", "manifest"}
Labelling == {"labels", "writing", "key", "done"}
AfterBase == {"entity"} \cup Copying \cup Labelling
Steps == {"idle", "base"} \cup Building \cup AfterBase

Shape ==
    /\ versions \in Nat /\ source \in Nat /\ builds \in Nat
    /\ DOMAIN base \subseteq Buckets /\ base \in [DOMAIN base -> Files]
    /\ sidecar = None \/ sidecar \in [fp : Nat, stat : Nat]
    /\ manifests \in [Policies -> {None} \cup Records]
    /\ labelKeys \subseteq [policy : Policies, record : Records]
    /\ pc \in Steps
    /\ pc # "idle" => run \in RunType
    /\ DOMAIN staged \subseteq Buckets /\ staged \in [DOMAIN staged -> Nat]
    /\ settled = None \/ settled \in [policy : Policies, version : Nat]

\* While a run lasts its exports change only into new ones: once they have changed,
\* no sidecar left by an earlier run names their stats.
Order ==
    /\ source <= versions
    /\ pc # "idle" => run.fp <= source
    /\ sidecar # None => sidecar.fp <= sidecar.stat /\ sidecar.stat <= versions
    /\ sidecar # None /\ pc \in {"base"} \cup Building /\ run.fp # source
         => sidecar.stat < source
    /\ sidecar # None /\ pc \in AfterBase => sidecar.stat <= source

\* The base under construction: read since the run began, written in this build, and
\* beside it a sidecar, if any, of a base that is gone.
BuildInv ==
    /\ \A b \in DOMAIN base : base[b].build <= builds
    /\ pc \in Building =>
         /\ \A b \in DOMAIN staged : run.fp <= staged[b] /\ staged[b] <= source
         /\ \A b \in DOMAIN base : /\ base[b].build = builds
                                   /\ run.fp <= base[b].version /\ base[b].version <= source
         /\ sidecar # None => orphaned
    /\ pc \notin {"stage", "move"} => DOMAIN staged = {}
    /\ pc = "move" => DOMAIN staged = Buckets
    /\ pc = "sidecar" => DOMAIN base = Buckets

\* A sidecar that is not orphaned, of exports that stayed as they were hashed, lies
\* beside a base made of them; after the first step of a run the sidecar is the run's.
BaseInv ==
    /\ sidecar # None /\ ~orphaned /\ sidecar.fp = sidecar.stat =>
         DOMAIN base = Buckets /\ \A b \in Buckets : base[b].version = sidecar.fp
    /\ pc \in AfterBase => DOMAIN base # {} /\ sidecar # None /\ sidecar.fp = run.fp

\* What a manifest records: files of a base, and when that base is still there, the
\* source its sidecar names.
Recorded(rec) ==
    /\ \A b \in DOMAIN rec.base : rec.base[b].build <= builds
    /\ rec.base = base => sidecar # None /\ sidecar.fp = rec.fp
    /\ pc \in Building => \A b \in DOMAIN rec.base : rec.base[b].build < builds
RecordInv ==
    /\ \A p \in Policies : manifests[p] # None => Recorded(manifests[p])
    /\ \A k \in labelKeys : Recorded(k.record)

\* An entity set whose manifest records the present base is its whole projection, and
\* a run that ignores the caches finds no such manifest.
EntityInv ==
    /\ \A p \in Policies :
         manifests[p] # None /\ manifests[p].base = base
         => pc \notin Copying /\ entity = Projection(p, base, TRUE)
    /\ pc = "entity" /\ ~run.useCache
         => \A p \in Policies : manifests[p] # None => manifests[p].base # base
    /\ pc = "manifest" => entity = Projection(run.policy, base, TRUE)
    /\ pc \in Labelling => /\ manifests[run.policy] = EntityRecord(run, base)
                           /\ entity = Projection(run.policy, base, TRUE)

\* The same of the labels.
LabelInv ==
    /\ \A k \in labelKeys :
         k.record.base = base
         => /\ pc \notin {"writing", "key"}
            /\ labels = LabelsOf(Projection(k.policy, base, TRUE))
    /\ pc \in {"entity", "labels"} \cup Copying /\ ~run.useCache
         => \A k \in labelKeys : k.record.base # base
    /\ pc \in {"key", "done"} => labels = LabelsOf(entity)
    /\ pc = "done" => LabelKey(run, base) \in labelKeys

\* After a run that ended well, and until its exports change under a run, every
\* decision of a run of its policy on its exports is to use what is there.
SettledInv ==
    /\ settled # None /\ pc # "idle" => settled = Settled(run) /\ run.useCache
    /\ settled # None /\ (pc = "idle" \/ settled.version = source) =>
         /\ pc \notin Building \cup Copying \cup {"writing", "key"}
         /\ DOMAIN base # {} /\ sidecar # None
         /\ sidecar.fp = settled.version /\ sidecar.stat = settled.version
         /\ manifests[settled.policy] = [fp |-> settled.version, base |-> base]
         /\ [policy |-> settled.policy, record |-> [fp |-> settled.version, base |-> base]]
              \in labelKeys

Inv == /\ Shape /\ Order /\ BuildInv /\ BaseInv /\ RecordInv /\ EntityInv /\ LabelInv
       /\ SettledInv

-----------------------------------------------------------------------------
(* Elementary facts.                                                       *)

\* A record is never the absent one.
LEMMA NotNone ==
    /\ \A f, g : [fp |-> f, stat |-> g] # None
    /\ \A f, g : [fp |-> f, base |-> g] # None
    /\ \A p, f, w : Projection(p, f, w) # None
    /\ \A rows : LabelsOf(rows) # None
    /\ \A r : Settled(r) # None
<1>1. \A f, g : DOMAIN [fp |-> f, stat |-> g] = {"fp", "stat"}
  OBVIOUS
<1>2. \A f, g : DOMAIN [fp |-> f, base |-> g] = {"fp", "base"}
  OBVIOUS
<1>3. \A p, f, w : DOMAIN [policy |-> p, base |-> f, whole |-> w] = {"policy", "base", "whole"}
  OBVIOUS
<1>4. \A f, g : DOMAIN [of |-> f, whole |-> g] = {"of", "whole"}
  OBVIOUS
<1>5. \A f, g : DOMAIN [policy |-> f, version |-> g] = {"policy", "version"}
  OBVIOUS
<1>6. DOMAIN None = {"none"}
  BY DEF None
<1>7. \A f, g : [fp |-> f, stat |-> g] # None
  BY <1>1, <1>6
<1>8. \A f, g : [fp |-> f, base |-> g] # None
  BY <1>2, <1>6
<1>9. \A p, f, w : Projection(p, f, w) # None
  BY <1>3, <1>6 DEF Projection
<1>10. \A rows : LabelsOf(rows) # None
  BY <1>4, <1>6 DEF LabelsOf
<1>11. \A r : Settled(r) # None
  BY <1>5, <1>6 DEF Settled
<1> QED BY <1>7, <1>8, <1>9, <1>10, <1>11

\* There is a bucket, so a complete base is not an empty one.
LEMMA SomeBucket == 1 \in Buckets
BY CachesAssumption DEF Buckets

LEMMA EmptyBase == DOMAIN Nothing = {} /\ Nothing \in [{} -> Files]
BY DEF Nothing

\* A base that a manifest can record: some buckets, each with a file.
LEMMA KeptBase ==
    /\ \A f \in Bases : DOMAIN f \subseteq Buckets /\ DOMAIN f # {} /\ f \in [DOMAIN f -> Files]
    /\ \A f : DOMAIN f \subseteq Buckets /\ DOMAIN f # {} /\ f \in [DOMAIN f -> Files] => f \in Bases
<1>1. ASSUME NEW f \in Bases
      PROVE  DOMAIN f \subseteq Buckets /\ DOMAIN f # {} /\ f \in [DOMAIN f -> Files]
  <2>1. PICK S \in (SUBSET Buckets) \ {{}} : f \in [S -> Files]
    BY <1>1 DEF Bases
  <2> QED BY <2>1
<1>2. ASSUME NEW f, DOMAIN f \subseteq Buckets, DOMAIN f # {}, f \in [DOMAIN f -> Files]
      PROVE  f \in Bases
  <2>1. DOMAIN f \in (SUBSET Buckets) \ {{}}
    BY <1>2
  <2> QED BY <1>2, <2>1 DEF Bases
<1> QED BY <1>1, <1>2

\* A sidecar of the run's exports makes a hit, whatever is left of its base.
LEMMA MatchIsHit ==
    ASSUME Inv, run.useCache, DOMAIN base # {},
           sidecar # None, sidecar.fp = run.fp, sidecar.stat = source
    PROVE  BaseHit(run)
<1>1. sidecar = BaseRecord(run.fp, source)
  BY DEF Inv, Shape, BaseRecord
<1>2. base # Nothing
  BY EmptyBase
<1> QED BY <1>1, <1>2 DEF BaseHit

\* A manifest that records the present base, seen by a run that has its base, is the
\* manifest the run would write.
LEMMA RecordIsOurs ==
    ASSUME Inv, pc \in AfterBase, NEW rec \in Records, Recorded(rec), rec.base = base
    PROVE  rec = EntityRecord(run, base)
<1>1. sidecar.fp = rec.fp /\ sidecar.fp = run.fp
  BY DEF Inv, BaseInv, Recorded
<1> QED BY <1>1 DEF Records, EntityRecord

\* When the entity set is not used again, no manifest records the present base.
LEMMA EntityMiss ==
    ASSUME OnePolicy, Inv, pc = "entity", ~EntityHit(run), NEW p \in Policies, manifests[p] # None
    PROVE  manifests[p].base # base
<1>1. manifests[p] \in Records /\ run \in RunType
  BY DEF Inv, Shape
<1>2. SUFFICES ASSUME manifests[p].base = base PROVE FALSE
  OBVIOUS
<1>3. manifests[p] = EntityRecord(run, base)
  BY <1>1, <1>2, RecordIsOurs DEF Inv, RecordInv, AfterBase
<1>4. p = run.policy
  BY <1>1 DEF OnePolicy, RunType
<1>5. entity # None
  BY <1>2, NotNone DEF Inv, EntityInv
<1>6. run.useCache
  BY <1>1, <1>2 DEF Inv, EntityInv, RunType
<1> QED BY <1>3, <1>4, <1>5, <1>6 DEF EntityHit

\* When the labels are not used again, no labels manifest is for the present base.
LEMMA LabelsMiss ==
    ASSUME OnePolicy, Inv, pc = "labels", ~LabelsHit(run), NEW k \in labelKeys
    PROVE  k.record.base # base
<1>1. k \in [policy : Policies, record : Records] /\ run \in RunType
  BY DEF Inv, Shape
<1>2. SUFFICES ASSUME k.record.base = base PROVE FALSE
  OBVIOUS
<1>3. k.record = EntityRecord(run, base)
  BY <1>1, <1>2, RecordIsOurs DEF Inv, RecordInv, AfterBase, Labelling
<1>4. k.policy = run.policy
  BY <1>1 DEF OnePolicy, RunType
<1>5. k = LabelKey(run, base)
  BY <1>1, <1>3, <1>4 DEF LabelKey
<1>6. labels # None
  BY <1>2, NotNone DEF Inv, LabelInv
<1>7. run.useCache
  BY <1>1, <1>2 DEF Inv, LabelInv, RunType
<1> QED BY <1>5, <1>6, <1>7 DEF LabelsHit

-----------------------------------------------------------------------------
(* Types.                                                                  *)

\* What keeps the types: a run under way is there, and moves what it has staged.
Typed ==
    /\ TypeOK
    /\ pc # "idle" => run \in RunType
    /\ pc = "move" => DOMAIN staged = Buckets

LEMMA NewTypes ==
    ASSUME NEW r \in RunType, NEW files, IsBase(files), NEW w \in BOOLEAN, NEW v \in Nat
    PROVE  /\ BaseRecord(r.fp, v) \in [fp : Nat, stat : Nat]
           /\ IsRecord(EntityRecord(r, files))
           /\ IsEntity(Projection(r.policy, files, w))
           /\ DOMAIN LabelKey(r, files) = {"policy", "record"}
           /\ IsRecord(LabelKey(r, files).record)
           /\ Settled(r) \in [policy : Policies, version : Nat]
<1>1. r.fp \in Nat /\ r.policy \in Policies
  BY DEF RunType
<1>2. BaseRecord(r.fp, v) \in [fp : Nat, stat : Nat]
  BY <1>1 DEF BaseRecord
<1>3. IsRecord(EntityRecord(r, files))
  BY <1>1 DEF IsRecord, EntityRecord
<1>4. IsEntity(Projection(r.policy, files, w))
  BY <1>1 DEF IsEntity, Projection
<1>5. DOMAIN LabelKey(r, files) = {"policy", "record"} /\ IsRecord(LabelKey(r, files).record)
  BY <1>3 DEF LabelKey
<1>6. Settled(r) \in [policy : Policies, version : Nat]
  BY <1>1 DEF Settled
<1> QED BY <1>2, <1>3, <1>4, <1>5, <1>6

LEMMA TypesPreserved == Typed /\ [Next]_vars => Typed'
<1> SUFFICES ASSUME Typed, [Next]_vars PROVE Typed'
  OBVIOUS
<1> USE DEF Typed, TypeOK, disk
<1>1. CASE Replace \/ \E v \in 1 .. versions : OtherSnapshot(v)
  <2>1. source' \in Nat /\ versions' \in Nat
    BY <1>1 DEF Replace, OtherSnapshot
  <2>2. UNCHANGED <<builds, base, sidecar, orphaned, entity, manifests, labels, labelKeys, pc, run,
                    staged, settled, stops>>
    BY <1>1 DEF Replace, OtherSnapshot
  <2> QED BY <2>1, <2>2, ZenonT(40)
<1>2. ASSUME NEW p \in Policies, NEW useCache \in BOOLEAN, Begin(p, useCache) PROVE Typed'
  <2>1. run' \in RunType
    BY <1>2 DEF Begin, RunType
  <2>2. settled' \in {None} \cup [policy : Policies, version : Nat]
    BY <1>2 DEF Begin
  <2>3. pc' = "base"
    BY <1>2 DEF Begin
  <2> QED BY <1>2, <2>1, <2>2, <2>3, Zenon DEF Begin, RunType, IsBase
<1>3. CASE BaseReuse \/ EntityReuse \/ LabelsReuse
  <2>1. pc' \in {"entity", "labels", "done"} /\ run \in RunType
    BY <1>3 DEF BaseReuse, EntityReuse, LabelsReuse
  <2>2. UNCHANGED <<source, versions, builds, disk, orphaned, run, staged, settled, stops>>
    BY <1>3 DEF BaseReuse, EntityReuse, LabelsReuse
  <2> QED BY <2>1, <2>2, Zenon DEF IsBase
<1>4. CASE BaseClear
  <2>1. builds' \in Nat /\ IsBase(base') /\ orphaned' \in BOOLEAN /\ run \in RunType
    BY <1>4, EmptyBase DEF BaseClear, IsBase
  <2> QED BY <1>4, <2>1, Zenon DEF BaseClear
<1>5. ASSUME NEW b \in Buckets, Stage(b) PROVE Typed'
  <2>1. /\ DOMAIN staged' \subseteq Buckets /\ staged' \in [DOMAIN staged' -> Nat]
        /\ pc' \in {"stage", "move"} /\ run \in RunType
        /\ pc' = "move" => DOMAIN staged' = Buckets
    BY <1>5 DEF Stage
  <2> QED BY <1>5, <2>1, Zenon DEF Stage, IsBase
<1>6. ASSUME NEW b \in Buckets, Move(b) PROVE Typed'
  <2>1. File(b) \in Files
    BY <1>6 DEF Move, File, Files
  <2>2. IsBase(base')
    BY <1>6, <2>1 DEF Move, IsBase
  <2>3. pc' \in {"move", "sidecar"} /\ run \in RunType
    BY <1>6 DEF Move
  <2>4. staged' = Nothing \/ staged' = staged
    BY <1>6 DEF Move
  <2>5. DOMAIN staged' \subseteq Buckets /\ staged' \in [DOMAIN staged' -> Nat]
    <3>1. CASE staged' = Nothing
      BY <3>1, EmptyBase DEF Nothing
    <3>2. CASE staged' = staged
      BY <3>2
    <3> QED BY <2>4, <3>1, <3>2
  <2>6. pc' = "move" => DOMAIN staged' = Buckets
    BY <1>6 DEF Move
  <2> QED BY <1>6, <2>2, <2>3, <2>5, <2>6, Zenon DEF Move
<1>7. CASE WriteSidecar
  <2>1. run \in RunType /\ source \in Nat /\ IsBase(base)
    BY <1>7 DEF WriteSidecar
  <2>2. BaseRecord(run.fp, source) \in [fp : Nat, stat : Nat]
    BY <2>1, NewTypes
  <2> QED BY <1>7, <2>1, <2>2, Zenon DEF WriteSidecar
<1>8. CASE EntityCopy \/ EntityCopied
  <2>1. /\ run \in RunType /\ pc' \in {"copying", "manifest"}
        /\ UNCHANGED <<source, versions, builds, base, sidecar, orphaned, manifests, labels, labelKeys, run,
                       staged, settled, stops>>
    BY <1>8 DEF EntityCopy, EntityCopied
  <2>2. PICK w \in BOOLEAN : entity' = Projection(run.policy, base, w)
    BY <1>8 DEF EntityCopy, EntityCopied
  <2>3. IsBase(base) /\ run \in RunType
    BY <2>1
  <2>4. IsEntity(Projection(run.policy, base, w))
    <3> HIDE DEF Typed, TypeOK
    <3> QED BY <2>3, NewTypes
  <2>5. IsEntity(entity')
    BY <2>2, <2>4
  <2> QED BY <2>1, <2>5, Zenon DEF IsBase
<1>9. CASE WriteManifest
  <2>1. run \in RunType /\ IsRecord(EntityRecord(run, base))
    <3>1. run \in RunType /\ IsBase(base)
      BY <1>9 DEF WriteManifest
    <3> QED BY <3>1, NewTypes, Zenon
  <2>2. DOMAIN manifests' = Policies /\ \A p \in Policies : IsRecord(manifests'[p])
    BY <1>9, <2>1 DEF WriteManifest
  <2> QED BY <1>9, <2>1, <2>2, Zenon DEF WriteManifest, IsBase
<1>10. CASE LabelsWrite \/ LabelsWritten
  <2>1. labels' = TornLabels \/ (labels' = LabelsOf(labels'.of) /\ IsEntity(labels'.of))
    BY <1>10 DEF LabelsWrite, LabelsWritten, LabelsOf
  <2>2. /\ run \in RunType /\ pc' \in {"writing", "key"}
        /\ UNCHANGED <<source, versions, builds, base, sidecar, orphaned, entity, manifests, labelKeys, run,
                       staged, settled, stops>>
    BY <1>10 DEF LabelsWrite, LabelsWritten
  <2> QED BY <2>1, <2>2, Zenon DEF IsBase
<1>11. CASE WriteLabelKey
  <2>1. \A k \in labelKeys' : DOMAIN k = {"policy", "record"} /\ IsRecord(k.record)
    <3>1. run \in RunType /\ IsBase(base)
      BY <1>11 DEF WriteLabelKey
    <3>2. /\ DOMAIN LabelKey(run, base) = {"policy", "record"}
          /\ IsRecord(LabelKey(run, base).record)
      BY <3>1, NewTypes, Zenon
    <3> QED BY <1>11, <3>2, Zenon DEF WriteLabelKey
  <2> QED BY <1>11, <2>1, Zenon DEF WriteLabelKey, IsBase
<1>12. CASE Finish
  <2>1. settled' \in {None} \cup [policy : Policies, version : Nat]
    <3>1. run \in RunType /\ IsBase(base)
      BY <1>12 DEF Finish
    <3>2. Settled(run) \in [policy : Policies, version : Nat]
      BY <3>1, NewTypes, Zenon
    <3> QED BY <1>12, <3>2 DEF Finish
  <2> QED BY <1>12, <2>1, Zenon DEF Finish, IsBase
<1>13. CASE Stop
  <2>1. stops' \in Nat /\ DOMAIN staged' \subseteq Buckets /\ staged' \in [DOMAIN staged' -> Nat]
    BY <1>13, EmptyBase DEF Stop, Nothing
  <2> QED BY <1>13, <2>1, Zenon DEF Stop, IsBase
<1>14. CASE UNCHANGED vars
  <2>1. UNCHANGED <<source, versions, builds, base, sidecar, orphaned, entity, manifests, labels,
                    labelKeys, pc, run, staged, settled, stops>>
    BY <1>14 DEF vars
  <2> QED BY <2>1, ZenonT(40)
<1> QED BY <1>1, <1>2, <1>3, <1>4, <1>5, <1>6, <1>7, <1>8, <1>9, <1>10, <1>11, <1>12, <1>13,
           <1>14 DEF Next

\* Exports, artefacts and the run keep their types, whatever policies the runs have and
\* whether or not they use the caches.
THEOREM TypeCorrect == Spec => []TypeOK
<1>1. Init => Typed
  <2> SUFFICES ASSUME Init PROVE Typed
    OBVIOUS
  <2>1. IsBase(base) /\ DOMAIN staged \subseteq Buckets /\ staged \in [DOMAIN staged -> Nat]
    BY EmptyBase DEF Init, IsBase, Nothing
  <2> QED BY <2>1 DEF Init, Typed, TypeOK, IsEntity, IsRecord
<1>2. Typed => TypeOK
  BY DEF Typed
<1> QED BY <1>1, <1>2, TypesPreserved, PTL DEF Spec

-----------------------------------------------------------------------------
(* Each step keeps the invariant.                                          *)

LEMMA Starts == Init => Inv
<1> SUFFICES ASSUME Init PROVE Inv
  OBVIOUS
<1> USE DEF Init
<1>1. Shape
  BY EmptyBase DEF Shape, Steps
<1>2. Order /\ BuildInv /\ SettledInv
  BY EmptyBase DEF Order, BuildInv, SettledInv, Building, Copying
<1>3. BaseInv
  BY DEF BaseInv, AfterBase, Copying, Labelling
<1>4. RecordInv
  BY DEF RecordInv
<1>5. EntityInv /\ LabelInv
  BY DEF EntityInv, LabelInv, Labelling
<1> QED BY <1>1, <1>2, <1>3, <1>4, <1>5 DEF Inv

\* New exports are newer than all that any sidecar, run or history names.
LEMMA ReplaceKeeps == ASSUME Inv, Replace PROVE Inv'
<1> USE DEF Inv, Replace, disk
<1>1. /\ versions \in Nat /\ source \in Nat /\ source <= versions
      /\ source' = versions + 1 /\ versions' = versions + 1
  BY DEF Shape, Order
<1>2. source' \in Nat /\ versions' \in Nat /\ \A n \in Nat : n <= versions => n < source' /\ n <= source'
  BY <1>1
<1>3. Shape'
  BY <1>2, Zenon DEF Shape
<1>4. /\ pc # "idle" => run.fp \in Nat /\ run.fp <= versions
      /\ sidecar # None => sidecar.fp \in Nat /\ sidecar.stat \in Nat /\ sidecar.stat <= versions
  BY <1>1 DEF Shape, Order, RunType
<1>5. Order'
  BY <1>1, <1>2, <1>4 DEF Order
<1>6. BuildInv'
  <2>1. pc \in Building => \A b \in DOMAIN staged : staged[b] \in Nat /\ staged[b] <= versions
    BY <1>1 DEF Shape, BuildInv
  <2>2. pc \in Building =>
          \A b \in DOMAIN base : base[b].version \in Nat /\ base[b].version <= versions
    BY <1>1 DEF Shape, Files, BuildInv
  <2> QED BY <1>2, <2>1, <2>2 DEF BuildInv
<1>7. BaseInv'
  BY DEF BaseInv
<1>8. RecordInv' /\ EntityInv' /\ LabelInv'
  BY DEF RecordInv, Recorded, EntityInv, LabelInv, EntityRecord, LabelKey
<1>9. SettledInv'
  <2>1. settled # None /\ pc # "idle" => settled = Settled(run) /\ run.useCache
    BY DEF SettledInv
  <2>2. settled # None /\ pc # "idle" => settled.version # source'
    BY <2>1, <1>2, <1>4 DEF Settled
  <2> QED BY <2>1, <2>2 DEF SettledInv, Settled
<1> QED BY <1>3, <1>5, <1>6, <1>7, <1>8, <1>9

\* Exports that come back between runs: no part of the invariant is about them then.
LEMMA OtherSnapshotKeeps == ASSUME Inv, NEW v \in 1 .. versions, OtherSnapshot(v) PROVE Inv'
<1> USE DEF Inv, OtherSnapshot, disk
<1>1. versions \in Nat /\ source' \in Nat /\ source' <= versions
  BY DEF Shape
<1>2. Shape'
  BY <1>1, Zenon DEF Shape
<1>3. Order'
  BY <1>1 DEF Order, Building, AfterBase, Copying, Labelling
<1>4. BuildInv' /\ BaseInv' /\ RecordInv' /\ EntityInv' /\ LabelInv'
  BY DEF BuildInv, BaseInv, RecordInv, Recorded, EntityInv, LabelInv, EntityRecord, LabelKey,
         AfterBase, Building, Copying, Labelling
<1>5. SettledInv'
  BY DEF SettledInv
<1> QED BY <1>2, <1>3, <1>4, <1>5

LEMMA BeginKeeps ==
    ASSUME Inv, NEW p \in Policies, NEW useCache \in BOOLEAN, Begin(p, useCache)
    PROVE  Inv'
<1> USE DEF Inv, Begin, disk
<1>1. run' \in RunType /\ run'.fp = source /\ run'.useCache = useCache /\ source \in Nat
  BY DEF Shape, RunType
<1>2. settled' = None \/ (settled' = settled /\ settled = Settled(run') /\ useCache)
  OBVIOUS
<1>3. Shape'
  BY <1>1, <1>2 DEF Shape, Steps
<1>4. Order'
  BY <1>1 DEF Order, Building, AfterBase, Copying, Labelling
<1>5. BuildInv' /\ BaseInv' /\ RecordInv' /\ EntityInv' /\ LabelInv'
  BY DEF BuildInv, BaseInv, RecordInv, Recorded, EntityInv, LabelInv,
         AfterBase, Building, Copying, Labelling
<1>6. SettledInv'
  <2>1. Settled(run)' = Settled(run')
    BY DEF Settled
  <2> QED BY <1>1, <1>2, <2>1 DEF SettledInv, Building, Copying
<1> QED BY <1>3, <1>4, <1>5, <1>6

\* A hit means that the exports are as the run hashed them.
LEMMA HitIsSteady ==
    ASSUME Inv, pc = "base", BaseHit(run)
    PROVE  /\ sidecar # None /\ sidecar.fp = run.fp /\ sidecar.stat = source /\ run.fp = source
           /\ run.useCache /\ DOMAIN base # {}
<1>1. sidecar # None /\ sidecar.fp = run.fp /\ sidecar.stat = source /\ run.useCache
  BY NotNone DEF BaseHit, BaseRecord
<1>2. source \in Nat /\ run.fp = source
  BY <1>1 DEF Inv, Shape, Order
<1>3. DOMAIN base # {}
  <2>1. SUFFICES ASSUME DOMAIN base = {} PROVE FALSE
    OBVIOUS
  <2>2. base = [b \in {} |-> base[b]]
    BY <2>1 DEF Inv, Shape
  <2>3. base = Nothing
    BY <2>2 DEF Nothing
  <2> QED BY <2>3 DEF BaseHit
<1> QED BY <1>1, <1>2, <1>3

LEMMA BaseReuseKeeps == ASSUME Inv, BaseReuse PROVE Inv'
<1> USE DEF Inv, BaseReuse, disk
<1>1. Shape'
  BY DEF Shape, Steps, AfterBase
<1>2. /\ sidecar # None /\ sidecar.fp = run.fp /\ sidecar.stat = source /\ run.fp = source
      /\ run.useCache /\ DOMAIN base # {} /\ source \in Nat
  BY HitIsSteady DEF Shape
<1>3. Order'
  BY <1>2 DEF Order, Building
<1>4. BuildInv' /\ RecordInv' /\ EntityInv' /\ LabelInv'
  BY <1>2 DEF BuildInv, RecordInv, Recorded, EntityInv, LabelInv, Building, Copying, Labelling
<1>5. BaseInv'
  BY <1>2 DEF BaseInv
<1>6. SettledInv'
  BY DEF SettledInv, Settled, Building, Copying
<1> QED BY <1>1, <1>3, <1>4, <1>5, <1>6

\* The base is removed from beside its sidecar; a settled state would have been a hit.
LEMMA BaseClearKeeps == ASSUME Inv, BaseClear PROVE Inv'
<1> USE DEF Inv, BaseClear
<1>1. builds \in Nat /\ source \in Nat /\ base' = Nothing
  BY DEF Shape
<1>2. Shape'
  <2>1. DOMAIN base' \subseteq Buckets /\ base' \in [DOMAIN base' -> Files]
    BY EmptyBase
  <2>2. builds' \in Nat /\ pc' \in Steps
    BY <1>1 DEF Steps, Building
  <2>3. run \in RunType
    BY DEF Shape
  <2> QED BY <2>1, <2>2, <2>3, Zenon DEF Shape
<1>3. Order'
  BY DEF Order, Building, AfterBase, Copying, Labelling
<1>4. BuildInv'
  BY EmptyBase DEF BuildInv
<1>5. BaseInv'
  BY DEF BaseInv, AfterBase, Copying, Labelling
<1>6. ASSUME NEW rec \in Records, Recorded(rec) PROVE Recorded(rec)' /\ rec.base # base'
  <2>1. /\ DOMAIN rec.base \subseteq Buckets /\ DOMAIN rec.base # {}
        /\ \A b \in DOMAIN rec.base : rec.base[b].build \in Nat
    BY KeptBase DEF Records, Files
  <2>2. rec.base # base'
    BY <2>1, <1>1, EmptyBase
  <2> QED BY <1>1, <1>6, <2>1, <2>2 DEF Recorded
<1>7. RecordInv'
  BY <1>6 DEF RecordInv, Shape
<1>8. EntityInv' /\ LabelInv'
  BY <1>6 DEF EntityInv, LabelInv, RecordInv, Shape, Labelling, Copying
<1>9. SettledInv'
  <2>1. ASSUME settled # None, settled.version = source PROVE FALSE
    <3>1. run.useCache /\ run.fp = settled.version
      BY <2>1 DEF SettledInv, Settled
    <3>2. /\ DOMAIN base # {} /\ sidecar # None
          /\ sidecar.fp = settled.version /\ sidecar.stat = settled.version
      BY <2>1 DEF SettledInv
    <3>3. BaseHit(run)
      <4> HIDE DEF Inv, BaseClear
      <4> QED BY <2>1, <3>1, <3>2, MatchIsHit
    <3> QED BY <3>3
  <2> QED BY <2>1 DEF SettledInv, Settled
<1> QED BY <1>2, <1>3, <1>4, <1>5, <1>7, <1>8, <1>9

LEMMA StageKeeps == ASSUME Inv, NEW b \in Buckets, Stage(b) PROVE Inv'
<1> USE DEF Inv, Stage, disk
<1>1. pc' \in {"stage", "move"} /\ source \in Nat
  BY DEF Shape
<1>2. \A c \in DOMAIN staged' : staged'[c] = source \/ (c \in DOMAIN staged /\ staged'[c] = staged[c])
  OBVIOUS
<1>3. Shape'
  <2>1. DOMAIN staged' \subseteq Buckets /\ staged' \in [DOMAIN staged' -> Nat]
    BY DEF Shape
  <2> QED BY <1>1, <2>1 DEF Shape, Steps, Building
<1>4. Order'
  BY <1>1 DEF Order, Building, AfterBase, Copying, Labelling
<1>5. BuildInv'
  <2>1. \A c \in DOMAIN staged' : run.fp <= staged'[c] /\ staged'[c] <= source
    BY <1>2, <1>1 DEF BuildInv, Building, Order
  <2> QED BY <2>1, <1>1 DEF BuildInv, Building
<1>6. BaseInv' /\ RecordInv' /\ EntityInv' /\ LabelInv' /\ SettledInv'
  BY <1>1 DEF BaseInv, RecordInv, Recorded, EntityInv, LabelInv, SettledInv, Settled,
              AfterBase, Building, Copying, Labelling
<1> QED BY <1>3, <1>4, <1>5, <1>6

\* A moved file is of the present build, so no manifest records the base it lies in.
LEMMA MoveKeeps == ASSUME Inv, NEW b \in Buckets, Move(b) PROVE Inv'
<1> USE DEF Inv, Move
<1>1. pc' \in {"move", "sidecar"} /\ pc = "move" /\ source \in Nat /\ builds \in Nat
  BY DEF Shape
<1>2. staged[b] \in Nat /\ run.fp <= staged[b] /\ staged[b] <= source
  BY DEF Shape, BuildInv, Building
<1>3. /\ DOMAIN base' = DOMAIN base \cup {b}
      /\ base'[b] = File(b)
      /\ \A c \in DOMAIN base : c # b /\ base'[c] = base[c]
  OBVIOUS
<1>4. File(b) \in Files /\ File(b).build = builds /\ File(b).version = staged[b]
  BY <1>1, <1>2 DEF File, Files
<1>5. DOMAIN base' \subseteq Buckets /\ base' \in [DOMAIN base' -> Files]
  BY <1>3, <1>4 DEF Shape
<1>6. staged' = staged \/ staged' = Nothing
  OBVIOUS
<1>7. Shape'
  <2>1. DOMAIN staged' \subseteq Buckets /\ staged' \in [DOMAIN staged' -> Nat]
    <3>1. CASE staged' = staged
      BY <3>1 DEF Shape
    <3>2. CASE staged' = Nothing
      BY <3>2, EmptyBase DEF Nothing
    <3> QED BY <1>6, <3>1, <3>2
  <2>2. pc' \in Steps
    BY <1>1 DEF Steps, Building
  <2>3. run \in RunType
    BY <1>1 DEF Shape
  <2> QED BY <1>5, <2>1, <2>2, <2>3, Zenon DEF Shape
<1>8. Order'
  BY <1>1 DEF Order, Building, AfterBase, Copying, Labelling
<1>9. BuildInv'
  <2>1. \A c \in DOMAIN base' : /\ base'[c].build = builds
                                /\ run.fp <= base'[c].version /\ base'[c].version <= source
    BY <1>1, <1>2, <1>3, <1>4 DEF BuildInv, Building
  <2>2. \A c \in DOMAIN staged' : run.fp <= staged'[c] /\ staged'[c] <= source
    BY <1>1, <1>6, EmptyBase DEF BuildInv, Building
  <2>3. sidecar # None => orphaned
    BY <1>1 DEF BuildInv, Building
  <2>4. pc' # "move" => DOMAIN staged' = {}
    BY <1>1, EmptyBase
  <2>5. pc' = "move" => DOMAIN staged' = Buckets
    BY DEF BuildInv
  <2>6. pc' = "sidecar" => DOMAIN base' = Buckets
    OBVIOUS
  <2>7. UNCHANGED <<source, builds, sidecar, orphaned, run>>
    OBVIOUS
  <2>8. pc' # "stage"
    BY <1>1
  <2> HIDE DEF Move, Inv
  <2>9. builds <= builds
    BY <1>1
  <2>10. \A c \in DOMAIN base' : base'[c].build <= builds
    BY <2>1, <2>9
  <2> QED BY <2>1, <2>2, <2>3, <2>4, <2>5, <2>6, <2>7, <2>8, <2>10 DEF BuildInv
<1>10. BaseInv'
  BY <1>1 DEF BaseInv, BuildInv, Building, AfterBase, Copying, Labelling
<1>11. ASSUME NEW rec \in Records, Recorded(rec) PROVE Recorded(rec)' /\ rec.base # base'
  <2>1. \A c \in DOMAIN rec.base : rec.base[c].build < builds /\ rec.base[c].build \in Nat
    BY <1>11, <1>1, KeptBase DEF Recorded, Records, Files, Building
  <2>2. rec.base # base'
    BY <2>1, <1>1, <1>3, <1>4
  <2> QED BY <1>11, <2>1, <2>2 DEF Recorded
<1>12. RecordInv'
  BY <1>11 DEF RecordInv, Shape
<1>13. EntityInv' /\ LabelInv'
  BY <1>1, <1>11 DEF EntityInv, LabelInv, RecordInv, Shape, Copying, Labelling
<1>14. SettledInv'
  BY <1>1 DEF SettledInv, Settled, Building
<1> QED BY <1>7, <1>8, <1>9, <1>10, <1>12, <1>13, <1>14

\* The new sidecar names what the run hashed; the files were read after that, so when
\* it names the present exports the files are theirs.
LEMMA WriteSidecarKeeps == ASSUME Inv, WriteSidecar PROVE Inv'
<1> USE DEF Inv, WriteSidecar
<1>1. /\ source \in Nat /\ builds \in Nat
      /\ run.fp \in Nat /\ run.fp <= source
      /\ run \in RunType
  BY DEF Shape, Order, RunType
<1>2. /\ sidecar' \in [fp : Nat, stat : Nat] /\ sidecar' # None
      /\ sidecar'.fp = run.fp /\ sidecar'.stat = source
  BY <1>1, NotNone DEF BaseRecord
<1>3. Shape'
  <2>1. pc' \in Steps
    BY DEF Steps, AfterBase
  <2> QED BY <1>1, <1>2, <2>1, Zenon DEF Shape
<1>4. Order'
  BY <1>1, <1>2 DEF Order, Shape, Building, AfterBase
<1>5. BuildInv'
  BY DEF BuildInv, Building
<1>6. DOMAIN base = Buckets
      /\ (run.fp = source => \A b \in Buckets : base[b].version = run.fp)
  <2>1. ASSUME run.fp = source, NEW b \in Buckets PROVE base[b].version = run.fp
    <3>1. b \in DOMAIN base /\ run.fp <= base[b].version /\ base[b].version <= source
      BY DEF BuildInv, Building
    <3>2. base[b].version \in Nat
      BY <3>1 DEF Shape, Files
    <3> QED BY <1>1, <2>1, <3>1, <3>2
  <2> QED BY <2>1 DEF BuildInv
<1>7. BaseInv'
  BY <1>2, <1>6, SomeBucket DEF BaseInv
<1>8. ASSUME NEW rec \in Records, Recorded(rec) PROVE Recorded(rec)' /\ rec.base # base
  <2>1. \A c \in DOMAIN rec.base : rec.base[c].build < builds /\ rec.base[c].build \in Nat
    BY <1>8, KeptBase DEF Recorded, Records, Files, Building
  <2>2. 1 \in DOMAIN base /\ base[1].build = builds
    BY <1>6, SomeBucket DEF BuildInv, Building
  <2>3. rec.base # base
    BY <1>1, <2>1, <2>2
  <2> QED BY <1>8, <2>3 DEF Recorded, Building
<1>9. RecordInv'
  BY <1>8 DEF RecordInv, Shape
<1>10. EntityInv' /\ LabelInv'
  BY <1>8 DEF EntityInv, LabelInv, RecordInv, Shape, Copying, Labelling
<1>11. SettledInv'
  BY DEF SettledInv, Settled, Building
<1> QED BY <1>3, <1>4, <1>5, <1>7, <1>9, <1>10, <1>11

\* What a step after the base leaves alone: it stays after the base, or the run is over.
LEMMA AfterBaseKeeps ==
    ASSUME Inv, pc \in AfterBase, pc' \in AfterBase,
           UNCHANGED <<source, versions, builds, base, sidecar, orphaned, run, staged, settled>>
    PROVE  Order' /\ BuildInv' /\ BaseInv'
<1> USE DEF Inv
<1>1. pc \notin {"idle", "base"} \cup Building /\ pc' \notin {"idle", "base"} \cup Building
  BY DEF AfterBase, Copying, Labelling, Building
<1>2. Order'
  BY <1>1 DEF Order
<1>3. BuildInv'
  BY <1>1 DEF BuildInv, Building
<1>4. BaseInv'
  BY <1>1 DEF BaseInv
<1> QED BY <1>2, <1>3, <1>4

LEMMA EntityReuseKeeps == ASSUME Inv, EntityReuse PROVE Inv'
<1> USE DEF Inv, EntityReuse, disk
<1>1. pc \in AfterBase /\ pc' \in AfterBase
  BY DEF AfterBase, Labelling
<1>2. Order' /\ BuildInv' /\ BaseInv'
  BY <1>1, AfterBaseKeeps
<1>3. run \in RunType /\ pc' \in Steps
  BY <1>1 DEF Shape, Steps
<1>4. Shape'
  BY <1>3, Zenon DEF Shape
<1>5. RecordInv'
  BY DEF RecordInv, Recorded, Building
<1>6. /\ manifests[run.policy] = EntityRecord(run, base) /\ run.policy \in Policies
      /\ run.useCache
  BY <1>3 DEF EntityHit, RunType
<1>7. entity = Projection(run.policy, base, TRUE)
  <2>1. manifests[run.policy] # None /\ manifests[run.policy].base = base
    BY <1>6, NotNone DEF EntityRecord
  <2> QED BY <2>1, <1>6 DEF EntityInv
<1>8. EntityInv'
  BY <1>6, <1>7 DEF EntityInv, EntityRecord, Copying
<1>9. LabelInv' /\ SettledInv'
  BY <1>6 DEF LabelInv, SettledInv, Settled, Building, Copying
<1> QED BY <1>2, <1>4, <1>5, <1>8, <1>9

LEMMA EntityCopyKeeps == ASSUME OnePolicy, Inv, EntityCopy PROVE Inv'
<1> USE DEF Inv, EntityCopy
<1>1. pc \in AfterBase /\ pc' \in AfterBase
  BY DEF AfterBase, Copying
<1>2. Order' /\ BuildInv' /\ BaseInv'
  BY <1>1, AfterBaseKeeps
<1>3. run \in RunType /\ pc' \in Steps
  BY <1>1 DEF Shape, Steps
<1>4. Shape'
  BY <1>3, Zenon DEF Shape
<1>5. RecordInv'
  BY DEF RecordInv, Recorded, Building
<1>6. \A p \in Policies : manifests[p] # None => manifests[p].base # base
  BY EntityMiss
<1>7. EntityInv'
  BY <1>6 DEF EntityInv, Labelling
<1>8. LabelInv'
  BY DEF LabelInv, Copying
<1>9. SettledInv'
  <2>1. ASSUME settled # None, settled.version = source PROVE FALSE
    <3>1. settled.policy \in Policies
      BY <2>1 DEF Shape
    <3>2. manifests[settled.policy] = [fp |-> source, base |-> base]
      BY <2>1 DEF SettledInv
    <3> QED BY <3>1, <3>2, <1>6, NotNone
  <2> QED BY <2>1 DEF SettledInv, Settled
<1> QED BY <1>2, <1>4, <1>5, <1>7, <1>8, <1>9

LEMMA EntityCopiedKeeps == ASSUME Inv, EntityCopied PROVE Inv'
<1> USE DEF Inv, EntityCopied
<1>1. pc \in AfterBase /\ pc' \in AfterBase
  BY DEF AfterBase, Copying
<1>2. Order' /\ BuildInv' /\ BaseInv'
  BY <1>1, AfterBaseKeeps
<1>3. run \in RunType /\ pc' \in Steps
  BY <1>1 DEF Shape, Steps
<1>4. Shape'
  BY <1>3, Zenon DEF Shape
<1>5. RecordInv'
  BY DEF RecordInv, Recorded, Building
<1>6. EntityInv'
  BY DEF EntityInv, Copying, Labelling
<1>7. LabelInv' /\ SettledInv'
  BY DEF LabelInv, SettledInv, Settled, Building, Copying
<1> QED BY <1>2, <1>4, <1>5, <1>6, <1>7

LEMMA WriteManifestKeeps == ASSUME OnePolicy, Inv, WriteManifest PROVE Inv'
<1> USE DEF Inv, WriteManifest
<1>1. pc \in AfterBase /\ pc' \in AfterBase
  BY DEF AfterBase, Copying, Labelling
<1>2. Order' /\ BuildInv' /\ BaseInv'
  BY <1>1, AfterBaseKeeps
<1>3. run \in RunType /\ pc' \in Steps
  BY <1>1 DEF Shape, Steps
<1>4. /\ base \in Bases /\ sidecar # None /\ sidecar.fp = run.fp
      /\ EntityRecord(run, base) \in Records
      /\ EntityRecord(run, base).fp = run.fp /\ EntityRecord(run, base).base = base
  BY <1>1, <1>3, KeptBase DEF BaseInv, Shape, RunType, Records, EntityRecord
<1>5. manifests' \in [Policies -> {None} \cup Records]
  BY <1>4 DEF Shape
<1>6. Shape'
  BY <1>3, <1>5, Zenon DEF Shape
<1>7. \A p \in Policies : manifests'[p] = EntityRecord(run, base)
  BY <1>3 DEF OnePolicy, Shape, RunType
<1>8. RecordInv'
  <2>1. Recorded(EntityRecord(run, base))'
    BY <1>4 DEF Recorded, BuildInv, Building
  <2>2. \A k \in labelKeys : Recorded(k.record)'
    BY DEF RecordInv, Recorded, Building
  <2> QED BY <1>7, <2>1, <2>2 DEF RecordInv, Recorded, EntityRecord
<1>9. EntityInv'
  <2>1. entity = Projection(run.policy, base, TRUE)
    BY DEF EntityInv
  <2>2. \A p \in Policies : p = run.policy
    BY <1>3 DEF OnePolicy, RunType
  <2> QED BY <1>3, <1>7, <2>1, <2>2 DEF EntityInv, EntityRecord, RunType, Copying, Labelling
<1>10. LabelInv'
  BY DEF LabelInv, Copying
<1>11. SettledInv'
  BY DEF SettledInv, Settled, Copying
<1> QED BY <1>2, <1>6, <1>8, <1>9, <1>10, <1>11

LEMMA LabelsReuseKeeps == ASSUME Inv, LabelsReuse PROVE Inv'
<1> USE DEF Inv, LabelsReuse, disk
<1>1. pc \in AfterBase /\ pc' \in AfterBase
  BY DEF AfterBase, Labelling
<1>2. Order' /\ BuildInv' /\ BaseInv'
  BY <1>1, AfterBaseKeeps
<1>3. run \in RunType /\ pc' \in Steps
  BY <1>1 DEF Shape, Steps
<1>4. Shape'
  BY <1>3, Zenon DEF Shape
<1>5. RecordInv'
  BY DEF RecordInv, Recorded, Building
<1>6. EntityInv'
  BY DEF EntityInv, EntityRecord, Copying, Labelling
<1>7. LabelKey(run, base) \in labelKeys
  BY DEF LabelsHit
<1>8. labels = LabelsOf(entity)
  <2>1. /\ LabelKey(run, base).record.base = base
        /\ LabelKey(run, base).policy = run.policy
    BY DEF LabelKey, EntityRecord
  <2>2. entity = Projection(run.policy, base, TRUE)
    BY DEF EntityInv, Labelling
  <2> QED BY <1>7, <2>1, <2>2 DEF LabelInv
<1>9. LabelInv'
  BY <1>7, <1>8 DEF LabelInv, LabelKey, EntityRecord, Copying
<1>10. SettledInv'
  BY DEF SettledInv, Settled, Building, Copying
<1> QED BY <1>2, <1>4, <1>5, <1>6, <1>9, <1>10

LEMMA LabelsWriteKeeps == ASSUME OnePolicy, Inv, LabelsWrite PROVE Inv'
<1> USE DEF Inv, LabelsWrite
<1>1. pc \in AfterBase /\ pc' \in AfterBase
  BY DEF AfterBase, Labelling
<1>2. Order' /\ BuildInv' /\ BaseInv'
  BY <1>1, AfterBaseKeeps
<1>3. run \in RunType /\ pc' \in Steps
  BY <1>1 DEF Shape, Steps
<1>4. Shape'
  BY <1>3, Zenon DEF Shape
<1>5. RecordInv'
  BY DEF RecordInv, Recorded, Building
<1>6. EntityInv'
  BY DEF EntityInv, EntityRecord, Copying, Labelling
<1>7. \A k \in labelKeys : k.record.base # base
  BY LabelsMiss
<1>8. LabelInv'
  BY <1>7 DEF LabelInv, Copying
<1>9. SettledInv'
  <2>1. ASSUME settled # None, settled.version = source PROVE FALSE
    <3>1. [policy |-> settled.policy, record |-> [fp |-> source, base |-> base]] \in labelKeys
      BY <2>1 DEF SettledInv
    <3> QED BY <3>1, <1>7
  <2> QED BY <2>1 DEF SettledInv, Settled
<1> QED BY <1>2, <1>4, <1>5, <1>6, <1>8, <1>9

LEMMA LabelsWrittenKeeps == ASSUME Inv, LabelsWritten PROVE Inv'
<1> USE DEF Inv, LabelsWritten
<1>1. pc \in AfterBase /\ pc' \in AfterBase
  BY DEF AfterBase, Labelling
<1>2. Order' /\ BuildInv' /\ BaseInv'
  BY <1>1, AfterBaseKeeps
<1>3. run \in RunType /\ pc' \in Steps
  BY <1>1 DEF Shape, Steps
<1>4. Shape'
  BY <1>3, Zenon DEF Shape
<1>5. RecordInv'
  BY DEF RecordInv, Recorded, Building
<1>6. EntityInv'
  BY DEF EntityInv, EntityRecord, Copying, Labelling
<1>7. LabelInv' /\ SettledInv'
  BY DEF LabelInv, SettledInv, Settled, Copying
<1> QED BY <1>2, <1>4, <1>5, <1>6, <1>7

LEMMA WriteLabelKeyKeeps == ASSUME Inv, WriteLabelKey PROVE Inv'
<1> USE DEF Inv, WriteLabelKey
<1>1. pc \in AfterBase /\ pc' \in AfterBase
  BY DEF AfterBase, Labelling
<1>2. Order' /\ BuildInv' /\ BaseInv'
  BY <1>1, AfterBaseKeeps
<1>3. run \in RunType /\ pc' \in Steps
  BY <1>1 DEF Shape, Steps
<1>4. /\ base \in Bases /\ sidecar # None /\ sidecar.fp = run.fp
      /\ EntityRecord(run, base) \in Records
      /\ EntityRecord(run, base).fp = run.fp /\ EntityRecord(run, base).base = base
  BY <1>1, <1>3, KeptBase DEF BaseInv, Shape, RunType, Records, EntityRecord
<1>5. LabelKey(run, base) \in [policy : Policies, record : Records]
  BY <1>3, <1>4 DEF LabelKey, RunType
<1>6. Shape'
  <2>1. labelKeys' \subseteq [policy : Policies, record : Records]
    BY <1>5 DEF Shape
  <2> QED BY <1>3, <2>1, Zenon DEF Shape
<1>7. RecordInv'
  <2>1. Recorded(EntityRecord(run, base))'
    BY <1>4 DEF Recorded, BuildInv, Building
  <2>2. \A p \in Policies : manifests[p] # None => Recorded(manifests[p])'
    BY DEF RecordInv, Recorded, Building
  <2>3. \A k \in labelKeys : Recorded(k.record)'
    BY DEF RecordInv, Recorded, Building
  <2>4. LabelKey(run, base).record = EntityRecord(run, base)
    BY DEF LabelKey
  <2> QED BY <2>1, <2>2, <2>3, <2>4 DEF RecordInv, Recorded
<1>8. EntityInv'
  BY DEF EntityInv, EntityRecord, Copying, Labelling
<1>9. LabelInv'
  <2>1. labels = LabelsOf(entity) /\ entity = Projection(run.policy, base, TRUE)
    BY DEF LabelInv, EntityInv, Labelling
  <2>2. LabelKey(run, base).policy = run.policy
    BY DEF LabelKey
  <2>3. \A k \in labelKeys : k.record.base # base
    BY DEF LabelInv
  <2>4. LabelKey(run, base)' = LabelKey(run, base)
    BY DEF LabelKey, EntityRecord
  <2> QED BY <2>1, <2>2, <2>3, <2>4 DEF LabelInv, Copying
<1>10. SettledInv'
  BY DEF SettledInv, Settled
<1> QED BY <1>2, <1>6, <1>7, <1>8, <1>9, <1>10

\* The run that ends well has used or written each manifest of the settled state.
LEMMA FinishKeeps == ASSUME Inv, Finish PROVE Inv'
<1> USE DEF Inv, Finish, disk
<1>1. /\ source \in Nat /\ run.fp <= source /\ run \in RunType /\ pc' \in Steps
  BY DEF Shape, Order, Steps
<1>2. settled' = None \/ (source = run.fp /\ settled' = Settled(run))
  OBVIOUS
<1>3. settled' = None \/ (/\ settled' \in [policy : Policies, version : Nat]
                          /\ settled'.policy = run.policy /\ settled'.version = source
                          /\ run.fp = source)
  BY <1>1, <1>2 DEF Settled, RunType
<1>4. Shape'
  BY <1>1, <1>3, Zenon DEF Shape
<1>5. Order'
  BY DEF Order, Building, AfterBase, Copying, Labelling
<1>6. BuildInv' /\ BaseInv' /\ RecordInv' /\ EntityInv' /\ LabelInv'
  BY DEF BuildInv, BaseInv, RecordInv, Recorded, EntityInv, LabelInv,
         AfterBase, Building, Copying, Labelling
<1>7. SettledInv'
  <2>1. ASSUME settled' # None
        PROVE  /\ DOMAIN base # {} /\ sidecar # None
               /\ sidecar.fp = settled'.version /\ sidecar.stat = settled'.version
               /\ manifests[settled'.policy] = [fp |-> settled'.version, base |-> base]
               /\ [policy |-> settled'.policy,
                   record |-> [fp |-> settled'.version, base |-> base]] \in labelKeys
    <3>1. run.fp = settled'.version /\ settled'.policy = run.policy /\ settled'.version = source
      BY <2>1, <1>3
    <3>2. /\ DOMAIN base # {} /\ sidecar # None /\ sidecar.fp = run.fp
          /\ sidecar.fp <= sidecar.stat /\ sidecar.stat <= source /\ sidecar.stat \in Nat
      BY DEF BaseInv, Order, Shape, AfterBase, Labelling
    <3>3. sidecar.stat = source
      BY <1>1, <3>1, <3>2
    <3>4. manifests[run.policy] = EntityRecord(run, base) /\ LabelKey(run, base) \in labelKeys
      BY DEF EntityInv, LabelInv, Labelling
    <3> QED BY <3>1, <3>2, <3>3, <3>4 DEF EntityRecord, LabelKey
  <2> QED BY <2>1 DEF SettledInv, Building, Copying
<1> QED BY <1>4, <1>5, <1>6, <1>7

\* An interrupted run leaves what the invariant says of no run in particular.
LEMMA StopKeeps == ASSUME Inv, Stop PROVE Inv'
<1> USE DEF Inv, Stop, disk
<1>1. staged' = Nothing /\ pc' = "idle" /\ pc' \in Steps
  BY DEF Steps
<1>2. settled' = None \/ (settled' = settled /\ (settled # None => settled.version = source))
  BY DEF SettledInv, Settled
<1>3. Shape'
  <2>1. DOMAIN staged' \subseteq Buckets /\ staged' \in [DOMAIN staged' -> Nat]
    BY <1>1, EmptyBase DEF Nothing
  <2>2. settled' = None \/ settled' \in [policy : Policies, version : Nat]
    BY <1>2 DEF Shape
  <2> QED BY <1>1, <2>1, <2>2, Zenon DEF Shape
<1>4. Order'
  BY DEF Order, Building, AfterBase, Copying, Labelling
<1>5. BuildInv'
  BY <1>1, EmptyBase DEF BuildInv, Building
<1>6. BaseInv' /\ RecordInv'
  BY DEF BaseInv, RecordInv, Recorded, AfterBase, Building, Copying, Labelling
<1>7. EntityInv' /\ LabelInv'
  BY DEF EntityInv, LabelInv, Building, Copying, Labelling
<1>8. SettledInv'
  BY <1>2 DEF SettledInv, Building, Copying
<1> QED BY <1>3, <1>4, <1>5, <1>6, <1>7, <1>8

LEMMA Inductive == ASSUME OnePolicy PROVE Inv /\ [Next]_vars => Inv'
<1> SUFFICES ASSUME Inv, [Next]_vars PROVE Inv'
  OBVIOUS
<1>1. CASE Replace \/ \E v \in 1 .. versions : OtherSnapshot(v)
  BY <1>1, ReplaceKeeps, OtherSnapshotKeeps
<1>2. CASE \E p \in Policies, useCache \in BOOLEAN : (useCache \/ MayIgnore) /\ Begin(p, useCache)
  BY <1>2, BeginKeeps
<1>3. CASE BaseReuse
  BY <1>3, BaseReuseKeeps
<1>4. CASE BaseClear
  BY <1>4, BaseClearKeeps
<1>5. CASE WriteSidecar
  BY <1>5, WriteSidecarKeeps
<1>6. CASE \E b \in Buckets : Stage(b) \/ Move(b)
  BY <1>6, StageKeeps, MoveKeeps
<1>7. CASE EntityReuse
  BY <1>7, EntityReuseKeeps
<1>8. CASE EntityCopy
  BY <1>8, EntityCopyKeeps
<1>9. CASE EntityCopied
  BY <1>9, EntityCopiedKeeps
<1>10. CASE WriteManifest
  BY <1>10, WriteManifestKeeps
<1>11. CASE LabelsReuse
  BY <1>11, LabelsReuseKeeps
<1>12. CASE LabelsWrite
  BY <1>12, LabelsWriteKeeps
<1>13. CASE LabelsWritten
  BY <1>13, LabelsWrittenKeeps
<1>14. CASE WriteLabelKey
  BY <1>14, WriteLabelKeyKeeps
<1>15. CASE Finish
  BY <1>15, FinishKeeps
<1>16. CASE Stop
  BY <1>16, StopKeeps
<1>17. CASE UNCHANGED vars
  <2> USE <1>17 DEF vars, disk, Inv
  <2>1. Shape'
    BY Zenon DEF Shape
  <2>2. Order' /\ BuildInv' /\ BaseInv'
    BY DEF Order, BuildInv, BaseInv
  <2>3. RecordInv'
    BY DEF RecordInv, Recorded
  <2>4. EntityInv'
    BY DEF EntityInv, EntityRecord
  <2>5. LabelInv'
    BY DEF LabelInv, LabelKey, EntityRecord
  <2>6. SettledInv'
    BY DEF SettledInv, Settled
  <2> QED BY <2>1, <2>2, <2>3, <2>4, <2>5, <2>6
<1> QED BY <1>1, <1>2, <1>3, <1>4, <1>5, <1>6, <1>7, <1>8, <1>9, <1>10, <1>11, <1>12, <1>13,
           <1>14, <1>15, <1>16, <1>17 DEF Next

LEMMA Invariant == ASSUME OnePolicy PROVE Spec => []Inv
<1>1. Inv /\ [Next]_vars => Inv'
  BY Inductive
<1> QED BY <1>1, Starts, PTL DEF Spec

-----------------------------------------------------------------------------
(* The theorems.                                                           *)

\* A run that ends well on exports that did not change under it has the outputs of a
\* run without caches, however many runs before it were cut off and wherever, and on
\* whatever exports: a sidecar not orphaned names the exports its base was read from,
\* and every other manifest is good only for the very files of the base it names.
\* With the sidecar of a base that is gone, the outputs are still those of the base
\* that is there.
THEOREM OutputsFresh == ASSUME OnePolicy PROVE Spec => []FreshOutputs
<1>1. Inv => FreshOutputs
  <2> SUFFICES ASSUME Inv, pc = "done", source = run.fp
               PROVE  /\ BaseIsFresh \/ orphaned
                      /\ entity = Projection(run.policy, base, TRUE)
                      /\ labels = LabelsOf(entity)
    BY DEF FreshOutputs
  <2>1. pc \in Labelling /\ pc \in AfterBase
    BY DEF Labelling, AfterBase
  <2>2. /\ sidecar # None /\ sidecar.fp = source /\ sidecar \in [fp : Nat, stat : Nat]
        /\ sidecar.fp <= sidecar.stat /\ sidecar.stat <= source /\ source \in Nat
    BY <2>1 DEF Inv, BaseInv, Order, Shape
  <2>3. sidecar.stat = source
    BY <2>2
  <2>4. BaseIsFresh \/ orphaned
    BY <2>2, <2>3 DEF Inv, BaseInv, BaseIsFresh
  <2> QED BY <2>1, <2>4 DEF Inv, EntityInv, LabelInv
<1> QED BY <1>1, Invariant, PTL

\* Between runs the decisions of the next run, on any exports, accept no half-made
\* artefact, but for the base left beside an orphaned sidecar.
THEOREM NoDebrisUsable == ASSUME OnePolicy PROVE Spec => []NoUsableDebris
<1>1. Inv => NoUsableDebris
  <2> SUFFICES ASSUME Inv, pc = "idle", NEW p \in Policies, BaseHit(NextRun(p))
               PROVE  /\ DOMAIN base = Buckets \/ orphaned
                      /\ EntityHit(NextRun(p)) => entity.whole
                      /\ LabelsHit(NextRun(p)) => labels.whole
    BY DEF NoUsableDebris
  <2>1. NextRun(p).policy = p /\ NextRun(p).fp = source
    BY DEF NextRun
  <2>2. sidecar # None /\ sidecar.fp = source /\ sidecar.stat = source
    BY <2>1, NotNone DEF BaseHit, BaseRecord
  <2>3. DOMAIN base = Buckets \/ orphaned
    BY <2>2 DEF Inv, BaseInv
  <2>4. EntityHit(NextRun(p)) => entity.whole
    <3>1. ASSUME EntityHit(NextRun(p))
          PROVE  manifests[p] # None /\ manifests[p].base = base
      BY <2>1, <3>1, NotNone DEF EntityHit, EntityRecord
    <3> QED BY <3>1 DEF Inv, EntityInv, Projection
  <2>5. LabelsHit(NextRun(p)) => labels.whole
    <3>1. LabelKey(NextRun(p), base).record.base = base
      BY DEF LabelKey, EntityRecord
    <3>2. ASSUME LabelsHit(NextRun(p))
          PROVE  labels = LabelsOf(Projection(LabelKey(NextRun(p), base).policy, base, TRUE))
      BY <3>1, <3>2 DEF LabelsHit, Inv, LabelInv
    <3> QED BY <3>2 DEF LabelsOf
  <2> QED BY <2>3, <2>4, <2>5
<1> QED BY <1>1, Invariant, PTL

\* While the exports are those of the last run that ended well, every decision of a run
\* of its policy is a hit: nothing on disk is written.
THEOREM RepeatRebuildsNothing == ASSUME OnePolicy PROVE Spec => NothingRebuilt
<1>1. ASSUME Inv, [Next]_vars, pc # "idle", run.useCache, source = run.fp, settled = Settled(run)
      PROVE  UNCHANGED disk
  <2>1. settled # None /\ settled.version = source /\ settled.policy = run.policy
    BY <1>1, NotNone DEF Settled
  <2>2. /\ pc \notin Building \cup Copying \cup {"writing", "key"}
        /\ DOMAIN base # {} /\ sidecar # None /\ sidecar.fp = source /\ sidecar.stat = source
        /\ manifests[run.policy] = EntityRecord(run, base)
        /\ LabelKey(run, base) \in labelKeys
    BY <1>1, <2>1 DEF Inv, SettledInv, EntityRecord, LabelKey
  <2>3. run.policy \in Policies
    BY <1>1 DEF Inv, Shape, RunType
  <2>4. ~BaseClear
    BY <1>1, <2>2, MatchIsHit DEF BaseClear
  <2>5. ~EntityCopy
    <3>1. manifests[run.policy] # None /\ manifests[run.policy].base = base
      BY <2>2, NotNone DEF EntityRecord
    <3>2. entity # None
      BY <1>1, <2>3, <3>1, NotNone DEF Inv, EntityInv
    <3> QED BY <1>1, <2>2, <3>2 DEF EntityCopy, EntityHit
  <2>6. ~LabelsWrite
    <3>1. LabelKey(run, base).record.base = base
      BY DEF LabelKey, EntityRecord
    <3>2. labels # None
      BY <1>1, <2>2, <3>1, NotNone DEF Inv, LabelInv
    <3> QED BY <1>1, <2>2, <3>2 DEF LabelsWrite, LabelsHit
  <2>7. /\ ~WriteSidecar /\ ~EntityCopied /\ ~WriteManifest /\ ~LabelsWritten /\ ~WriteLabelKey
        /\ \A b \in Buckets : ~Move(b)
    BY <2>2 DEF Building, Copying, WriteSidecar, EntityCopied, WriteManifest, LabelsWritten,
                WriteLabelKey, Move
  <2> QED BY <1>1, <2>4, <2>5, <2>6, <2>7
          DEF Next, vars, disk, Replace, OtherSnapshot, Begin, BaseReuse, Stage, EntityReuse,
              LabelsReuse, Finish, Stop
<1> QED BY <1>1, Invariant, PTL DEF Spec, NothingRebuilt
===============================================================================
