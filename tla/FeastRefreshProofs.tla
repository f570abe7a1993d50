------------------------- MODULE FeastRefreshProofs -------------------------
(***************************************************************************)
(* Proofs about FeastRefresh for every value of its constants: types, the  *)
(* exclusion of two refreshes, what backs the readiness document, and the  *)
(* refinement of FeastPublication.                                         *)
(***************************************************************************)
EXTENDS FeastRefresh, TLAPS

-----------------------------------------------------------------------------
(* Types.                                                                  *)

LEMMA ComputedType ==
    ASSUME NEW l \in Layers, clock \in Nat
    PROVE  Computed(l) \in Int
<1>1. /\ clock \in Int /\ HostLag \in Int
      /\ DayLen \in Nat \ {0} /\ MonthLen \in Nat \ {0}
  BY TimeAssumption
<1>. QED
  BY <1>1 DEF Computed, MonthEnd, HostDay, Today

LEMMA NoJobType == NoJob \in Jobs
  BY DEF NoJob, Jobs, Anchors, NoAnchor, Layers

LEMMA NeededType == Needed \subseteq Layers
  BY LayersAssumption DEF Needed

LEMMA InitTypes == Init => TypeOK
<1>. SUFFICES ASSUME Init  PROVE TypeOK
  OBVIOUS
<1>1. job \in [Procs -> Jobs]
  BY NoJobType DEF Init
<1>2. online \in Anchors /\ readiness \in Anchors
  BY DEF Init, Anchors, NoAnchor
<1>3. pc \in [Procs -> Holding \cup {"down", "acquire", "check", "idle", "dead"}]
  BY DEF Init
<1>4. clock \in Nat /\ faults \in Nat
  BY TimeAssumption DEF Init
<1>. QED
  BY <1>1, <1>2, <1>3, <1>4 DEF Init, TypeOK

\* The steps before and after run_feast_online_refresh.
LEMMA OutsideTypes ==
    ASSUME TypeOK, NEW p \in Procs
    PROVE  /\ \A mode \in StartModes : Start(p, mode) => TypeOK'
           /\ Acquire(p) \/ GiveUp(p) \/ Prepare(p) \/ Publish(p) \/ Release(p)
              \/ Check(p) \/ Poll(p) \/ Fails(p) => TypeOK'
<1>. USE DEF TypeOK, stores, document, Goto
<1>1. ASSUME NEW mode \in StartModes, Start(p, mode)  PROVE TypeOK'
  <2>1. [NoJob EXCEPT !.layers = Required, !.starting = TRUE,
                      !.forced = (mode = "forced")] \in Jobs
    BY NoJobType, LayersAssumption DEF Jobs
  <2>. QED
    BY <1>1, <2>1, NoJobType DEF Start
<1>2. CASE Acquire(p)
  BY <1>2 DEF Acquire, Holding
<1>3. CASE GiveUp(p)
  BY <1>3 DEF GiveUp
<1>4. CASE Prepare(p)
  <2>1. [job[p] EXCEPT !.bootstrap = Bootstraps(p),
                       !.apply = Bootstraps(p) \/ registry # "ready"] \in Jobs
    <3>1. Bootstraps(p) \in BOOLEAN
      BY DEF Bootstraps, Jobs
    <3>. QED
      BY <3>1 DEF Jobs
  <2>. QED
    BY <1>4, <2>1 DEF Prepare, Holding
<1>5. CASE Publish(p)
  <2>1. Merged(p) \in Anchors
    BY DEF Merged, Anchors, Jobs
  <2>2. pinned' \in BOOLEAN
    BY <1>5, ModesAssumption DEF Publish, Jobs
  <2>. QED
    BY <1>5, <2>1, <2>2 DEF Publish, Holding
<1>6. CASE Release(p)
  BY <1>6 DEF Release
<1>7. CASE Check(p)
  BY <1>7 DEF Check
<1>8. CASE Poll(p)
  <2>1. [NoJob EXCEPT !.layers = Needed] \in Jobs
    BY NoJobType, NeededType DEF Jobs
  <2>. QED
    BY <1>8, <2>1 DEF Poll
<1>9. CASE Fails(p)
  BY <1>9 DEF Fails, RefreshFails, PrepareFails, PollFails, Crash, Fault, Holding
<1>. QED
  BY <1>1, <1>2, <1>3, <1>4, <1>5, <1>6, <1>7, <1>8, <1>9

\* The steps of run_feast_online_refresh up to the smoke.
LEMMA InsideTypes ==
    ASSUME TypeOK, NEW p \in Procs
    PROVE  Compute(p) \/ NothingToApply(p) \/ Reset(p) \/ Register(p)
           \/ (\E l \in Layers : Materialize(p, l)) \/ Materialized(p) \/ Smoke(p)
           => TypeOK'
<1>. USE DEF TypeOK, stores, document, Goto, Holding
<1>1. CASE Compute(p)
  <2>1. [l \in Layers |-> IF l \in job[p].layers THEN Computed(l) ELSE NoAnchor] \in Anchors
    BY ComputedType DEF Anchors, NoAnchor
  <2>2. [job[p] EXCEPT !.got = [l \in Layers |->
             IF l \in job[p].layers THEN Computed(l) ELSE NoAnchor],
                       !.left = job[p].layers] \in Jobs
    BY <2>1 DEF Jobs
  <2>3. parquet' \in BOOLEAN
    BY <1>1 DEF Compute
  <2>. QED
    BY <1>1, <2>2, <2>3 DEF Compute
<1>2. CASE NothingToApply(p)
  BY <1>2 DEF NothingToApply
<1>3. CASE Reset(p)
  BY <1>3 DEF Reset, Anchors, NoAnchor
<1>4. CASE Register(p)
  BY <1>4 DEF Register
<1>5. ASSUME NEW l \in Layers, Materialize(p, l)  PROVE TypeOK'
  <2>1. [job[p] EXCEPT !.left = @ \ {l}] \in Jobs
    BY DEF Jobs
  <2>2. online' \in Anchors
    BY <1>5 DEF Materialize, Anchors, Jobs
  <2>. QED
    BY <1>5, <2>1, <2>2 DEF Materialize
<1>6. CASE Materialized(p)
  BY <1>6 DEF Materialized
<1>7. CASE Smoke(p)
  BY <1>7 DEF Smoke
<1>. QED
  BY <1>1, <1>2, <1>3, <1>4, <1>5, <1>6, <1>7

LEMMA TypesPreserved == TypeOK /\ [Next]_vars => TypeOK'
<1>. SUFFICES ASSUME TypeOK, [Next]_vars  PROVE TypeOK'
  OBVIOUS
<1>1. CASE Tick
  BY <1>1 DEF Tick, TypeOK, stores, document
<1>2. ASSUME NEW p \in Procs, NEW mode \in StartModes, Start(p, mode)  PROVE TypeOK'
  BY <1>2, OutsideTypes
<1>3. ASSUME NEW p \in Procs, Advance(p) \/ Fails(p)  PROVE TypeOK'
  BY <1>3, OutsideTypes, InsideTypes DEF Advance, Refresh
<1>4. CASE UNCHANGED vars
  BY <1>4 DEF TypeOK, vars, stores, document
<1>. QED
  BY <1>1, <1>2, <1>3, <1>4 DEF Next

\* The bundle's files and the processes are well formed in every reachable state.
THEOREM TypeCorrect == Spec => []TypeOK
<1>. QED
  BY InitTypes, TypesPreserved, PTL DEF Spec

-----------------------------------------------------------------------------
(* The inductive invariant: OneRefresher, and how the stores, the document *)
(* and a refresh under way go together.                                    *)

\* Neither the store nor the document is ahead of what can be computed.
NotAhead == \A l \in Layers : readiness[l] <= Computed(l) /\ online[l] <= Computed(l)

\* The document has no slow layer without the mid one, where that is required.
MidFirst ==
    "mid" \in Required /\ readiness["mid"] = NoAnchor => readiness["slow"] = NoAnchor

\* A document with the mid layer has the mid parquet behind it.
MidBuilt == ~parquet => readiness["mid"] = NoAnchor

Unannounced == \A l \in Layers : readiness[l] = NoAnchor

\* The stages at which a refresh has its artifacts.
Built == {"apply", "register", "materialize", "smoke", "publish"}

\* The artifacts of a refresh are no older than document and store, and those
\* that have been materialised are in the store.
Artifacts(p) ==
    /\ job[p].left \subseteq job[p].layers
    /\ "mid" \in job[p].layers => parquet
    /\ \A l \in job[p].layers :
          /\ readiness[l] <= job[p].got[l] /\ online[l] <= job[p].got[l]
          /\ NoAnchor <= job[p].got[l] /\ job[p].got[l] <= Computed(l)
          /\ l \notin job[p].left => online[l] = job[p].got[l]

RefreshOf(p) ==
    /\ /\ pc[p] \in Holding \cup {"acquire"} 
       /\ "mid" \in Required /\ readiness["mid"] = NoAnchor
       => "mid" \in job[p].layers
    /\ pc[p] \in {"compute", "apply"} /\ job[p].bootstrap /\ ~job[p].forced
       => registry = "missing" \/ Unannounced
    /\ pc[p] \in Built => Artifacts(p)
    /\ pc[p] \in {"apply", "register"} => job[p].left = job[p].layers
    /\ pc[p] \in {"smoke", "publish"} => job[p].left = {}
    /\ pc[p] = "publish" => \A l \in job[p].layers : job[p].got[l] # NoAnchor

IInv ==
    /\ TypeOK
    /\ OneRefresher
    /\ clock >= StartTime
    /\ NotAhead
    /\ MidFirst
    /\ MidBuilt
    /\ ReadinessBacked
    /\ \A p \in Procs : RefreshOf(p)

-----------------------------------------------------------------------------
\* An anchor that can be computed never gets older, and there is always one.
LEMMA ComputedGrows ==
    ASSUME NEW l \in Layers, clock \in Nat, clock' = clock + 1
    PROVE  Computed(l) <= Computed(l)'
<1>. /\ clock \in Int /\ HostLag \in Int
     /\ DayLen \in Nat \ {0} /\ MonthLen \in Nat \ {0}
  BY TimeAssumption
<1>1. Today \in Int /\ Today' \in Int /\ Today <= Today'
  BY DEF Today
<1>2. HostDay \in Int /\ HostDay' \in Int /\ HostDay <= HostDay'
  BY DEF HostDay
<1>3. ASSUME NEW x \in Int, NEW y \in Int, x <= y  PROVE MonthEnd(x) <= MonthEnd(y)
  <2>1. /\ x \div MonthLen \in Int /\ y \div MonthLen \in Int
        /\ x \div MonthLen <= y \div MonthLen
    BY <1>3
  <2>2. ASSUME NEW m \in Int, NEW n \in Int, m <= n
        PROVE  m * MonthLen - 1 <= n * MonthLen - 1
    BY <2>2
  <2>. QED
    BY <2>1, <2>2 DEF MonthEnd
<1>4. MonthEnd(HostDay) <= MonthEnd(HostDay)'
  <2>1. MonthEnd(HostDay)' = MonthEnd(HostDay')
    BY DEF MonthEnd
  <2>. QED
    BY <2>1, <1>2, <1>3
<1>5. Today - 1 <= Today' - 1
  BY <1>1 DEF Today
<1>. QED
  BY <1>4, <1>5 DEF Computed

LEMMA ComputedExists ==
    ASSUME NEW l \in Layers, clock \in Nat, clock >= StartTime
    PROVE  NoAnchor <= Computed(l)
<1>. /\ clock \in Int /\ HostLag \in Nat /\ StartTime \in Nat
     /\ DayLen \in Nat \ {0} /\ MonthLen \in Nat \ {0}
     /\ StartTime >= MonthLen * DayLen + HostLag
  BY TimeAssumption
<1>1. MonthLen * DayLen \in Nat
  OBVIOUS
<1>2. Today \in Nat /\ HostDay \in Nat
  BY <1>1 DEF Today, HostDay
<1>3. HostDay \div MonthLen \in Nat
  BY <1>2
<1>4. (HostDay \div MonthLen) * MonthLen \in Nat
  BY <1>3
<1>. QED
  BY <1>2, <1>4 DEF Computed, MonthEnd, NoAnchor

LEMMA InitIInv == Init => IInv
<1>. SUFFICES ASSUME Init  PROVE IInv
  OBVIOUS
<1>1. TypeOK
  BY InitTypes
<1>2. clock >= StartTime
  BY TimeAssumption DEF Init
<1>3. NotAhead
  BY <1>1, <1>2, ComputedExists DEF Init, NotAhead, TypeOK
<1>4. MidFirst /\ MidBuilt /\ ReadinessBacked
  BY DEF Init, MidFirst, MidBuilt, ReadinessBacked, Layers, NoAnchor
<1>5. \A p \in Procs : pc[p] = "down"
  BY DEF Init
<1>. QED
  BY <1>1, <1>2, <1>3, <1>4, <1>5 DEF IInv, OneRefresher, RefreshOf, Holding, Built

-----------------------------------------------------------------------------
(* Steps that leave files and clock alone.                                 *)

files == <<clock, online, registry, parquet, readiness, lost>>

LEMMA QuietStep ==
    ASSUME IInv, UNCHANGED files
    PROVE  /\ clock' >= StartTime
           /\ NotAhead' /\ MidFirst' /\ MidBuilt' /\ ReadinessBacked'
           /\ \A q \in Procs : pc'[q] = pc[q] /\ job'[q] = job[q] => RefreshOf(q)'
<1>1. /\ clock' = clock /\ online' = online /\ registry' = registry
      /\ parquet' = parquet /\ readiness' = readiness /\ lost' = lost
  BY DEF files
<1>2. \A l \in Layers : Computed(l)' = Computed(l)
  BY <1>1 DEF Computed, MonthEnd, HostDay, Today
<1>3. /\ clock' >= StartTime
      /\ NotAhead' /\ MidFirst' /\ MidBuilt' /\ ReadinessBacked'
  BY <1>1, <1>2 DEF IInv, NotAhead, MidFirst, MidBuilt, ReadinessBacked
<1>4. ASSUME NEW q \in Procs, pc'[q] = pc[q], job'[q] = job[q]  PROVE RefreshOf(q)'
  <2>1. RefreshOf(q)
    BY DEF IInv
  <2>2. job[q].layers \subseteq Layers
    BY DEF IInv, TypeOK, Jobs
  <2>3. Artifacts(q)' <=> Artifacts(q)
    BY <1>1, <1>2, <1>4, <2>2 DEF Artifacts
  <2>. QED
    BY <1>1, <1>4, <2>1, <2>3 DEF RefreshOf, Unannounced
<1>. QED
  BY <1>3, <1>4

\* Of such a step by p it remains to show what becomes of p's own refresh.
LEMMA QuietStepOf ==
    ASSUME IInv, TypeOK', UNCHANGED files, NEW p \in Procs,
           \A q \in Procs \ {p} : pc'[q] = pc[q] /\ job'[q] = job[q],
           OneRefresher', RefreshOf(p)'
    PROVE  IInv'
  BY QuietStep DEF IInv


LEMMA StartKeeps ==
    ASSUME IInv, TypeOK', NEW p \in Procs, NEW mode \in StartModes, Start(p, mode)
    PROVE  IInv'
<1>. USE DEF Start, stores, document, Goto
<1>1. UNCHANGED files
  BY DEF files
<1>2. \A q \in Procs \ {p} : pc'[q] = pc[q] /\ job'[q] = job[q]
  BY DEF IInv, TypeOK
<1>3. OneRefresher'
  BY DEF IInv, TypeOK, OneRefresher, Holding
<1>4. \/ pc'[p] = "check"
      \/ pc'[p] = "acquire" /\ job'[p].layers = Required
  <2>. DEFINE asked == mode = "forced" \/ (mode = "plain" /\ ~GateOk)
              new == [NoJob EXCEPT !.layers = Required, !.starting = TRUE,
                                   !.forced = (mode = "forced")]
  <2>1. new.layers = Required
    BY DEF NoJob
  <2>2. pc \in [Procs -> Holding \cup {"down", "acquire", "check", "idle", "dead"}]
        /\ job \in [Procs -> Jobs]
    BY DEF IInv, TypeOK
  <2>3. CASE asked
    <3>1. job' = [job EXCEPT ![p] = new] /\ pc' = [pc EXCEPT ![p] = "acquire"]
      BY <2>3
    <3>. QED
      BY <2>1, <2>2, <3>1
  <2>4. CASE ~asked
    BY <2>2, <2>4
  <2>. QED
    BY <2>3, <2>4
<1>5. RefreshOf(p)'
  BY <1>4 DEF RefreshOf, Holding, Built
<1>. QED
  BY <1>1, <1>2, <1>3, <1>5, QuietStepOf

LEMMA AcquireKeeps ==
    ASSUME IInv, TypeOK', NEW p \in Procs, Acquire(p)
    PROVE  IInv'
<1>. USE DEF Acquire, stores, document, Goto
<1>1. UNCHANGED files
  BY DEF files
<1>2. \A q \in Procs \ {p} : pc'[q] = pc[q] /\ job'[q] = job[q]
  BY DEF IInv, TypeOK
<1>3. OneRefresher'
  BY ProcsAssumption DEF IInv, TypeOK, OneRefresher, LockFree
<1>4. pc'[p] = "prepare" /\ job'[p] = job[p]
  BY DEF IInv, TypeOK
<1>5. RefreshOf(p)'
  BY <1>4 DEF IInv, RefreshOf, Holding, Built
<1>. QED
  BY <1>1, <1>2, <1>3, <1>5, QuietStepOf

LEMMA LeavingKeeps ==
    ASSUME IInv, TypeOK', NEW p \in Procs,
           GiveUp(p) \/ Release(p) \/ Check(p) \/ Fails(p)
    PROVE  IInv'
<1>. USE DEF GiveUp, Release, Check, Fails, RefreshFails, PrepareFails, PollFails, Crash,
             Fault, stores, document, Goto
<1>1. UNCHANGED files
  BY DEF files
<1>2. \A q \in Procs : job'[q] = job[q] /\ (q # p => pc'[q] = pc[q])
  BY DEF IInv, TypeOK
<1>3. \/ pc'[p] \in {"down", "idle", "check", "dead"}
      \/ pc'[p] = "release" /\ pc[p] \in Holding /\ lock' = lock
  <2>1. CASE GiveUp(p) \/ Release(p) \/ Check(p)
    BY <2>1 DEF IInv, TypeOK
  <2>2. CASE Fails(p)
    BY <2>2 DEF IInv, TypeOK
  <2>. QED
    BY <2>1, <2>2
<1>4. lock' = lock \/ (lock' = NoOwner /\ pc[p] \in Holding)
  BY DEF Holding
<1>5. OneRefresher'
  BY <1>2, <1>3, <1>4 DEF IInv, OneRefresher, Holding
<1>6. RefreshOf(p)'
  BY <1>1, <1>2, <1>3 DEF IInv, RefreshOf, Holding, Built, files
<1>. QED
  BY <1>1, <1>2, <1>5, <1>6, QuietStepOf

\* A refresh starts with no bootstrap decided; one that is not forced bootstraps only
\* where nothing has been announced or the registry is missing.
LEMMA PrepareKeeps ==
    ASSUME IInv, TypeOK', NEW p \in Procs, Prepare(p)
    PROVE  IInv'
<1>. USE DEF Prepare, stores, document, Goto
<1>1. UNCHANGED files
  BY DEF files
<1>2. \A q \in Procs \ {p} : pc'[q] = pc[q] /\ job'[q] = job[q]
  BY DEF IInv, TypeOK
<1>3. OneRefresher'
  BY DEF IInv, TypeOK, OneRefresher, Holding
<1>4. /\ pc'[p] = "compute"
      /\ job'[p].layers = job[p].layers /\ job'[p].forced = job[p].forced
      /\ job'[p].bootstrap = Bootstraps(p)
  BY DEF IInv, TypeOK, Jobs
<1>5. Bootstraps(p) /\ ~job[p].forced => registry = "missing" \/ Unannounced
  BY DEF Bootstraps, IInv, MidFirst, MidBuilt, Unannounced, Layers
<1>6. RefreshOf(p)
  BY DEF IInv
<1>7. RefreshOf(p)'
  BY <1>1, <1>4, <1>5, <1>6 DEF RefreshOf, Holding, Built, files, Unannounced
<1>. QED
  BY <1>1, <1>2, <1>3, <1>7, QuietStepOf

LEMMA PollKeeps ==
    ASSUME IInv, TypeOK', NEW p \in Procs, Poll(p)
    PROVE  IInv'
<1>. USE DEF Poll, stores, document, Goto
<1>1. UNCHANGED files
  BY DEF files
<1>2. \A q \in Procs \ {p} : pc'[q] = pc[q] /\ job'[q] = job[q]
  BY DEF IInv, TypeOK
<1>3. OneRefresher'
  BY DEF IInv, TypeOK, OneRefresher, Holding
<1>4. pc'[p] = "acquire" /\ job'[p].layers = Needed
  BY DEF IInv, TypeOK, NoJob
<1>5. "mid" \in Required /\ readiness["mid"] = NoAnchor => "mid" \in Needed
  BY DEF Needed, MidNeeded, MidBreached
<1>6. RefreshOf(p)'
  BY <1>4, <1>5 DEF RefreshOf, Holding, Built
<1>. QED
  BY <1>1, <1>2, <1>3, <1>6, QuietStepOf

\* What is materialised stays so up to the publication.
LEMMA PassingKeeps ==
    ASSUME IInv, TypeOK', NEW p \in Procs,
           NothingToApply(p) \/ Materialized(p) \/ Smoke(p)
    PROVE  IInv'
<1>. USE DEF NothingToApply, Materialized, Smoke, stores, document, Goto
<1>1. UNCHANGED files
  BY DEF files
<1>2. \A q \in Procs : job'[q] = job[q] /\ (q # p => pc'[q] = pc[q])
  BY DEF IInv, TypeOK
<1>3. OneRefresher'
  BY DEF IInv, TypeOK, OneRefresher, Holding
<1>4. \/ pc[p] = "apply" /\ pc'[p] = "materialize"
      \/ pc[p] = "materialize" /\ pc'[p] = "smoke" /\ job[p].left = {}
      \/ /\ pc[p] = "smoke" /\ pc'[p] = "publish"
         /\ \A l \in job[p].layers : online[l] # NoAnchor
  BY DEF IInv, TypeOK
<1>5. RefreshOf(p) /\ Artifacts(p)
  BY <1>4 DEF IInv, RefreshOf, Built
<1>6. Artifacts(p)'
  <2>1. \A l \in Layers : Computed(l)' = Computed(l)
    BY <1>1 DEF files, Computed, MonthEnd, HostDay, Today
  <2>. QED
    BY <1>1, <1>2, <1>5, <2>1 DEF Artifacts, files, IInv, TypeOK, Jobs
<1>7. pc'[p] = "publish" => \A l \in job[p].layers : job[p].got[l] # NoAnchor
  BY <1>4, <1>5 DEF RefreshOf, Artifacts
<1>8. RefreshOf(p)'
  BY <1>1, <1>2, <1>4, <1>5, <1>6, <1>7 DEF RefreshOf, Holding, Built, files
<1>. QED
  BY <1>1, <1>2, <1>3, <1>8, QuietStepOf

-----------------------------------------------------------------------------
(* Steps of a refresh that change files.                                   *)

LEMMA LockedStep ==
    ASSUME IInv, TypeOK', NEW p \in Procs, pc[p] \in Holding, pc'[p] \in Holding,
           lock' = lock, clock' = clock,
           \A q \in Procs \ {p} : pc'[q] = pc[q] /\ job'[q] = job[q],
           "mid" \in Required /\ readiness'["mid"] = NoAnchor => readiness["mid"] = NoAnchor,
           RefreshOf(p)', NotAhead', MidFirst', MidBuilt', ReadinessBacked'
    PROVE  IInv'
<1>1. \A q \in Procs \ {p} : pc[q] \notin Holding
  BY DEF IInv, OneRefresher
<1>2. \A q \in Procs \ {p} : RefreshOf(q)'
  BY <1>1 DEF IInv, RefreshOf, Holding, Built
<1>3. OneRefresher'
  BY <1>1 DEF IInv, OneRefresher
<1>. QED
  BY <1>2, <1>3 DEF IInv

LEMMA SameClock ==
    ASSUME clock' = clock
    PROVE  \A l \in Layers : Computed(l)' = Computed(l)
  BY DEF Computed, MonthEnd, HostDay, Today

LEMMA ComputeKeeps ==
    ASSUME IInv, TypeOK', NEW p \in Procs, Compute(p)
    PROVE  IInv'
<1>. USE DEF Compute, document, Goto
<1>. DEFINE new == [l \in Layers |-> IF l \in job[p].layers THEN Computed(l) ELSE NoAnchor]
<1>1. /\ \A q \in Procs \ {p} : pc'[q] = pc[q] /\ job'[q] = job[q]
      /\ pc[p] = "compute" /\ pc'[p] = "apply"
      /\ clock' = clock /\ lock' = lock /\ registry' = registry /\ lost' = lost
      /\ online' = online /\ readiness' = readiness
  BY DEF IInv, TypeOK
<1>2. /\ job'[p].layers = job[p].layers /\ job'[p].left = job[p].layers
      /\ job'[p].bootstrap = job[p].bootstrap /\ job'[p].forced = job[p].forced
      /\ job'[p].got = new
  <2>1. job' = [job EXCEPT ![p] = [[@ EXCEPT !.got = new] EXCEPT !.left = job[p].layers]]
    BY DEF IInv, TypeOK
  <2>2. job \in [Procs -> Jobs]
    BY DEF IInv, TypeOK
  <2>. HIDE DEF new, Compute
  <2>3. job'[p] = [[job[p] EXCEPT !.got = new] EXCEPT !.left = job[p].layers]
    BY <2>1, <2>2
  <2>. QED
    BY <2>2, <2>3 DEF Jobs
<1>3. parquet' = (parquet \/ "mid" \in job[p].layers)
  OBVIOUS
<1>4. job[p].layers \subseteq Layers
  BY DEF IInv, TypeOK, Jobs
<1>5. \A l \in Layers : Computed(l) \in Int /\ Computed(l)' = Computed(l)
  BY <1>1, SameClock, ComputedType DEF IInv, TypeOK
<1>6. Artifacts(p)'
  <2>1. ASSUME NEW l \in job[p].layers
        PROVE  /\ new[l] = Computed(l)
               /\ readiness[l] <= Computed(l) /\ online[l] <= Computed(l)
               /\ NoAnchor <= Computed(l) /\ Computed(l) <= Computed(l)
    BY <1>4, <1>5, ComputedExists DEF IInv, NotAhead, TypeOK
  <2>. HIDE DEF new
  <2>2. /\ job'[p].left \subseteq job'[p].layers
        /\ "mid" \in job'[p].layers => parquet'
        /\ \A l \in job'[p].layers : l \in job'[p].left
    BY <1>2, <1>3
  <2>3. ASSUME NEW l \in job[p].layers
        PROVE  /\ readiness'[l] <= job'[p].got[l] /\ online'[l] <= job'[p].got[l]
               /\ NoAnchor <= job'[p].got[l] /\ job'[p].got[l] <= Computed(l)'
    BY <1>1, <1>2, <1>4, <1>5, <2>1
  <2>. QED
    BY <1>2, <2>2, <2>3 DEF Artifacts
<1>7. RefreshOf(p)'
  <2>. HIDE DEF new
  <2>1. RefreshOf(p)
    BY DEF IInv
  <2>. QED
    BY <1>1, <1>2, <1>6, <2>1 DEF RefreshOf, Holding, Built, Unannounced
<1>8. NotAhead' /\ MidFirst' /\ MidBuilt' /\ ReadinessBacked'
  BY <1>1, <1>3, <1>5 DEF IInv, NotAhead, MidFirst, MidBuilt, ReadinessBacked
<1>9. pc[p] \in Holding /\ pc'[p] \in Holding
  BY <1>1 DEF Holding
<1>. QED
  BY <1>1, <1>7, <1>8, <1>9, LockedStep

\* The reset of a bootstrap: nothing has been announced, or everything is counted lost.
LEMMA ResetKeeps ==
    ASSUME IInv, TypeOK', NEW p \in Procs, Reset(p)
    PROVE  IInv'
<1>. USE DEF Reset, document, Goto
<1>1. /\ \A q \in Procs : job'[q] = job[q] /\ (q # p => pc'[q] = pc[q])
      /\ pc[p] = "apply" /\ pc'[p] = "register"
      /\ clock' = clock /\ lock' = lock /\ parquet' = parquet /\ readiness' = readiness
  BY DEF IInv, TypeOK
<1>2. job[p].layers \subseteq Layers
  BY DEF IInv, TypeOK, Jobs
<1>3. \A l \in Layers : Computed(l)' = Computed(l) /\ NoAnchor <= Computed(l)
  BY <1>1, SameClock, ComputedExists DEF IInv, TypeOK
<1>4. RefreshOf(p) /\ Artifacts(p) /\ job[p].left = job[p].layers
  BY <1>1 DEF IInv, RefreshOf, Built
<1>5. \/ online' = online /\ lost' = lost
      \/ /\ online' = [l \in Layers |-> NoAnchor]
         /\ lost' = Layers \/ (lost' = lost /\ Unannounced)
  BY <1>1, <1>4 DEF RefreshOf
<1>6. \A l \in Layers : online'[l] = online[l] \/ online'[l] = NoAnchor
  BY <1>5
<1>7. NotAhead' /\ MidFirst' /\ MidBuilt'
  BY <1>1, <1>3, <1>6 DEF IInv, NotAhead, MidFirst, MidBuilt
<1>8. ReadinessBacked'
  <2>1. CASE online' = online /\ lost' = lost
    BY <1>1, <2>1 DEF IInv, ReadinessBacked
  <2>2. CASE online' = [l \in Layers |-> NoAnchor] /\ lost' = Layers
    BY <2>2 DEF ReadinessBacked
  <2>3. CASE online' = [l \in Layers |-> NoAnchor] /\ Unannounced
    BY <1>1, <2>3 DEF ReadinessBacked, Unannounced, NoAnchor
  <2>. QED
    BY <1>5, <2>1, <2>2, <2>3
<1>9. Artifacts(p)'
  <2>1. ASSUME NEW l \in job[p].layers
        PROVE  online'[l] <= job[p].got[l]
    BY <1>2, <1>4, <1>6 DEF Artifacts
  <2>2. /\ job'[p] = job[p]
        /\ \A l \in job[p].layers : l \in job[p].left
    BY <1>1, <1>4
  <2>3. /\ job[p].left \subseteq job[p].layers
        /\ "mid" \in job[p].layers => parquet'
        /\ \A l \in job[p].layers :
              /\ readiness'[l] <= job[p].got[l]
              /\ NoAnchor <= job[p].got[l] /\ job[p].got[l] <= Computed(l)'
    BY <1>1, <1>2, <1>3, <1>4 DEF Artifacts
  <2>. QED
    BY <2>1, <2>2, <2>3 DEF Artifacts
<1>10. RefreshOf(p)'
  BY <1>1, <1>4, <1>9 DEF RefreshOf, Holding, Built, Unannounced
<1>11. pc[p] \in Holding /\ pc'[p] \in Holding
  BY <1>1 DEF Holding
<1>. QED
  BY <1>1, <1>7, <1>8, <1>10, <1>11, LockedStep

LEMMA RegisterKeeps ==
    ASSUME IInv, TypeOK', NEW p \in Procs, Register(p)
    PROVE  IInv'
<1>. USE DEF Register, document, Goto
<1>1. /\ \A q \in Procs : job'[q] = job[q] /\ (q # p => pc'[q] = pc[q])
      /\ pc[p] = "register" /\ pc'[p] = "materialize"
      /\ clock' = clock /\ lock' = lock /\ parquet' = parquet /\ lost' = lost
      /\ online' = online /\ readiness' = readiness
  BY DEF IInv, TypeOK
<1>2. \A l \in Layers : Computed(l)' = Computed(l)
  BY <1>1, SameClock
<1>3. RefreshOf(p) /\ Artifacts(p)
  BY <1>1 DEF IInv, RefreshOf, Built
<1>4. Artifacts(p)'
  BY <1>1, <1>2, <1>3 DEF Artifacts, IInv, TypeOK, Jobs
<1>5. RefreshOf(p)'
  BY <1>1, <1>3, <1>4 DEF RefreshOf, Holding, Built
<1>6. NotAhead' /\ MidFirst' /\ MidBuilt' /\ ReadinessBacked'
  BY <1>1, <1>2 DEF IInv, NotAhead, MidFirst, MidBuilt, ReadinessBacked
<1>7. pc[p] \in Holding /\ pc'[p] \in Holding
  BY <1>1 DEF Holding
<1>. QED
  BY <1>1, <1>5, <1>6, <1>7, LockedStep

\* What is materialised is no older than what is announced.
LEMMA MaterializeKeeps ==
    ASSUME IInv, TypeOK', NEW p \in Procs, NEW m \in Layers, Materialize(p, m)
    PROVE  IInv'
<1>. USE DEF Materialize, document
<1>1. /\ \A q \in Procs : pc'[q] = pc[q] /\ (q # p => job'[q] = job[q])
      /\ pc[p] = "materialize" /\ m \in job[p].left
      /\ clock' = clock /\ lock' = lock /\ parquet' = parquet /\ lost' = lost
      /\ readiness' = readiness
  BY DEF IInv, TypeOK
<1>2. /\ job'[p].layers = job[p].layers /\ job'[p].left = job[p].left \ {m}
      /\ job'[p].got = job[p].got
  BY DEF IInv, TypeOK, Jobs
<1>3. /\ \A l \in Layers : Computed(l)' = Computed(l) /\ Computed(l) \in Int
      /\ job[p].layers \subseteq Layers
  BY <1>1, SameClock, ComputedType DEF IInv, TypeOK, Jobs
<1>4. RefreshOf(p) /\ Artifacts(p)
  BY <1>1 DEF IInv, RefreshOf, Built
<1>5. m \in job[p].layers
  BY <1>1, <1>4 DEF Artifacts
<1>6. \A l \in Layers : online'[l] = IF l = m THEN job[p].got[m] ELSE online[l]
  BY DEF IInv, TypeOK, Anchors
<1>7. /\ readiness[m] <= job[p].got[m] /\ job[p].got[m] <= Computed(m)
      /\ job[p].got[m] \in Int
  BY <1>4, <1>5 DEF Artifacts, IInv, TypeOK, Jobs, Anchors
<1>8. Artifacts(p)'
  <2>1. job'[p].left \subseteq job'[p].layers /\ ("mid" \in job'[p].layers => parquet')
    BY <1>1, <1>2, <1>4 DEF Artifacts
  <2>2. ASSUME NEW l \in job[p].layers
        PROVE  /\ readiness[l] <= job[p].got[l] /\ online'[l] <= job[p].got[l]
               /\ NoAnchor <= job[p].got[l] /\ job[p].got[l] <= Computed(l)
               /\ l \notin job'[p].left => online'[l] = job[p].got[l]
    BY <1>2, <1>3, <1>4, <1>6, <1>7 DEF Artifacts
  <2>. QED
    BY <1>1, <1>2, <1>3, <2>1, <2>2 DEF Artifacts
<1>9. RefreshOf(p)'
  BY <1>1, <1>2, <1>4, <1>8 DEF RefreshOf, Holding, Built
<1>10. NotAhead' /\ ReadinessBacked'
  BY <1>1, <1>3, <1>6, <1>7 DEF IInv, NotAhead, ReadinessBacked
<1>11. MidFirst' /\ MidBuilt'
  BY <1>1 DEF IInv, MidFirst, MidBuilt
<1>12. pc[p] \in Holding /\ pc'[p] \in Holding
  BY <1>1 DEF Holding
<1>. QED
  BY <1>1, <1>9, <1>10, <1>11, <1>12, LockedStep

\* What a publication does to the document: the refreshed layers get what is online.
LEMMA Published ==
    ASSUME IInv, NEW p \in Procs, Publish(p)
    PROVE  \A l \in Layers :
              IF l \in job[p].layers
              THEN /\ readiness'[l] = online[l] /\ online[l] # NoAnchor
                   /\ readiness[l] <= online[l]
              ELSE readiness'[l] = readiness[l]
<1>1. RefreshOf(p) /\ Artifacts(p) /\ job[p].left = {}
  BY DEF Publish, IInv, RefreshOf, Built
<1>2. pc[p] = "publish" /\ readiness' = Merged(p)
  BY DEF Publish
<1>3. \A l \in job[p].layers :
         /\ online[l] = job[p].got[l] /\ job[p].got[l] # NoAnchor
         /\ readiness[l] <= job[p].got[l]
  BY <1>1, <1>2 DEF RefreshOf, Artifacts
<1>. QED
  BY <1>2, <1>3 DEF Merged

LEMMA PublishKeeps ==
    ASSUME IInv, TypeOK', NEW p \in Procs, Publish(p)
    PROVE  IInv'
<1>1. /\ \A q \in Procs : job'[q] = job[q] /\ (q # p => pc'[q] = pc[q])
      /\ pc[p] = "publish" /\ pc'[p] = "release"
      /\ clock' = clock /\ lock' = lock /\ parquet' = parquet /\ online' = online
      /\ lost' = lost \ job[p].layers
  BY DEF Publish, Goto, stores, IInv, TypeOK
<1>2. \A l \in Layers : Computed(l)' = Computed(l)
  BY <1>1, SameClock
<1>3. \A l \in Layers :
         IF l \in job[p].layers THEN readiness'[l] = online[l] /\ online[l] # NoAnchor
                                ELSE readiness'[l] = readiness[l]
  BY Published
<1>4. RefreshOf(p) /\ Artifacts(p)
  BY <1>1 DEF IInv, RefreshOf, Built
<1>5. "mid" \in Required => readiness'["mid"] # NoAnchor
  BY <1>1, <1>3, <1>4 DEF RefreshOf, Holding, Layers
<1>6. RefreshOf(p)'
  BY <1>1, <1>5 DEF RefreshOf, Built
<1>7. NotAhead' /\ ReadinessBacked'
  BY <1>1, <1>2, <1>3 DEF IInv, TypeOK, Anchors, NotAhead, ReadinessBacked
<1>8. MidFirst'
  BY <1>5 DEF MidFirst
<1>9. MidBuilt'
  BY <1>1, <1>3, <1>4 DEF IInv, MidBuilt, Artifacts, Layers
<1>10. pc[p] \in Holding /\ pc'[p] \in Holding
  BY <1>1 DEF Holding
<1>. QED
  BY <1>1, <1>5, <1>6, <1>7, <1>8, <1>9, <1>10, LockedStep

LEMMA TickKeeps == IInv /\ TypeOK' /\ Tick => IInv'
<1>. SUFFICES ASSUME IInv, TypeOK', Tick  PROVE IInv'
  OBVIOUS
<1>1. /\ clock \in Nat /\ clock' = clock + 1
      /\ UNCHANGED <<online, registry, parquet, readiness, lock, pc, job, lost>>
  BY DEF Tick, stores, document, IInv, TypeOK
<1>2. \A l \in Layers :
         Computed(l) \in Int /\ Computed(l)' \in Int /\ Computed(l) <= Computed(l)'
  <2>1. ASSUME NEW l \in Layers  PROVE Computed(l)' \in Int
    <3>1. clock' \in Int /\ HostLag \in Int /\ DayLen \in Nat \ {0} /\ MonthLen \in Nat \ {0}
      BY <1>1, TimeAssumption
    <3>. QED
      BY <3>1 DEF Computed, MonthEnd, HostDay, Today
  <2>. QED
    BY <1>1, <2>1, ComputedGrows, ComputedType
<1>3. clock' >= StartTime
  BY <1>1, TimeAssumption DEF IInv
<1>4. NotAhead'
  BY <1>1, <1>2 DEF IInv, TypeOK, Anchors, NotAhead
<1>5. ASSUME NEW p \in Procs, Artifacts(p)  PROVE Artifacts(p)'
  <2>1. job[p].layers \subseteq Layers /\ job[p].got \in Anchors
    BY DEF IInv, TypeOK, Jobs
  <2>2. \A l \in job[p].layers : job[p].got[l] <= Computed(l)'
    BY <1>2, <1>5, <2>1 DEF Artifacts, Anchors
  <2>. QED
    BY <1>1, <1>5, <2>2 DEF Artifacts
<1>6. \A p \in Procs : RefreshOf(p)'
  BY <1>1, <1>5 DEF IInv, RefreshOf, Unannounced
<1>. QED
  BY <1>1, <1>3, <1>4, <1>6
     DEF IInv, OneRefresher, MidFirst, MidBuilt, ReadinessBacked

LEMMA StutterKeeps == IInv /\ UNCHANGED vars => IInv'
<1>. SUFFICES ASSUME IInv, UNCHANGED vars  PROVE IInv'
  OBVIOUS
<1>1. UNCHANGED files /\ lock' = lock /\ pc' = pc /\ job' = job
  BY DEF vars, files, stores, document
<1>2. TypeOK' /\ OneRefresher'
  BY DEF vars, stores, document, IInv, TypeOK, OneRefresher
<1>. QED
  BY <1>1, <1>2, QuietStep DEF IInv

LEMMA IInvPreserved == IInv /\ [Next]_vars => IInv'
<1>. SUFFICES ASSUME IInv, [Next]_vars  PROVE IInv'
  OBVIOUS
<1>. TypeOK'
  BY TypesPreserved DEF IInv
<1>1. CASE Tick
  BY <1>1, TickKeeps
<1>2. ASSUME NEW p \in Procs, NEW mode \in StartModes, Start(p, mode)  PROVE IInv'
  BY <1>2, StartKeeps
<1>3. ASSUME NEW p \in Procs, Advance(p)  PROVE IInv'
  <2>1. CASE Refresh(p)
    BY <2>1, PrepareKeeps, ComputeKeeps, PassingKeeps, ResetKeeps, RegisterKeeps,
       MaterializeKeeps, PublishKeeps, LeavingKeeps DEF Refresh
  <2>2. CASE Acquire(p) \/ GiveUp(p) \/ Check(p) \/ Poll(p)
    BY <2>2, AcquireKeeps, LeavingKeeps, PollKeeps
  <2>. QED
    BY <1>3, <2>1, <2>2 DEF Advance
<1>4. ASSUME NEW p \in Procs, Fails(p)  PROVE IInv'
  BY <1>4, LeavingKeeps
<1>5. CASE UNCHANGED vars
  BY <1>5, StutterKeeps
<1>. QED
  BY <1>1, <1>2, <1>3, <1>4, <1>5 DEF Next

THEOREM InvariantHolds == Spec => []IInv
<1>. QED
  BY InitIInv, IInvPreserved, PTL DEF Spec

-----------------------------------------------------------------------------
\* No two processes refresh at once, whatever has crashed.
THEOREM RefreshersExclude == Spec => []OneRefresher
<1>1. IInv => OneRefresher
  BY DEF IInv
<1>. QED
  BY <1>1, InvariantHolds, PTL

\* What the readiness document claims is in the online store, unless a forced
\* start has deleted it.
THEOREM DocumentBacked == Spec => []ReadinessBacked
<1>1. IInv => ReadinessBacked
  BY DEF IInv
<1>. QED
  BY <1>1, InvariantHolds, PTL

LEMMA OnlyPublishAnnounces ==
    ASSUME IInv, [Next]_vars
    PROVE  readiness' = readiness \/ \E p \in Procs : Publish(p)
<1>1. CASE Tick
  BY <1>1 DEF Tick, document
<1>2. ASSUME NEW p \in Procs, NEW mode \in StartModes, Start(p, mode)
      PROVE  readiness' = readiness
  BY <1>2 DEF Start, document
<1>3. ASSUME NEW p \in Procs, Advance(p)  PROVE readiness' = readiness \/ Publish(p)
  BY <1>3 DEF Advance, Refresh, Acquire, GiveUp, Check, Poll, Prepare, Compute,
     NothingToApply, Reset, Register, Materialize, Materialized, Smoke, Release, document
<1>4. ASSUME NEW p \in Procs, Fails(p)  PROVE readiness' = readiness
  BY <1>4 DEF Fails, RefreshFails, PrepareFails, PollFails, Crash, document
<1>5. CASE UNCHANGED vars
  BY <1>5 DEF vars, document
<1>. QED
  BY <1>1, <1>2, <1>3, <1>4, <1>5 DEF Next

\* No refresh announces an earlier day than has been announced.
THEOREM DocumentNeverOlder == Spec => ReadinessNeverOlder
<1>1. ASSUME IInv, [Next]_vars
      PROVE  \A l \in Layers : readiness[l] <= readiness'[l]
  <2>1. CASE readiness' = readiness
    BY <1>1, <2>1 DEF IInv, TypeOK, Anchors
  <2>2. ASSUME NEW p \in Procs, Publish(p)
        PROVE  \A l \in Layers : readiness[l] <= readiness'[l]
    BY <1>1, <2>2, Published DEF IInv, TypeOK, Anchors
  <2>. QED
    BY <1>1, <2>1, <2>2, OnlyPublishAnnounces
<1>. QED
  BY <1>1, InvariantHolds, PTL DEF Spec, ReadinessNeverOlder

-----------------------------------------------------------------------------
(* The refinement of FeastPublication.                                     *)

LEMMA InitPublication == Init => Publication!Init
  BY DEF Init, Publication!Init

LEMMA StepPublication ==
    ASSUME IInv, [Next]_vars
    PROVE  [Publication!Next]_<<online, readiness>>
<1>1. CASE Tick
  BY <1>1 DEF Tick, stores, document
<1>2. ASSUME NEW p \in Procs, NEW mode \in StartModes, Start(p, mode)
      PROVE  UNCHANGED <<online, readiness>>
  BY <1>2 DEF Start, stores, document
<1>3. ASSUME NEW p \in Procs, Acquire(p) \/ GiveUp(p) \/ Check(p) \/ Poll(p)
      PROVE  UNCHANGED <<online, readiness>>
  BY <1>3 DEF Acquire, GiveUp, Check, Poll, stores, document
<1>4. ASSUME NEW p \in Procs, Refresh(p)
      PROVE  [Publication!Next]_<<online, readiness>>
  <2>1. CASE \/ Prepare(p) \/ Compute(p) \/ NothingToApply(p) \/ Register(p)
             \/ Materialized(p) \/ Smoke(p) \/ Release(p)
    BY <2>1 DEF Prepare, Compute, NothingToApply, Register, Materialized, Smoke, Release,
       stores, document
  <2>2. CASE Reset(p)
    <3>1. /\ readiness' = readiness
          /\ online' = online \/ online' = [l \in Layers |-> NoAnchor]
      BY <2>2 DEF Reset, document
    <3>. QED
      BY <3>1 DEF Publication!Next, Publication!Wipe
  <2>3. ASSUME NEW m \in Layers, Materialize(p, m)
        PROVE  Publication!PutOnline(m)
    <3>1. RefreshOf(p) /\ Artifacts(p) /\ m \in job[p].layers
      BY <2>3 DEF Materialize, IInv, RefreshOf, Built, Artifacts
    <3>2. online[m] <= job[p].got[m] /\ job[p].got[m] \in Int
      BY <3>1 DEF Artifacts, IInv, TypeOK, Jobs, Anchors
    <3>3. /\ online' = [online EXCEPT ![m] = job[p].got[m]]
          /\ online'[m] = job[p].got[m] /\ readiness' = readiness
      BY <2>3 DEF Materialize, document, IInv, TypeOK, Anchors
    <3>. QED
      BY <3>2, <3>3 DEF Publication!PutOnline
  <2>4. CASE Publish(p)
    <3>1. job[p].layers \in SUBSET Layers /\ online' = online
      BY <2>4 DEF Publish, stores, IInv, TypeOK, Jobs
    <3>2. \A l \in job[p].layers : online[l] # NoAnchor /\ readiness[l] <= online[l]
      BY <2>4, <3>1, Published
    <3>3. readiness' = [l \in Layers |-> IF l \in job[p].layers THEN online[l]
                                                                ELSE readiness[l]]
      BY <2>4, <3>1, Published DEF Publish, Merged
    <3>4. Publication!Announce(job[p].layers)
      BY <3>1, <3>2, <3>3 DEF Publication!Announce
    <3>. QED
      BY <3>1, <3>4 DEF Publication!Next
  <2>. QED
    BY <1>4, <2>1, <2>2, <2>3, <2>4 DEF Refresh, Publication!Next
<1>5. ASSUME NEW p \in Procs, Fails(p)  PROVE UNCHANGED <<online, readiness>>
  BY <1>5 DEF Fails, RefreshFails, PrepareFails, PollFails, Crash, stores, document
<1>6. CASE UNCHANGED vars
  BY <1>6 DEF vars, stores, document
<1>. QED
  BY <1>1, <1>2, <1>3, <1>4, <1>5, <1>6 DEF Next, Advance

\* The refresh publishes the way FeastPublication says.
THEOREM PublicationImplemented == Spec => ImplementsPublication
<1>1. Init => Publication!Init
  BY InitPublication
<1>2. IInv /\ [Next]_vars => [Publication!Next]_<<online, readiness>>
  BY StepPublication
<1>. QED
  BY <1>1, <1>2, InvariantHolds, PTL DEF Spec, ImplementsPublication, Publication!Spec
=============================================================================
