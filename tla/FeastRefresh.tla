---------------------------- MODULE FeastRefresh ----------------------------
(***************************************************************************)
(* The Feast online refresh of deploy processes that share one bundle      *)
(* (deploy/main.py, serving/feast_online_refresh.py).  A process refreshes *)
(* at its start when the readiness document does not let it score, checks  *)
(* the online store, and then serves: a supervisor thread polls the        *)
(* readiness and refreshes the layers that have become due.  A lock file   *)
(* keeps two refreshes apart.                                              *)
(*                                                                         *)
(* Time is in ticks, DayLen of them in a gaming day (a Hong Kong calendar  *)
(* date), MonthLen days in a month.  The anchor of a layer is the newest   *)
(* day its features include.                                               *)
(***************************************************************************)
EXTENDS Integers, FiniteSets

CONSTANTS
    Procs,          \* deploy processes, of mode all or scorer
    Required,       \* layers the model takes from Feast
    StartModes,     \* how processes are started: subset of AllModes
    Seeded,         \* whether the bundle holds a training seed for the bootstrap
    DayLen, TargetTick,   \* ticks of a day; tick of mid_term_refresh_target_hour
    MonthLen,
    HostLag,        \* ticks the host's date is behind the Hong Kong date
    MidCap,         \* mid_term_stale_hard_cap_days
    StartTime, MaxTime, MaxFaults,   \* bounds of the model
    NoOwner

Layers == {"mid", "slow"}
AllModes == {"plain", "forced", "skip"}   \* --force-feast-refresh, --no-feast-startup-refresh

ASSUME ProcsAssumption == NoOwner \notin Procs
ASSUME LayersAssumption == Required \subseteq Layers /\ Required # {}
ASSUME ModesAssumption == StartModes \subseteq AllModes /\ Seeded \in BOOLEAN
ASSUME TimeAssumption ==
    /\ DayLen \in Nat \ {0} /\ MonthLen \in Nat \ {0}
    /\ HostLag \in Nat /\ TargetTick \in Nat /\ MidCap \in Nat
    /\ StartTime \in Nat /\ MaxTime \in Nat /\ MaxFaults \in Nat
    /\ StartTime >= MonthLen * DayLen + HostLag

NoAnchor == -1

VARIABLES
    clock,
    online,      \* online store: anchor of each layer
    registry,    \* registry.db: "missing", "drifted" or "ready"
    parquet,     \* whether the mid Feast parquet exists
    readiness,   \* feast_online_readiness.json: anchor of each layer
    pinned,      \* whether it carries an expected anchor of its own for mid
    lock,        \* the lock file, by the process that wrote its pid into it
    pc,          \* where each process is
    serving,     \* processes whose start has succeeded
    job,         \* the refresh of each process
    lost,        \* history: layers a forced start deleted, not yet announced again
    faults

stores == <<online, registry, parquet>>
document == <<readiness, pinned>>
vars == <<clock, stores, document, lock, pc, serving, job, lost, faults>>

-----------------------------------------------------------------------------
Today == clock \div DayLen
HostDay == (clock - HostLag) \div DayLen

\* previous_calendar_month_end
MonthEnd(day) == (day \div MonthLen) * MonthLen - 1

MidStaleness == Today - 1 - readiness["mid"]

\* evaluate_mid_term_freshness, with the expected anchor of the document or not.
MidBreached(expectsOwn) ==
    readiness["mid"] = NoAnchor \/ (~expectsOwn /\ MidStaleness > MidCap)

\* evaluate_slow_freshness: called without month_epochs, every day is post-gap.
SlowBreached == readiness["slow"] # MonthEnd(Today)

\* evaluate_feast_readiness_gate
GateOk ==
    /\ "mid" \in Required => ~MidBreached(pinned)
    /\ "slow" \in Required => readiness["slow"] # NoAnchor /\ ~SlowBreached

\* _feast_mid_refresh_needed
MidNeeded ==
    \/ MidBreached(FALSE)
    \/ MidStaleness > 0 /\ clock % DayLen >= TargetTick
\* Mutant: the slow layer is left alone on the first day of a month.
SlowNeededMutantGapDay == SlowBreached /\ Today % MonthLen # 0
\* _feast_slow_refresh_needed: nothing is ever `stale_allowed`, so the day of the
\* last check has no effect.
SlowNeeded == SlowBreached

\* Mutant: the layers by their names in the readiness document.
NeededMutantDocumentNames ==
    {IF l = "mid" THEN "mid_term" ELSE "slow_patron" : l \in Required}
Needed == {l \in Required : IF l = "mid" THEN MidNeeded ELSE SlowNeeded}

\* Stages of a refresh that lie between taking the lock and giving it back.
Holding == {"prepare", "compute", "apply", "register", "materialize", "smoke",
            "publish", "release"}
NoJob == [layers |-> {}, starting |-> FALSE, forced |-> FALSE, bootstrap |-> FALSE,
          apply |-> FALSE, left |-> {}, got |-> [l \in Layers |-> NoAnchor]]

Goto(p, label) == pc' = [pc EXCEPT ![p] = label]

-----------------------------------------------------------------------------
\* A bundle comes without a registry or with one of older definitions.
Init ==
    /\ clock = StartTime
    /\ online = [l \in Layers |-> NoAnchor]
    /\ registry \in {"missing", "drifted"}
    /\ parquet = FALSE
    /\ readiness = [l \in Layers |-> NoAnchor] /\ pinned = FALSE
    /\ lock = NoOwner
    /\ pc = [p \in Procs |-> "down"]
    /\ serving = {}
    /\ job = [p \in Procs |-> NoJob]
    /\ lost = {}
    /\ faults = 0

Tick ==
    /\ clock < MaxTime
    /\ clock' = clock + 1
    /\ UNCHANGED <<stores, document, lock, pc, serving, job, lost, faults>>

-----------------------------------------------------------------------------
(* The start of a process, up to its refresh.                              *)

\* main: the refresh is skipped when it is not asked for or not needed.
Start(p, mode) ==
    /\ pc[p] = "down"
    /\ IF mode = "forced" \/ (mode = "plain" /\ ~GateOk)
       THEN /\ job' = [job EXCEPT ![p] = [NoJob EXCEPT !.layers = Required,
                                                       !.starting = TRUE,
                                                       !.forced = (mode = "forced")]]
            /\ Goto(p, "acquire")
       ELSE /\ job' = [job EXCEPT ![p] = NoJob]
            /\ Goto(p, "check")
    /\ UNCHANGED <<clock, stores, document, lock, serving, lost, faults>>

\* Mutant: the lock file is opened without O_EXCL.
LockFreeMutantAlways == TRUE
LockFree == lock = NoOwner

Acquire(p) ==
    /\ pc[p] = "acquire"
    /\ LockFree
    /\ lock' = p
    /\ Goto(p, "prepare")
    /\ UNCHANGED <<clock, stores, document, serving, job, lost, faults>>

\* The wait for the lock is over: a start is given up, the supervisor skips a round.
GiveUp(p) ==
    /\ pc[p] = "acquire"
    /\ ~LockFree
    /\ Goto(p, IF job[p].starting THEN "down" ELSE "idle")
    /\ UNCHANGED <<clock, stores, document, lock, serving, job, lost, faults>>

\* Mutant: the supervisor's refreshes may bootstrap as well.
BootstrapsMutantSupervisor(p) == "mid" \in Required
\* _mid_feast_needs_bootstrap; the supervisor never does.
Bootstraps(p) ==
    /\ job[p].starting
    /\ "mid" \in Required
    /\ job[p].forced \/ readiness["mid"] = NoAnchor \/ ~parquet \/ registry = "missing"

Prepare(p) ==
    /\ pc[p] = "prepare"
    /\ job' = [job EXCEPT ![p].bootstrap = Bootstraps(p),
                          ![p].apply = Bootstraps(p) \/ registry # "ready"]
    /\ Goto(p, "compute")
    /\ UNCHANGED <<clock, stores, document, lock, serving, lost, faults>>

-----------------------------------------------------------------------------
(* run_feast_online_refresh                                                *)

\* The newest day in the artifact of a layer.  The slow one asks the host for
\* the date.
Computed(l) == IF l = "mid" THEN Today - 1 ELSE MonthEnd(HostDay)

\* _refresh_mid_layer, _refresh_slow_layer: exports, artifacts, Feast parquets.
Compute(p) ==
    /\ pc[p] = "compute"
    /\ job' = [job EXCEPT ![p].got = [l \in Layers |->
                   IF l \in job[p].layers THEN Computed(l) ELSE NoAnchor],
                          ![p].left = job[p].layers]
    /\ parquet' = (parquet \/ "mid" \in job[p].layers)
    /\ Goto(p, "apply")
    /\ UNCHANGED <<clock, online, registry, document, lock, serving, lost, faults>>

NothingToApply(p) ==
    /\ pc[p] = "apply"
    /\ ~job[p].apply
    /\ Goto(p, "materialize")
    /\ UNCHANGED <<clock, stores, document, lock, serving, job, lost, faults>>

\* reset_feast_repo_runtime_state: a bootstrap deletes registry and online store.
Reset(p) ==
    /\ pc[p] = "apply"
    /\ job[p].apply
    /\ IF job[p].bootstrap /\ registry # "missing"
       THEN /\ registry' = "missing"
            /\ online' = [l \in Layers |-> NoAnchor]
            /\ lost' = IF job[p].forced THEN Layers ELSE lost
       ELSE UNCHANGED <<registry, online, lost>>
    /\ Goto(p, "register")
    /\ UNCHANGED <<clock, parquet, document, lock, serving, job, faults>>

\* feast apply
Register(p) ==
    /\ pc[p] = "register"
    /\ registry' = "ready"
    /\ Goto(p, "materialize")
    /\ UNCHANGED <<clock, online, parquet, document, lock, serving, job, lost, faults>>

\* run_feast_materialize_views: mid first.
Materialize(p, l) ==
    /\ pc[p] = "materialize"
    /\ l \in job[p].left
    /\ l = "slow" => "mid" \notin job[p].left
    /\ online' = [online EXCEPT ![l] = job[p].got[l]]
    /\ job' = [job EXCEPT ![p].left = @ \ {l}]
    /\ UNCHANGED <<clock, registry, parquet, document, lock, pc, serving, lost, faults>>

Materialized(p) ==
    /\ pc[p] = "materialize"
    /\ job[p].left = {}
    /\ Goto(p, "smoke")
    /\ UNCHANGED <<clock, stores, document, lock, serving, job, lost, faults>>

\* run_allowlist_feast_lookup_smoke over the refreshed layers.
Smoke(p) ==
    /\ pc[p] = "smoke"
    /\ \A l \in job[p].layers : online[l] # NoAnchor
    /\ Goto(p, "publish")
    /\ UNCHANGED <<clock, stores, document, lock, serving, job, lost, faults>>

\* Mutant: the anchors of the day of publication.
MergedMutantNow(p) ==
    [l \in Layers |-> IF l \in job[p].layers THEN Computed(l) ELSE readiness[l]]
\* merge_layer_readiness
Merged(p) == [l \in Layers |-> IF l \in job[p].layers THEN job[p].got[l] ELSE readiness[l]]

Publish(p) ==
    /\ pc[p] = "publish"
    /\ readiness' = Merged(p)
    /\ pinned' = IF "mid" \in job[p].layers THEN job[p].bootstrap /\ Seeded ELSE pinned
    /\ lost' = lost \ job[p].layers
    /\ Goto(p, "release")
    /\ UNCHANGED <<clock, stores, lock, serving, job, faults>>

Release(p) ==
    /\ pc[p] = "release"
    /\ lock' = NoOwner
    /\ Goto(p, IF job[p].starting THEN "check" ELSE "idle")
    /\ UNCHANGED <<clock, stores, document, serving, job, lost, faults>>

-----------------------------------------------------------------------------
(* Serving.                                                                *)

\* _run_deploy_feast_smoke_or_raise, and with it the scorer's own start.
Check(p) ==
    /\ pc[p] = "check"
    /\ IF GateOk /\ \A l \in Required : online[l] # NoAnchor
       THEN /\ serving' = serving \cup {p}
            /\ Goto(p, "idle")
       ELSE /\ Goto(p, "down")
            /\ UNCHANGED serving
    /\ UNCHANGED <<clock, stores, document, lock, job, lost, faults>>

\* _feast_refresh_supervisor_once: the layers are chosen before the lock is taken.
Poll(p) ==
    /\ pc[p] = "idle"
    /\ Needed # {}
    /\ job' = [job EXCEPT ![p] = [NoJob EXCEPT !.layers = Needed]]
    /\ Goto(p, "acquire")
    /\ UNCHANGED <<clock, stores, document, lock, serving, lost, faults>>

-----------------------------------------------------------------------------
(* Faults.                                                                 *)

Fault == faults < MaxFaults /\ faults' = faults + 1

\* An export, feast apply, a materialisation, the smoke, the publication or the
\* report after it raises: a start exits, the supervisor logs it, both give the
\* lock back.
RefreshFails(p) ==
    /\ pc[p] \in Holding \ {"prepare"}
    /\ Fault
    /\ IF job[p].starting
       THEN lock' = NoOwner /\ Goto(p, "down")
       ELSE UNCHANGED lock /\ Goto(p, "release")
    /\ UNCHANGED <<clock, stores, document, serving, job, lost>>

\* What is called between taking the lock and the try block raises: the lock
\* file stays.  A start exits, the supervisor's thread ends.
PrepareFails(p) ==
    /\ pc[p] = "prepare"
    /\ Fault
    /\ Goto(p, IF job[p].starting THEN "down" ELSE "dead")
    /\ UNCHANGED <<clock, stores, document, lock, serving, job, lost>>

\* feature_state_meta_set or the load of the readiness raises in a poll.
PollFails(p) ==
    /\ pc[p] = "idle"
    /\ Fault
    /\ Goto(p, "dead")
    /\ UNCHANGED <<clock, stores, document, lock, serving, job, lost>>

\* The process dies, and whatever it held stays as it is.
Crash(p) ==
    /\ pc[p] # "down"
    /\ Fault
    /\ Goto(p, "down")
    /\ serving' = serving \ {p}
    /\ UNCHANGED <<clock, stores, document, lock, job, lost>>

-----------------------------------------------------------------------------
Refresh(p) ==
    \/ Prepare(p) \/ Compute(p) \/ NothingToApply(p) \/ Reset(p) \/ Register(p)
    \/ \E l \in Layers : Materialize(p, l)
    \/ Materialized(p) \/ Smoke(p) \/ Publish(p) \/ Release(p)

Advance(p) == Acquire(p) \/ GiveUp(p) \/ Refresh(p) \/ Check(p) \/ Poll(p)

Fails(p) == RefreshFails(p) \/ PrepareFails(p) \/ PollFails(p) \/ Crash(p)

Next ==
    \/ Tick
    \/ \E p \in Procs, mode \in StartModes : Start(p, mode)
    \/ \E p \in Procs : Advance(p) \/ Fails(p)

Spec == Init /\ [][Next]_vars

\* Time passes, and the threads of a process that has been started go on.
FairSpec == Spec /\ WF_vars(Tick) /\ \A p \in Procs : WF_vars(Advance(p))

-----------------------------------------------------------------------------
(* Properties.                                                             *)

Anchors == [Layers -> Int]
Jobs == [layers : SUBSET Layers, starting : BOOLEAN, forced : BOOLEAN,
         bootstrap : BOOLEAN, apply : BOOLEAN, left : SUBSET Layers, got : Anchors]

\* Type correctness of the bundle's files and of the processes.
TypeOK ==
    /\ clock \in Nat /\ faults \in Nat
    /\ online \in Anchors /\ readiness \in Anchors
    /\ registry \in {"missing", "drifted", "ready"}
    /\ parquet \in BOOLEAN /\ pinned \in BOOLEAN
    /\ lock \in Procs \cup {NoOwner}
    /\ pc \in [Procs -> Holding \cup {"down", "acquire", "check", "idle", "dead"}]
    /\ serving \subseteq Procs /\ lost \subseteq Layers
    /\ job \in [Procs -> Jobs]

\* Whoever refreshes holds the lock, so no two processes refresh at once, also
\* after crashes and failed refreshes (Feast Post-Startup Refresh Supervisor -
\* IMPLEMENTATION_PLAN: two deploy processes share the bundle-local lock).
OneRefresher == \A p \in Procs : pc[p] \in Holding => lock = p

\* What the readiness document claims of a layer is online, whichever refreshes
\* failed half way, unless a forced start deleted the layer (last good
\* readiness remains active).
ReadinessBacked ==
    \A l \in Layers \ lost : readiness[l] <= online[l]

\* No refresh takes the readiness of a layer back to an earlier day, however
\* long ago its exports were made (publication under the lock).
ReadinessNeverOlder == [][\A l \in Layers : readiness[l] <= readiness'[l]]_vars

Publication == INSTANCE FeastPublication WITH announced <- readiness

\* The readiness document only ever changes to what is online at that moment,
\* for the refreshed layers together.
ImplementsPublication == Publication!Spec

\* The lock file names a process that is refreshing ("another process holds the
\* refresh lock").
LockHasHolder == lock # NoOwner => pc[lock] \in Holding

\* What blocks a scoring cycle: it asks for the anchor of the day, pinned or not.
Blocked ==
    \/ "mid" \in Required /\ MidBreached(FALSE)
    \/ "slow" \in Required /\ SlowBreached

\* A serving process that has become unable to score is brought back by its
\* supervisor, unless it ends, the supervisor thread has ended, or a lock was
\* left behind (decision 2: log and retry at the next poll).
EventuallyUnblocked ==
    \A p \in Procs :
        (p \in serving /\ Blocked)
            ~> (~Blocked \/ p \notin serving \/ pc[p] = "dead" \/ ~LockHasHolder)
=============================================================================
