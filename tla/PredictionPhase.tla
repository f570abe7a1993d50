--------------------------- MODULE PredictionPhase ---------------------------
(***************************************************************************)
(* The second phase of a validator cycle, validate_predictions_once in     *)
(* trainer_hightier/serving/validator.py: the oldest scored predictions    *)
(* that are not marked as processed are judged like alerts, on the bets    *)
(* the alert phase left in the bet cache and on a fetch of its own, within *)
(* what is left of the cycle's time budget.  Verdicts and marks lie in the *)
(* prediction log's database and expire.                                   *)
(*                                                                         *)
(* Bets reach the warehouse late and may be moved to another player id;    *)
(* every exception of the phase is swallowed, so that the next cycle       *)
(* starts over, and the process may die between any two steps.             *)
(***************************************************************************)
EXTENDS WalkawayRules, FiniteSets

CONSTANTS
    Bets,              \* bet ids
    Players,           \* player ids, one canonical id each
    Placeholder,       \* the player of a row that the queries leave out: the placeholder's,
                       \* or one whose payout or wager was taken back
    Owner,             \* whose bet it may be when it arrives: Bets -> SUBSET Players
    Lags,              \* how long after its payout a bet may reach the warehouse
    Buffer,            \* VALIDATOR_FRESHNESS_BUFFER_MINUTES
    ExtendedWait,      \* VALIDATOR_EXTENDED_WAIT_MINUTES
    Finality,          \* VALIDATOR_FINALITY_HOURS
    FinalizeOnHorizon, \* VALIDATOR_FINALIZE_ON_HORIZON
    MaxRows,           \* PREDICTION_VALIDATION_MAX_ROWS_PER_CYCLE
    Retention,         \* PREDICTION_VALIDATION_RETENTION_DAYS, 0 for none
    RetryLimit,        \* VALIDATOR_NO_BET_RETRY_MAX_ALERTS
    RetryWindow,       \* VALIDATOR_NO_BET_RETRY_MAX_WINDOW_MINUTES
    MayDrift,          \* bets that the ETL may move to another player id, or take back
    LastPayout, LastDrift, MaxCycleTime, MaxTime, MaxFailures   \* bounds of the model

ASSUME BetsAssumption ==
    IsFiniteSet(Bets) /\ Owner \in [Bets -> SUBSET Players] /\ Placeholder \notin Players
ASSUME PolicyAssumption ==
    /\ {Buffer, ExtendedWait, Finality, Retention} \subseteq Nat
    /\ FinalizeOnHorizon \in BOOLEAN
ASSUME LimitsAssumption ==
    /\ {MaxRows, RetryLimit} \subseteq Nat \ {0}
    /\ RetryWindow \in Nat /\ Lookahead + Buffer + ExtendedWait <= RetryWindow
ASSUME EnvironmentAssumption ==
    /\ Lags \subseteq Nat /\ MayDrift \subseteq Bets
    /\ {LastPayout, LastDrift, MaxCycleTime, MaxTime, MaxFailures} \subseteq Nat

VARIABLES
    clock,
    bets,        \* warehouse: bet id -> player, payout ts, and `at`, since when so
    log,         \* prediction_log, scored rows: bet id -> player, bet_ts
    results,     \* prediction_validation_results: bet id -> verdict, validated_at
    processed,   \* processed_predictions: bet id -> processed_ts
    resolved,    \* _NO_BET_BET_ID_RESOLVED_CACHE of the process
    pc,          \* where the phase is
    now,         \* now_hk of the phase
    pending,     \* in-cycle: pending_df
    betCache,    \* in-cycle: player -> payout times
    fetchedAt,   \* history: when the phase fetched bets, Never if that failed
    existing,    \* in-cycle: existing_results
    noBet,       \* in-cycle: no_bet_pending_rows
    done,        \* in-cycle: new_processed_ids
    failures     \* model bound

environment == <<clock, bets, log>>
database == <<results, processed>>
cycle == <<now, pending, betCache, fetchedAt, existing, noBet, done>>
vars == <<environment, database, resolved, pc, cycle, failures>>

Empty == [x \in {} |-> 0]
Never == -1

-----------------------------------------------------------------------------
(* The verdict on a prediction.                                            *)

Wait == Lookahead + Buffer
EndOfWait(b) == log[b].ts + Lookahead + ExtendedWait

\* validate_observation_row on b with the bet cache T.
V(b, T) == Verdict(T[log[b].player], log[b].ts, clock >= EndOfWait(b), FinalizeOnHorizon)

Decided(v) == v \in {"MATCH", "MISS", "PENDING"}

\* The prediction is finished: a MATCH, or older than the finality.
Final(b, v) == v = "MATCH" \/ log[b].ts <= now - Finality

\* A row as it is made now; `asof` is history, of a MATCH only.
Row(v) == [verdict |-> v, at |-> clock, asof |-> IF v = "MATCH" THEN fetchedAt ELSE Never]

\* _apply_pending_validation_result: the row of b after the verdict v, when the
\* rows were `old`.
StoredRow(old, b, v) ==
    IF v # "MATCH" /\ Final(b, v) THEN Row("MISS")
    ELSE IF \/ b \notin DOMAIN old
            \/ v = "MATCH" /\ old[b].verdict # "MATCH"
            \/ v = "MISS" /\ old[b].verdict = "PENDING"
         THEN Row(v)
    ELSE old[b]

\* dict.update, and the upsert of a table.
Updated(old, new) ==
    [b \in DOMAIN old \cup DOMAIN new |-> IF b \in DOMAIN new THEN new[b] ELSE old[b]]

-----------------------------------------------------------------------------
Init ==
    /\ clock = 0 /\ bets = Empty /\ log = Empty
    /\ results = Empty /\ processed = Empty
    /\ resolved = [p \in Players |-> {}]
    /\ pc = "idle"
    /\ now = 0 /\ pending = {}
    /\ betCache = [p \in Players |-> {}] /\ fetchedAt = Never
    /\ existing = Empty /\ noBet = {} /\ done = {}
    /\ failures = 0

-----------------------------------------------------------------------------
(* Environment: time, the warehouse and the scorer's prediction log.       *)

Tick ==
    /\ clock < MaxTime
    /\ pc = "idle" \/ clock < now + MaxCycleTime
    /\ clock' = clock + 1
    /\ UNCHANGED <<bets, log, database, resolved, pc, cycle, failures>>

Arrive(b, p, lag) ==
    /\ b \notin DOMAIN bets
    /\ p \in Owner[b]
    /\ lag <= clock /\ clock <= LastPayout + lag
    /\ bets' = [c \in DOMAIN bets \cup {b} |->
                  IF c = b THEN [player |-> p, ts |-> clock - lag, at |-> clock]
                           ELSE bets[c]]
    /\ UNCHANGED <<clock, log, database, resolved, pc, cycle, failures>>

\* The row is in the warehouse and no query of the validator, by player or by bet id,
\* returns it: payout NULL, no wager, or a player that is NULL or the placeholder.
Hidden(b) == b \in DOMAIN bets /\ bets[b].player = Placeholder

Drift(b, p) ==
    /\ b \in DOMAIN bets \cap MayDrift
    /\ clock <= LastDrift
    /\ p # bets[b].player
    /\ bets' = [bets EXCEPT ![b].player = p, ![b].at = clock]
    /\ UNCHANGED <<clock, log, database, resolved, pc, cycle, failures>>

LogPrediction(b) ==
    /\ b \in DOMAIN bets \ DOMAIN log
    /\ ~Hidden(b)
    /\ log' = [c \in DOMAIN log \cup {b} |->
                 IF c = b THEN [player |-> bets[b].player, ts |-> bets[b].ts] ELSE log[c]]
    /\ UNCHANGED <<clock, bets, database, resolved, pc, cycle, failures>>

-----------------------------------------------------------------------------
(* One run of the phase.                                                   *)

\* The subsets of S with its n oldest predictions: ORDER BY bet_ts ASC LIMIT n,
\* predictions of the same instant in any order.
Oldest(S, n) ==
    {T \in SUBSET S :
        /\ Cardinality(T) = IF Cardinality(S) < n THEN Cardinality(S) ELSE n
        /\ \A b \in T, c \in S \ T : log[b].ts <= log[c].ts}

Payouts(p) == {bets[b].ts : b \in {c \in DOMAIN bets : bets[c].player = p}}

\* What the alert phase of the same cycle may have left in the bet cache: the bets
\* from `from` on of the players it had open alerts of, fetched before `now`, and
\* payouts that an earlier cycle recovered by bet id; nothing when it failed or had
\* no alerts.
LeftByAlerts(players, from, merged) ==
    [p \in Players |->
        LET known   == {c \in DOMAIN bets : bets[c].player = p /\ bets[c].at <= now}
            fetched == {x \in {bets[c].ts : c \in known} : p \in players /\ from <= x}
        IN  IF fetched = {} /\ merged THEN resolved[p] ELSE fetched]
Lefts == {LeftByAlerts(players, from, merged) :
             players \in SUBSET Players, from \in 0 .. now, merged \in BOOLEAN}

\* prune_prediction_validation_retention: what is not older than the retention.
MarkKept(b) == Retention = 0 \/ processed[b] >= clock - Retention
\* Mutant: a verdict stays for longer than its mark.
RowKeptMutantLonger(b) == Retention = 0 \/ results[b].at >= clock - Retention - 1
RowKept(b) == Retention = 0 \/ results[b].at >= clock - Retention

\* The predictions that have been waited for and are not marked.
Open(marked) == {b \in DOMAIN log \ DOMAIN marked : log[b].ts <= clock - Wait}

\* validate_predictions_once up to the fetch: verdicts and marks are pruned in one
\* commit, then the batch and the results are read.  A read of the results that
\* raises is swallowed and gives none.  With nothing open the phase returns.
Begin(readFails) ==
    /\ pc = "idle"
    /\ readFails => failures < MaxFailures
    /\ results' = [b \in {c \in DOMAIN results : RowKept(c)} |-> results[b]]
    /\ processed' = [b \in {c \in DOMAIN processed : MarkKept(c)} |-> processed[b]]
    /\ IF Open(processed') = {}
       THEN UNCHANGED <<cycle, pc, failures>>
       ELSE /\ pending' \in Oldest(Open(processed'), MaxRows)
            /\ existing' = IF readFails THEN Empty ELSE results'
            /\ now' = clock
            /\ failures' = IF readFails THEN failures + 1 ELSE failures
            /\ pc' = "fetch"
            /\ UNCHANGED <<betCache, fetchedAt, noBet, done>>
    /\ UNCHANGED <<environment, resolved>>

\* The in-cycle variables are gone with the cycle.
CycleOver ==
    /\ pc' = "idle"
    /\ now' = 0 /\ pending' = {}
    /\ betCache' = [p \in Players |-> {}] /\ fetchedAt' = Never
    /\ existing' = Empty /\ noBet' = {} /\ done' = {}

\* The payouts of player p from the oldest pending prediction on: no floor.
FetchWindow(x) == \E b \in pending : log[b].ts <= x
Fetched(p) == {x \in Payouts(p) : FetchWindow(x) /\ \E b \in pending : log[b].player = p}

\* Mutant: only the players that are not in the bet cache yet are extended.
ExtendedMutantMissingOnly(left, p) == IF left[p] = {} THEN Fetched(p) ELSE left[p]
\* The bet cache is extended for every player of the batch.
Extended(left, p) == left[p] \cup Fetched(p)

\* _fetch_prediction_bet_cache_extension.  A failure is logged and the phase goes
\* on with what the alert phase left.
Fetch(answered) ==
    /\ pc = "fetch"
    /\ answered \/ failures < MaxFailures
    /\ failures' = IF answered THEN failures ELSE failures + 1
    /\ \E left \in Lefts :
         betCache' = [p \in Players |-> IF answered THEN Extended(left, p) ELSE left[p]]
    /\ fetchedAt' = IF answered THEN clock ELSE Never
    /\ pc' = "judge"
    /\ UNCHANGED <<environment, database, resolved, now, pending, existing, noBet, done>>

\* The rows of S that get a verdict with the bet cache T, the rows table after
\* those are applied to `old`, and those that are finished by it.
Judged(S, T) == {b \in S : Decided(V(b, T))}
Applied(old, S, T) == Updated(old, [b \in Judged(S, T) |-> StoredRow(old, b, V(b, T))])
Finished(S, T) == {b \in Judged(S, T) : Final(b, V(b, T))}

\* The pass over the batch, as far as the budget goes.  With the budget spent the
\* phase goes straight to saving.
Judge(S, inTime) ==
    /\ pc = "judge"
    /\ inTime => S = pending
    /\ inTime \/ failures < MaxFailures
    /\ failures' = IF inTime THEN failures ELSE failures + 1
    /\ existing' = Applied(existing, S, betCache)
    /\ done' = Finished(S, betCache)
    /\ noBet' = {b \in S : V(b, betCache) = "no bet data"}
    /\ pc' = IF ~inTime THEN "save" ELSE IF noBet' = {} THEN "settle" ELSE "retry"
    /\ UNCHANGED <<environment, database, resolved, now, pending, betCache, fetchedAt>>

\* The window of the retry query of player p: the spans of the player's rows in
\* S, cut around the middle when longer than RetryWindow.
RetryWindowHas(S, p, x) ==
    LET rows == {b \in S : log[b].player = p}
        ts   == {log[b].ts : b \in rows}
        lo   == CHOOSE t \in ts : \A u \in ts : t <= u
        hi   == (CHOOSE t \in ts : \A u \in ts : u <= t) + Lookahead + Buffer + ExtendedWait
        mid  == (lo + hi) \div 2
        half == RetryWindow \div 2
    IN  /\ rows # {}
        /\ IF hi - lo <= RetryWindow THEN lo <= x /\ x <= hi
                                     ELSE mid - half <= x /\ x <= mid + half

\* What the two queries of _fetch_bets_for_no_bet_rows bring for player p.
InWindow(S, p, answered) == {x \in Payouts(p) : p \in answered /\ RetryWindowHas(S, p, x)}
\* Mutant: the recovery by bet id looks for the bets under the player again.
OwnBetsMutantByPlayer(S, p, found) ==
    {bets[b].ts : b \in {c \in S : found /\ log[c].player = p /\ bets[c].player = p}}
\* The payout of each row's own bet, whoever's it is now; a row that the query's
\* conditions leave out brings nothing.
OwnBets(S, p, found) ==
    {bets[b].ts : b \in {c \in S : found /\ log[c].player = p /\ ~Hidden(c)}}

\* The targeted retry of the oldest rows without bets, `slice`, and the second
\* judgement of those of them, S, that the budget allows.
Retry(slice, S, answered, betIdQuery) ==
    /\ pc = "retry"
    /\ LET good == answered = Players /\ betIdQuery /\ S = slice IN
       /\ good \/ failures < MaxFailures
       /\ failures' = IF good THEN failures ELSE failures + 1
    /\ resolved' = [p \in Players |-> resolved[p] \cup OwnBets(slice, p, betIdQuery)]
    /\ betCache' = [p \in Players |-> betCache[p] \cup InWindow(slice, p, answered)
                                                  \cup OwnBets(slice, p, betIdQuery)]
    /\ existing' = Applied(existing, S, betCache')
    /\ done' = done \cup Finished(S, betCache')
    /\ pc' = IF S = slice THEN "settle" ELSE "save"
    /\ UNCHANGED <<environment, database, now, pending, fetchedAt, noBet>>

\* The rows of the batch stored as PENDING are judged once more and finished on a
\* MATCH or a MISS, whatever their age.  With a look-ahead of at least the horizon
\* and the gap a verdict of this phase is never PENDING (WalkawayRules: without
\* late bets the last bet inside the horizon begins a gap), so that there are none
\* and no budget to end between two of them.
Waiting == {b \in pending \cap DOMAIN existing :
              existing[b].verdict = "PENDING" /\ V(b, betCache) \in {"MATCH", "MISS"}}
Settle ==
    /\ pc = "settle"
    /\ existing' = Updated(existing, [b \in Waiting |-> Row(V(b, betCache))])
    /\ done' = done \cup Waiting
    /\ pc' = "save"
    /\ UNCHANGED <<environment, database, resolved, now, pending, betCache, fetchedAt, noBet,
                   failures>>

\* save_prediction_validation_results: every row of existing_results, one commit.
Save ==
    /\ pc = "save"
    /\ results' = Updated(results, existing)
    /\ pc' = "mark"
    /\ UNCHANGED <<environment, processed, resolved, cycle, failures>>

\* mark_processed_predictions, in a commit of its own.
Mark ==
    /\ pc = "mark"
    /\ processed' = Updated(processed, [b \in done |-> clock])
    /\ CycleOver
    /\ UNCHANGED <<environment, results, resolved, failures>>

\* An exception, which _try_validate_predictions_once swallows.
Raise ==
    /\ pc # "idle"
    /\ failures < MaxFailures
    /\ failures' = failures + 1
    /\ CycleOver
    /\ UNCHANGED <<environment, database, resolved>>

\* The process dies and is started again.
Crash ==
    /\ failures < MaxFailures
    /\ failures' = failures + 1
    /\ resolved' = [p \in Players |-> {}]
    /\ CycleOver
    /\ UNCHANGED <<environment, database>>

-----------------------------------------------------------------------------
World == \/ Tick
         \/ \E b \in Bets : \/ \E p \in Players, lag \in Lags : Arrive(b, p, lag)
                            \/ \E p \in Players \cup {Placeholder} : Drift(b, p)
                            \/ LogPrediction(b)
Phase == \/ Begin(FALSE)
         \/ Fetch(TRUE)
         \/ Judge(pending, TRUE)
         \/ \E slice \in Oldest(noBet, RetryLimit) : Retry(slice, slice, Players, TRUE)
         \/ Settle \/ Save \/ Mark
Faults == \/ Begin(TRUE)
          \/ Fetch(FALSE)
          \/ \E n \in 0 .. Cardinality(pending) : \E S \in Oldest(pending, n) : Judge(S, FALSE)
          \/ \E slice \in Oldest(noBet, RetryLimit), n \in 0 .. RetryLimit,
                answered \in SUBSET Players, betIdQuery \in BOOLEAN :
              \E S \in Oldest(slice, n) :
                ~(S = slice /\ answered = Players /\ betIdQuery)
                    /\ Retry(slice, S, answered, betIdQuery)
          \/ Raise \/ Crash
Next == World \/ Phase \/ Faults

Spec == Init /\ [][Next]_vars

\* Every cycle of the validator loop runs the phase, and time passes:
\* validate_once, run_validator_loop.
FairSpec == Spec /\ WF_vars(Phase) /\ WF_vars(Tick)

-----------------------------------------------------------------------------
(* Properties.                                                             *)

IsTable(f, R) == DOMAIN f \subseteq Bets /\ f \in [DOMAIN f -> R]
Rows == [verdict : {"MATCH", "MISS", "PENDING"}, at : Int, asof : Int]
PlayerTimes == [Players -> SUBSET Int]

\* Type correctness of the warehouse, the prediction log's database and the phase.
TypeOK ==
    /\ clock \in Int /\ failures \in Nat
    /\ IsTable(bets, [player : Players \cup {Placeholder}, ts : Int, at : Int])
    /\ IsTable(log, [player : Players, ts : Int]) /\ DOMAIN log \subseteq DOMAIN bets
    /\ IsTable(results, Rows) /\ DOMAIN results \subseteq DOMAIN log
    /\ IsTable(processed, Int) /\ DOMAIN processed \subseteq DOMAIN log
    /\ resolved \in PlayerTimes
    /\ pc \in {"idle", "fetch", "judge", "retry", "settle", "save", "mark"}
    /\ now \in Int /\ fetchedAt \in Int
    /\ pending \subseteq DOMAIN log \ DOMAIN processed
    /\ betCache \in PlayerTimes
    /\ IsTable(existing, Rows) /\ DOMAIN existing \subseteq DOMAIN log
    /\ noBet \subseteq pending /\ done \subseteq pending \cap DOMAIN existing

\* The bets of b's player that contradict a walk-away after b.
Returns(b) ==
    {c \in DOMAIN bets : /\ bets[c].player = log[b].player
                         /\ bets[c].ts \in LateBets({bets[c].ts}, log[b].ts)}

\* A saved MATCH whose phase did reach the warehouse contradicts no bet that was
\* there: every bet of the player in the late window came, or came to the player,
\* after that look.  Across batches, budgets that end, retries with a window cut
\* short, and rows that a later cycle saves again.
MatchSawNoReturn ==
    \A b \in DOMAIN results :
        results[b].verdict = "MATCH" /\ results[b].asof # Never
        => \A c \in Returns(b) : bets[c].at >= results[b].asof

Book == INSTANCE PredictionBook
    WITH verdict <- [b \in DOMAIN results |-> results[b].verdict],
         closed <- DOMAIN processed

\* The tables keep the promises of PredictionBook: closed only on a saved MATCH or
\* MISS, though verdicts and marks are two commits; a closed verdict stays, though
\* every cycle saves all rows again; and retention never opens a prediction again
\* that has a verdict.
ImplementsBook == Book!Spec

\* A prediction that is old enough, with its extended wait and the finality over
\* within the modelled time.
Ripe(b) == b \in DOMAIN log /\ EndOfWait(b) <= MaxTime /\ log[b].ts + Finality <= MaxTime

\* The open predictions, not younger than b, whose own bets no query returns.  They
\* never get a verdict if their players have no other bets.
Stuck(b) == {c \in DOMAIN log \ DOMAIN processed : Hidden(c) /\ log[c].ts <= log[b].ts}

\* Enough of them hold the places of the batch, or of the retries, for ever.
HeldUp(b) == Cardinality(Stuck(b)) >= MaxRows \/ Cardinality(Stuck(b)) >= RetryLimit

\* The backlog is worked off: again and again every ripe prediction whose own bet a
\* query can return is finished, however few rows a cycle takes, the oldest first,
\* and whoever's bets have moved, unless older predictions hold it up that never get
\* bets.
BacklogClears == []<>(\A b \in Bets : Ripe(b) /\ ~Hidden(b) /\ ~HeldUp(b)
                                        => b \in DOMAIN processed)
=============================================================================
