----------------------------- MODULE Validator -----------------------------
(***************************************************************************)
(* The alert phase of the validator daemon, trainer_hightier/serving/      *)
(* validator.py: one process that looks, every minute, at the alerts it    *)
(* has not finished, fetches the players' bets from the warehouse, judges  *)
(* whether each player walked away after the alerted bet, saves all the    *)
(* verdicts and, in a commit of its own, marks the finished alerts.        *)
(*                                                                         *)
(* Bets reach the warehouse late and may be moved to another player id;    *)
(* the clock runs while a cycle does; any external call may raise, and the *)
(* process may die between any two steps.  Alerts are keyed by bet id.     *)
(***************************************************************************)
EXTENDS Integers, FiniteSets

CONSTANTS
    Bets,              \* bet ids, naturals: the alerts table is read in this order
    MayAlert,          \* bets the scorer may raise an alert for
    Players,           \* player ids, one canonical id each
    Placeholder,       \* the player of a row that the queries leave out: the placeholder's,
                       \* or one whose payout or wager was taken back
    Lags,              \* how long after its payout a bet may reach the warehouse
    Gap, Horizon,      \* WALKAWAY_GAP_MIN, ALERT_HORIZON_MIN
    Lookahead, Buffer, \* LABEL_LOOKAHEAD_MIN, VALIDATOR_FRESHNESS_BUFFER_MINUTES
    ExtendedWait,      \* VALIDATOR_EXTENDED_WAIT_MINUTES
    Finality,          \* VALIDATOR_FINALITY_HOURS
    PreContext,        \* VALIDATOR_FETCH_PRE_CONTEXT_MINUTES
    MaxLookback,       \* VALIDATOR_FETCH_MAX_LOOKBACK_MINUTES, as raised to the policy
    RetryLimit,        \* VALIDATOR_NO_BET_RETRY_MAX_ALERTS
    RetryWindow,       \* VALIDATOR_NO_BET_RETRY_MAX_WINDOW_MINUTES
    FinalizeOnHorizon, \* VALIDATOR_FINALIZE_ON_HORIZON
    PlayerMayDrift,    \* whether the ETL may move a bet to another player id, or take it back
    ReadMayFail,       \* whether reads of state.db may raise (and are swallowed)
    LastDrift, MaxTime, MaxFailures   \* bounds of the model

ASSUME BetsAssumption ==
    /\ Bets \subseteq Nat /\ IsFiniteSet(Bets) /\ MayAlert \subseteq Bets
    /\ Placeholder \notin Players
ASSUME PolicyAssumption ==
    /\ {Gap, Horizon, Lookahead, Buffer, ExtendedWait, Finality, PreContext} \subseteq Nat
    /\ Horizon <= Lookahead
    /\ FinalizeOnHorizon \in BOOLEAN
\* max_lookback_min and the retry window cover one alert's own span.
ASSUME WindowAssumption ==
    /\ MaxLookback \in Nat /\ RetryWindow \in Nat
    /\ Lookahead + Buffer + ExtendedWait + PreContext <= MaxLookback
    /\ Lookahead + Buffer + ExtendedWait + PreContext <= RetryWindow
ASSUME EnvironmentAssumption ==
    /\ Lags \subseteq Nat /\ RetryLimit \in Nat \ {0}
    /\ PlayerMayDrift \in BOOLEAN /\ ReadMayFail \in BOOLEAN
    /\ {LastDrift, MaxTime, MaxFailures} \subseteq Nat

VARIABLES
    clock,
    bets,        \* warehouse: bet id -> player, payout ts, and `at`, when it arrived
    alerts,      \* state.db alerts: bet id -> player, bet_ts
    results,     \* state.db validation_results: bet id -> row
    processed,   \* state.db processed_alerts
    loaded,      \* rows of results with a rowid up to the saved watermark
    cache,       \* existing_results_cache of the process
    resolved,    \* _NO_BET_BET_ID_RESOLVED_CACHE of the process
    rot,         \* _NO_BET_RETRY_ROT_OFFSET of the process
    pc,          \* where the process is in its cycle
    now,         \* now_hk of the cycle
    marked,      \* in-cycle: the alerts that were read as processed
    pending,     \* in-cycle: the alerts due for judgement
    betCache,    \* in-cycle: player -> payout times
    fetchedAt,   \* history: when the cycle's bets were fetched
    existing,    \* in-cycle: existing_results
    noBet,       \* in-cycle: no_bet_pending_rows
    done,        \* in-cycle: new_processed_ids
    failures     \* model bound

environment == <<clock, bets, alerts>>
database == <<results, processed, loaded>>
process == <<cache, resolved, rot>>
cycle == <<now, marked, pending, betCache, fetchedAt, existing, noBet, done>>
vars == <<environment, database, process, pc, cycle, failures>>

Empty == [x \in {} |-> 0]

-----------------------------------------------------------------------------
(* The verdict.                                                            *)

\* An alert may be judged once its look-ahead and the buffer are over.
Wait == Lookahead + Buffer
Due(b, time) == alerts[b].ts <= time - Wait

\* extended_end
EndOfWait(b) == alerts[b].ts + Lookahead + ExtendedWait

\* The payouts of T that contradict a walk-away after a bet at ts.
LateBets(T, ts) == {x \in T : ts + Horizon < x /\ x <= ts + Lookahead}

\* find_gap_within_window with base_start the last payout before ts, if any: a
\* gap of the required length starts in the horizon and ends in the look-ahead.
HasGap(T, ts) ==
    \E s \in T \cup (IF \E x \in T : x < ts THEN {} ELSE {ts}) :
        /\ ts <= s /\ s <= ts + Horizon
        /\ s + Gap <= ts + Lookahead
        /\ \A x \in T : x <= s \/ x >= s + Gap

HasData(T) == T # {}

\* Mutant: the late bets are those in the horizon.
ContradictedMutantHorizon(T, ts) == \E x \in T : ts < x /\ x <= ts + Horizon
Contradicted(T, ts) == LateBets(T, ts) # {}

\* validate_alert_row for the alert b with the payouts T of its player.
Verdict(b, T) ==
    LET ts == alerts[b].ts IN
    IF ~Due(b, clock) THEN "too recent"
    ELSE IF ~HasData(T) THEN "no bet data"
    ELSE IF ~HasGap(T, ts) /\ Contradicted(T, ts) THEN "MISS"
    ELSE IF ~HasGap(T, ts) /\ ~FinalizeOnHorizon THEN "PENDING"
    ELSE IF clock < EndOfWait(b) THEN "wait"
    ELSE IF Contradicted(T, ts) THEN "MISS" ELSE "MATCH"

Decided(v) == v \in {"MATCH", "MISS", "PENDING"}

\* The alert is finished: a MATCH, or older than the finality.
Final(b, v) == v = "MATCH" \/ alerts[b].ts <= now - Finality

\* Mutant: a finished alert keeps the row it has.
StoredRowMutantKeep(old, b, v) ==
    IF b \notin DOMAIN old \/ (v = "MATCH" /\ old[b].verdict # "MATCH")
    THEN [verdict |-> v, asof |-> fetchedAt] ELSE old[b]
\* _apply_pending_validation_result: the row of b after the verdict v, when the
\* rows were `old`.  `asof` is history.
StoredRow(old, b, v) ==
    IF v # "MATCH" /\ Final(b, v) THEN [verdict |-> "MISS", asof |-> fetchedAt]
    ELSE IF \/ b \notin DOMAIN old
            \/ v = "MATCH" /\ old[b].verdict # "MATCH"
            \/ v = "MISS" /\ old[b].verdict = "PENDING"
         THEN [verdict |-> v, asof |-> fetchedAt]
    ELSE old[b]

\* dict.update, and the upsert of a table.
Updated(old, new) ==
    [b \in DOMAIN old \cup DOMAIN new |-> IF b \in DOMAIN new THEN new[b] ELSE old[b]]

-----------------------------------------------------------------------------
Init ==
    /\ clock = 0 /\ bets = Empty /\ alerts = Empty
    /\ results = Empty /\ processed = {} /\ loaded = {}
    /\ cache = Empty /\ resolved = [p \in Players |-> {}] /\ rot = 0
    /\ pc = "idle"
    /\ now = 0 /\ marked = {} /\ pending = {}
    /\ betCache = [p \in Players |-> {}] /\ fetchedAt = 0
    /\ existing = Empty /\ noBet = {} /\ done = {}
    /\ failures = 0

-----------------------------------------------------------------------------
(* Environment: time, the warehouse and the scorer's alerts.               *)

Tick ==
    /\ clock < MaxTime
    /\ clock' = clock + 1
    /\ UNCHANGED <<bets, alerts, database, process, pc, cycle, failures>>

Arrive(b, p, lag) ==
    /\ b \notin DOMAIN bets
    /\ lag <= clock
    /\ bets' = [c \in DOMAIN bets \cup {b} |->
                  IF c = b THEN [player |-> p, ts |-> clock - lag, at |-> clock]
                           ELSE bets[c]]
    /\ UNCHANGED <<clock, alerts, database, process, pc, cycle, failures>>

\* The row is in the warehouse and no query of the validator, by player or by bet id,
\* returns it: payout NULL, no wager, or a player that is NULL or the placeholder.
Hidden(b) == b \in DOMAIN bets /\ bets[b].player = Placeholder

Drift(b, p) ==
    /\ PlayerMayDrift /\ clock <= LastDrift
    /\ b \in DOMAIN bets
    /\ bets' = [bets EXCEPT ![b].player = p]
    /\ UNCHANGED <<clock, alerts, database, process, pc, cycle, failures>>

RaiseAlert(b) ==
    /\ b \in (DOMAIN bets \cap MayAlert) \ DOMAIN alerts
    /\ ~Hidden(b)
    /\ alerts' = [c \in DOMAIN alerts \cup {b} |->
                    IF c = b THEN [player |-> bets[b].player, ts |-> bets[b].ts]
                             ELSE alerts[c]]
    /\ UNCHANGED <<clock, bets, database, process, pc, cycle, failures>>

-----------------------------------------------------------------------------
(* One cycle of the validator.                                             *)

\* load_processed swallows an exception and answers with no marks.
ReadMarks == {processed} \cup (IF ReadMayFail THEN {{}} ELSE {})

\* load_existing_results_incremental: only the rows above the watermark, unless
\* the process has no cache or there is no watermark.
Unread == {b \in DOMAIN results : cache = Empty \/ loaded = {} \/ b \notin loaded}

\* The rows it reads and the watermark it leaves.  The maximal rowid and the rows
\* are read apart and either may raise, swallowed: without the maximum the
\* watermark looks ahead of the table, is deleted, and every row is read.
Loads == {<<Unread, DOMAIN results>>}
         \cup (IF ReadMayFail THEN {<<{}, DOMAIN results>>, <<{}, {}>>,
                                    <<DOMAIN results, DOMAIN results>>} ELSE {})

\* DB-first: cached rows only where the table gave none.
Merged(fromDb) == Updated(cache, [b \in fromDb |-> results[b]])

\* pending_all
Open(readProcessed) == DOMAIN alerts \ readProcessed

\* _validate_alerts_once up to the fetch.  With nothing due it returns early and
\* has changed nothing.
Begin(readProcessed, fromDb, watermark) ==
    /\ pc = "idle"
    /\ marked' = readProcessed \cap DOMAIN alerts
    /\ pending' = {b \in Open(readProcessed) : Due(b, clock)}
    /\ pending' # {}
    /\ now' = clock
    /\ existing' = Merged(fromDb)
    /\ cache' = existing'
    /\ loaded' = watermark
    /\ pc' = "fetch"
    /\ UNCHANGED <<environment, results, processed, resolved, rot, betCache, fetchedAt,
                   noBet, done, failures>>

Payouts(p) == {bets[b].ts : b \in {c \in DOMAIN bets : bets[c].player = p}}

\* Mutant: the window begins where the oldest alert's look-ahead ends.
FetchWindowMutantAfterLookahead(x) ==
    /\ now - MaxLookback <= x /\ x <= now
    /\ \E b \in pending : alerts[b].ts + Lookahead <= x
\* [fetch_start, fetch_end]
FetchWindow(x) ==
    /\ now - MaxLookback <= x /\ x <= now
    /\ \E b \in pending : alerts[b].ts - PreContext <= x

\* What fetch_bets_by_canonical_id returns for a player with bets in the window
\* replaces what was recovered by bet id.
Fetch ==
    /\ pc = "fetch"
    /\ betCache' = [p \in Players |->
                      LET fetched == {x \in Payouts(p) : FetchWindow(x)}
                      IN  IF fetched # {} THEN fetched ELSE resolved[p]]
    /\ fetchedAt' = clock
    /\ pc' = "judge"
    /\ UNCHANGED <<environment, database, process, now, marked, pending, existing, noBet,
                   done, failures>>

\* validate_alert_row on the row b with the bet cache T, and the row it gives.
V(b, T) == Verdict(b, T[alerts[b].player])
Fresh(b, T) == [verdict |-> V(b, T), asof |-> fetchedAt]

\* The rows of S that get a verdict, the rows table after those are applied to
\* `old`, and those that are finished by it.
Judged(S, T) == {b \in S : Decided(V(b, T))}
Applied(old, S, T) == Updated(old, [b \in Judged(S, T) |-> StoredRow(old, b, V(b, T))])
Finished(S, T) == {b \in Judged(S, T) : Final(b, V(b, T))}

\* Processed alerts whose row is missing are judged again, then the rows stored
\* as PENDING.
Refilled == Updated(existing, [b \in Judged(marked \ DOMAIN existing, betCache) |->
                                 Fresh(b, betCache)])
Waiting == {b \in DOMAIN Refilled : /\ Refilled[b].verdict = "PENDING"
                                    /\ V(b, betCache) \in {"MATCH", "MISS"}}
Settled == Updated(Refilled, [b \in Waiting |-> Fresh(b, betCache)])

\* Those two passes and the pass over the pending alerts.
Judge ==
    /\ pc = "judge"
    /\ existing' = Applied(Settled, pending, betCache)
    /\ done' = Finished(pending, betCache)
    /\ noBet' = {b \in pending : V(b, betCache) = "no bet data"}
    /\ pc' = IF noBet' = {} THEN "save" ELSE "retry"
    /\ UNCHANGED <<environment, database, process, now, marked, pending, betCache,
                   fetchedAt, failures>>

\* retry_slice: RetryLimit rows of noBet from the rotation offset on.
Position(b) == Cardinality({c \in noBet : c < b})
Slice ==
    LET n == Cardinality(noBet)
    IN  {b \in noBet : (Position(b) - rot) % n < RetryLimit}

\* The window of the retry query of player p: the spans of the player's rows in
\* S, cut around the middle when longer than RetryWindow.
RetryWindowHas(S, p, x) ==
    LET rows  == {b \in S : alerts[b].player = p}
        ts    == {alerts[b].ts : b \in rows}
        lo    == (CHOOSE t \in ts : \A u \in ts : t <= u) - PreContext
        hi    == (CHOOSE t \in ts : \A u \in ts : u <= t) + Lookahead + Buffer + ExtendedWait
        mid   == (lo + hi) \div 2
        half  == RetryWindow \div 2
    IN  /\ rows # {}
        /\ IF hi - lo <= RetryWindow THEN lo <= x /\ x <= hi
                                     ELSE mid - half <= x /\ x <= mid + half

\* What the two queries of _fetch_bets_for_no_bet_rows bring for player p: the
\* payouts in the retry window, and the payouts of the alerted bets themselves.
InWindow(p, answered) == {x \in Payouts(p) : p \in answered /\ RetryWindowHas(Slice, p, x)}
OwnBets(p, found) ==
    {bets[b].ts : b \in {c \in Slice : found /\ alerts[c].player = p /\ ~Hidden(c)}}

\* Mutant: every cycle retries the same rows.
NextOffsetMutantStays == rot
\* The rotation offset moves on by the rows that were retried.
NextOffset == ((rot % Cardinality(noBet)) + Cardinality(Slice)) % Cardinality(noBet)

\* The targeted retry and the second judgement of its rows.  Each player's
\* window query and the query by bet id may fail, which is logged and skipped:
\* `answered` are the players whose query did not.
Retry(answered, betIdQuery) ==
    /\ pc = "retry"
    /\ (answered = Players /\ betIdQuery) \/ failures < MaxFailures
    /\ failures' = IF answered = Players /\ betIdQuery THEN failures ELSE failures + 1
    /\ resolved' = [p \in Players |-> resolved[p] \cup OwnBets(p, betIdQuery)]
    /\ betCache' = [p \in Players |->
                      betCache[p] \cup InWindow(p, answered) \cup OwnBets(p, betIdQuery)]
    /\ existing' = Applied(existing, Slice, betCache')
    /\ done' = done \cup Finished(Slice, betCache')
    /\ rot' = NextOffset
    /\ pc' = "save"
    /\ UNCHANGED <<environment, database, cache, now, marked, pending, fetchedAt, noBet>>

\* The upsert of every row of existing_results.
Saved == Updated(results, existing)

\* save_validation_results, in one commit.
Save ==
    /\ pc = "save"
    /\ results' = Saved
    /\ pc' = "mark"
    /\ UNCHANGED <<environment, processed, loaded, process, cycle, failures>>

\* Mutant: new_processed_ids outlives the cycle.
CycleOverMutantKeepsDone ==
    /\ pc' = "idle"
    /\ now' = 0 /\ marked' = {} /\ pending' = {}
    /\ betCache' = [p \in Players |-> {}] /\ fetchedAt' = 0
    /\ existing' = Empty /\ noBet' = {} /\ done' = done
\* The in-cycle variables are gone with the cycle.
CycleOver ==
    /\ pc' = "idle"
    /\ now' = 0 /\ marked' = {} /\ pending' = {}
    /\ betCache' = [p \in Players |-> {}] /\ fetchedAt' = 0
    /\ existing' = Empty /\ noBet' = {} /\ done' = {}

\* Mutant: the cache stays as the cycle loaded it.
KeptRowsMutantLoaded == cache
\* The rows the process carries to its next cycle.
KeptRows == existing

\* mark_processed, in a commit of its own; the cache takes the cycle's rows.
Mark ==
    /\ pc = "mark"
    /\ processed' = processed \cup done
    /\ cache' = KeptRows
    /\ CycleOver
    /\ UNCHANGED <<environment, results, loaded, resolved, rot, failures>>

\* An exception ends the cycle: the fetch's own handler, or the loop's.
Raise ==
    /\ pc # "idle"
    /\ failures < MaxFailures
    /\ failures' = failures + 1
    /\ CycleOver
    /\ UNCHANGED <<environment, database, process>>

\* The process dies and is started again.
Crash ==
    /\ failures < MaxFailures
    /\ failures' = failures + 1
    /\ cache' = Empty /\ resolved' = [p \in Players |-> {}] /\ rot' = 0
    /\ CycleOver
    /\ UNCHANGED <<environment, database>>

-----------------------------------------------------------------------------
World == \/ Tick
         \/ \E b \in Bets, p \in Players, lag \in Lags : Arrive(b, p, lag)
         \/ \E b \in Bets, p \in Players \cup {Placeholder} : Drift(b, p)
         \/ \E b \in Bets : RaiseAlert(b)
Cycle == \/ \E readProcessed \in ReadMarks, load \in Loads :
              Begin(readProcessed, load[1], load[2])
         \/ Fetch \/ Judge \/ Retry(Players, TRUE) \/ Save \/ Mark
Faults == \/ \E answered \in SUBSET Players, betIdQuery \in BOOLEAN :
               ~(answered = Players /\ betIdQuery) /\ Retry(answered, betIdQuery)
          \/ Raise \/ Crash
Next == World \/ Cycle \/ Faults

Spec == Init /\ [][Next]_vars

\* The loop runs for ever and never waits for anything but its own calls, and
\* time passes: run_validator_loop.
FairSpec == Spec /\ WF_vars(Cycle) /\ WF_vars(Tick)

-----------------------------------------------------------------------------
(* Properties.                                                             *)

IsTable(f, R) == DOMAIN f \subseteq Bets /\ f \in [DOMAIN f -> R]
Rows == [verdict : {"MATCH", "MISS", "PENDING"}, asof : Int]
PlayerTimes == [Players -> SUBSET Int]

\* Type correctness of the warehouse, state.db and the process.
TypeOK ==
    /\ clock \in Int /\ failures \in Nat
    /\ IsTable(bets, [player : Players \cup {Placeholder}, ts : Int, at : Int])
    /\ IsTable(alerts, [player : Players, ts : Int]) /\ DOMAIN alerts \subseteq DOMAIN bets
    /\ IsTable(results, Rows) /\ DOMAIN results \subseteq DOMAIN alerts
    /\ processed \subseteq DOMAIN alerts
    /\ loaded \subseteq DOMAIN results
    /\ IsTable(cache, Rows) /\ DOMAIN cache \subseteq DOMAIN results
    /\ resolved \in PlayerTimes /\ rot \in Nat
    /\ pc \in {"idle", "fetch", "judge", "retry", "save", "mark"}
    /\ now \in Int /\ fetchedAt \in Int
    /\ marked \subseteq DOMAIN alerts /\ pending \subseteq DOMAIN alerts
    /\ betCache \in PlayerTimes
    /\ IsTable(existing, Rows) /\ DOMAIN existing \subseteq DOMAIN alerts
    /\ noBet \subseteq pending /\ done \subseteq DOMAIN existing

\* The bets of b's player that contradict a walk-away after b.
Returns(b) ==
    {c \in DOMAIN bets : /\ bets[c].player = alerts[b].player
                         /\ alerts[b].ts + Horizon < bets[c].ts
                         /\ bets[c].ts <= alerts[b].ts + Lookahead}

\* A saved MATCH rests on a look at the warehouse that found no bet of the
\* player in the late window, provided the fetch still reached that far back:
\* every such bet arrived after the fetch.  Across late bets, failed steps,
\* crashes and re-judged rows.
MatchSawNoReturn ==
    \A b \in DOMAIN results :
        results[b].verdict = "MATCH"
            /\ results[b].asof - MaxLookback <= alerts[b].ts + Horizon
        => \A c \in Returns(b) : bets[c].at >= results[b].asof

\* A saved MISS rests on a bet of the player in the late window that is in the
\* warehouse, whatever the windows, failed reads and recoveries.
MissHasReturn ==
    FinalizeOnHorizon =>
        \A b \in DOMAIN results : results[b].verdict = "MISS" => Returns(b) # {}

\* An alert is marked as processed only when its verdict, which is not PENDING,
\* is in the results table: the marks are a later commit than the results.
ProcessedHasVerdict ==
    \A b \in processed : b \in DOMAIN results /\ results[b].verdict # "PENDING"

Book == INSTANCE VerdictBook
    WITH verdict <- [b \in DOMAIN results |-> results[b].verdict], closed <- processed

\* The tables keep the promises of VerdictBook: what an alert was closed on stays,
\* although every cycle saves all the rows again from a cache that a failed cycle
\* leaves behind.
ImplementsBook == Book!Spec

\* An alert whose extended wait ends within the modelled time is finished, unless its
\* bet is one that no query returns: also when its player has no bets left and it has
\* to share the retries with alerts that never get any.
EventuallyProcessed ==
    \A b \in MayAlert :
        (b \in DOMAIN alerts /\ EndOfWait(b) <= MaxTime /\ alerts[b].ts + Finality <= MaxTime)
            ~> (b \in processed \/ Hidden(b))
=============================================================================
