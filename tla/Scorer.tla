------------------------------- MODULE Scorer -------------------------------
(***************************************************************************)
(* The scorer daemon of trainer_hightier/serving/scorer.py: one process    *)
(* polls the bet warehouse with an ETL watermark, looks features up, logs  *)
(* every scored row into prediction_log.db, suppresses alerts inside the   *)
(* player cooldown and commits alerts and watermark together to state.db.  *)
(*                                                                         *)
(* The warehouse (external) receives bets in any order; the process may    *)
(* die between any two steps, and the two databases are separate commits.  *)
(* Time is an integer clock; a bet id is a natural number because the      *)
(* warehouse query orders and truncates by it.                             *)
(***************************************************************************)
EXTENDS Integers, FiniteSets

CONSTANTS
    Bets,            \* bet ids, naturals
    Players,
    Games,
    Owner,           \* Owner[b]: the player of bet b
    Game,            \* Game[b]: the game of bet b
    Allowlist,       \* players of the ADT allowlist
    HighAdtOnly,     \* cfg.high_adt_only
    Cap,             \* hightier_scorer_max_bets_per_cycle
    AvailDelay,      \* bet_avail_delay_min
    Lookback,        \* scorer_dynamic_lookback_cap_hours
    Cooldown,        \* player_alert_policy.cooldown_min
    FailNum, FailDen,\* scorer_feast_entity_missing_fail_fraction = FailNum/FailDen
    MissablePlayers, \* players whose Feast entity row may be absent
    LogMayFail,      \* whether writes to prediction_log.db may raise
    PayoutLags,      \* how long before its warehouse insert a bet may be paid out
    InOrder,         \* TRUE: inserts are stamped one by one, in payout order
    MaxTime, MaxVersions, MaxCrashes   \* bounds of the model

Absent == -1

ASSUME BetsAssumption == Bets \subseteq Nat /\ IsFiniteSet(Bets)
ASSUME OwnerAssumption == Owner \in [Bets -> Players] /\ Game \in [Bets -> Games]
ASSUME ScopeAssumption == /\ Allowlist \subseteq Players
                          /\ HighAdtOnly \in BOOLEAN
                          /\ MissablePlayers \subseteq Players
                          /\ LogMayFail \in BOOLEAN
                          /\ InOrder \in BOOLEAN
ASSUME TimingAssumption == /\ Cooldown \in Nat \ {0}
                           /\ AvailDelay \in Nat
                           /\ Lookback \in Nat
                           /\ PayoutLags \subseteq Nat
ASSUME BoundAssumption == /\ Cap \in Nat \ {0}
                          /\ FailNum \in Nat /\ FailDen \in Nat \ {0}
                          /\ MaxTime \in Nat /\ MaxVersions \in Nat /\ MaxCrashes \in Nat

VARIABLES
    clock,
    payout, etl, versions,  \* warehouse: payout time, ETL stamp and ingests of each bet
    watermark,              \* state.db meta: last_processed_etl_insert, Absent if unset
    alerts,                 \* state.db alerts: bet id -> ts, Absent if no row
    plog,                   \* prediction_log.db rows
    pc,                     \* where the scorer process is in its cycle
    probeMax,               \* largest cursor of the allowlist probe
    batch, cursor,          \* the fetched rows and their ETL cursors
    scorable, scoredAt,     \* rows with Feast entities; scored_at_iso of the cycle
    raised, suppressed,     \* representative bets of the decided candidates
    scoreCount,             \* history: committed scorings of each bet
    sent, muted,            \* history: committed raised / suppressed alerts
    crashes                 \* history: process deaths so far

warehouse == <<payout, etl, versions>>
stateDb   == <<watermark, alerts>>
memory    == <<probeMax, batch, cursor, scorable, scoredAt, raised, suppressed>>
history   == <<scoreCount, sent, muted, crashes>>
vars == <<clock, warehouse, stateDb, plog, pc, memory, history>>

-----------------------------------------------------------------------------
(* The warehouse queries.                                                  *)

Arrived(b) == etl[b] # Absent

\* The WHERE clause shared by the probe and the fetch: paid out inside the
\* lookback, old enough to be available.
Eligible(b) == /\ Arrived(b)
               /\ payout[b] >= clock - Lookback
               /\ payout[b] <= clock - AvailDelay

\* `AND __etl_insert_Dtm > last_etl`; without a watermark every row is newer.
Newer(b) == etl[b] > watermark

\* Mutant: ordered by bet id alone.
FetchOrderMutantByBet(b, c) == b < c
\* ORDER BY __etl_insert_Dtm ASC, bet_id ASC
FetchOrder(b, c) == etl[b] < etl[c] \/ (etl[b] = etl[c] /\ b < c)

\* LIMIT: the first Cap rows of S in fetch order.
TopK(S) == {b \in S : Cardinality({c \in S : FetchOrder(c, b)}) < Cap}

InScope(b) == HighAdtOnly => Owner[b] \in Allowlist

ProbeRows == TopK({b \in Bets : Eligible(b) /\ Newer(b)})
FetchRows == TopK({b \in Bets : Eligible(b) /\ Newer(b) /\ InScope(b)})

\* The maximum of a set of cursors, as a set: empty when S is.
Largest(S) == {x \in S : \A y \in S : y <= x}

-----------------------------------------------------------------------------
(* The scorer's decisions.                                                 *)

\* Entity-missing policy: a cycle fails when the missing rate exceeds the
\* configured fraction.
TooManyMissing(skipped) ==
    Cardinality(skipped) * FailDen > FailNum * Cardinality(batch)

SameGroup(b, c) == Owner[b] = Owner[c] /\ Game[b] = Game[c]

\* The last row of its player-game in the scored batch, by payout and bet id.
IsRepresentative(b) ==
    \A c \in scorable : SameGroup(b, c) =>
        payout[c] < payout[b] \/ (payout[c] = payout[b] /\ c <= b)

Representatives == {b \in scorable : IsRepresentative(b)}

\* Mutant: the cooldown read from the prediction log.
InCooldownMutantLog(p) ==
    \E r \in plog : /\ Owner[r.bet] = p /\ r.decision = "raised"
                    /\ scoredAt - r.at < Cooldown
\* Mutant: the comparison one unit short.
InCooldownMutantShort(p) ==
    \E b \in Bets : /\ alerts[b] # Absent /\ Owner[b] = p
                    /\ scoredAt - alerts[b] < Cooldown - 1
\* ts - MAX(ts) over the player's rows of the alerts table is below the cooldown.
InCooldown(p) ==
    \E b \in Bets : /\ alerts[b] # Absent /\ Owner[b] = p
                    /\ scoredAt - alerts[b] < Cooldown

\* Mutant: no cooldown inside the batch, one alert per player-game.
AllowedRaisesMutantPerGame(C) == {{b \in C : ~InCooldown(Owner[b])}}
\* What the suppression can raise out of the candidates C: for each player out
\* of cooldown exactly one of its candidates, the one with the highest score
\* (scores are not modelled: any of them can be it); the rest share its ts.
AllowedRaises(C) ==
    {R \in SUBSET C :
        /\ \A b \in R : ~InCooldown(Owner[b])
        /\ \A b, c \in R : Owner[b] = Owner[c] => b = c
        /\ \A b \in C : InCooldown(Owner[b]) \/ \E c \in R : Owner[c] = Owner[b]}

LogRow(b, status, decision) ==
    [bet |-> b, at |-> scoredAt, status |-> status, decision |-> decision]

Decision(b, R, S) ==
    IF b \in R THEN "raised" ELSE IF b \in S THEN "suppressed" ELSE "none"

\* Mutant: only the candidates are logged.
ScoredLogRowsMutantCandidates(C, R) ==
    {LogRow(b, "scored", Decision(b, R, C \ R)) : b \in C}
\* append_hightier_prediction_log: one row per scored bet.
ScoredLogRows(C, R) ==
    {LogRow(b, "scored", Decision(b, R, C \ R)) : b \in scorable}

LogOutcomes == IF LogMayFail THEN BOOLEAN ELSE {TRUE}

-----------------------------------------------------------------------------
ForgetCycle ==
    /\ probeMax' = Absent
    /\ batch' = {}
    /\ cursor' = [b \in Bets |-> Absent]
    /\ scorable' = {}
    /\ scoredAt' = 0
    /\ raised' = {}
    /\ suppressed' = {}

Init ==
    /\ clock = 0
    /\ payout = [b \in Bets |-> Absent]
    /\ etl = [b \in Bets |-> Absent]
    /\ versions = [b \in Bets |-> 0]
    /\ watermark = Absent
    /\ alerts = [b \in Bets |-> Absent]
    /\ plog = {}
    /\ pc = "down"
    /\ probeMax = Absent
    /\ batch = {}
    /\ cursor = [b \in Bets |-> Absent]
    /\ scorable = {}
    /\ scoredAt = 0
    /\ raised = {}
    /\ suppressed = {}
    /\ scoreCount = [b \in Bets |-> 0]
    /\ sent = {}
    /\ muted = {}
    /\ crashes = 0

-----------------------------------------------------------------------------
(* Environment: time and the warehouse's ingestion.                        *)

Tick ==
    /\ clock < MaxTime
    /\ clock' = clock + 1
    /\ UNCHANGED <<warehouse, stateDb, plog, pc, memory, history>>

\* A settled bet becomes visible in the warehouse, stamped with the insert time.
Ingest(b, lag) ==
    /\ ~Arrived(b)
    /\ lag <= clock
    /\ InOrder => \A c \in Bets : etl[c] < clock
    /\ payout' = [payout EXCEPT ![b] = clock - lag]
    /\ etl' = [etl EXCEPT ![b] = clock]
    /\ versions' = [versions EXCEPT ![b] = 1]
    /\ UNCHANGED <<clock, stateDb, plog, pc, memory, history>>

\* The row is replaced (the queries read it with FINAL) under a new ETL stamp.
Reingest(b) ==
    /\ Arrived(b)
    /\ etl[b] < clock
    /\ versions[b] < MaxVersions
    /\ etl' = [etl EXCEPT ![b] = clock]
    /\ versions' = [versions EXCEPT ![b] = @ + 1]
    /\ UNCHANGED <<clock, payout, stateDb, plog, pc, memory, history>>

-----------------------------------------------------------------------------
(* The scorer process.                                                     *)

Start ==
    /\ pc = "down"
    /\ pc' = "idle"
    /\ UNCHANGED <<clock, warehouse, stateDb, plog, memory, history>>

\* Allowlist mode first asks for the global top-K, to know how far the
\* watermark may move when no allowlisted bet is waiting.
Probe ==
    /\ pc = "idle"
    /\ HighAdtOnly
    /\ ProbeRows # {}
    /\ probeMax' \in Largest({etl[b] : b \in ProbeRows})
    /\ pc' = "fetch"
    /\ UNCHANGED <<clock, warehouse, stateDb, plog,
                   batch, cursor, scorable, scoredAt, raised, suppressed, history>>

ReadyToFetch == IF HighAdtOnly THEN pc = "fetch" ELSE pc = "idle"

\* _fetch_scoring_batch with rows: the frame and its cursors stay in memory.
Fetch ==
    /\ ReadyToFetch
    /\ FetchRows # {}
    /\ batch' = FetchRows
    /\ cursor' = [b \in Bets |-> IF b \in FetchRows THEN etl[b] ELSE Absent]
    /\ pc' = "attach"
    /\ UNCHANGED <<clock, warehouse, stateDb, plog,
                   probeMax, scorable, scoredAt, raised, suppressed, history>>

\* Nothing allowlisted: the watermark follows the probe and the cycle ends.
FetchNothing ==
    /\ pc = "fetch"
    /\ FetchRows = {}
    /\ watermark' = probeMax
    /\ pc' = "idle"
    /\ ForgetCycle
    /\ UNCHANGED <<clock, warehouse, alerts, plog, history>>

\* The Feast lookup misses too many entities: RuntimeError leaves main().
AttachFails(skipped) ==
    /\ pc = "attach"
    /\ TooManyMissing(skipped)
    /\ pc' = "down"
    /\ ForgetCycle
    /\ UNCHANGED <<clock, warehouse, stateDb, plog, history>>

SkipRows(skipped) ==
    {[bet |-> b, at |-> clock, status |-> "skipped", decision |-> "none"] : b \in skipped}

\* The lookup splits the batch; skipped rows are logged at once, in the other
\* database, and a failure to log them is swallowed.
Attach(skipped, logged) ==
    /\ pc = "attach"
    /\ ~TooManyMissing(skipped)
    /\ skipped # batch
    /\ scorable' = batch \ skipped
    /\ scoredAt' = clock
    /\ plog' = IF logged THEN plog \cup SkipRows(skipped) ELSE plog
    /\ pc' = "decide"
    /\ UNCHANGED <<clock, warehouse, stateDb,
                   probeMax, batch, cursor, raised, suppressed, history>>

\* Every row was skipped: the watermark passes the whole batch.
AttachNothing(logged) ==
    /\ pc = "attach"
    /\ ~TooManyMissing(batch)
    /\ plog' = IF logged THEN plog \cup SkipRows(batch) ELSE plog
    /\ watermark' \in Largest({cursor[b] : b \in batch})
    /\ pc' = "idle"
    /\ ForgetCycle
    /\ UNCHANGED <<clock, warehouse, alerts, history>>

\* Scores, alert candidates C (player-games at or above the threshold), the
\* cooldown's choice R among them, then one insert of all scored rows into the
\* prediction log, whose failure is swallowed.
Decide(C, R, logged) ==
    /\ pc = "decide"
    /\ raised' = R
    /\ suppressed' = C \ R
    /\ plog' = IF logged THEN plog \cup ScoredLogRows(C, R) ELSE plog
    /\ pc' = "commit"
    /\ UNCHANGED <<clock, warehouse, stateDb,
                   probeMax, batch, cursor, scorable, scoredAt, history>>

\* Mutant: the ts of the row as it was before the upsert.
NoticesMutantOldTs(S) == {[player |-> Owner[b], bet |-> b, at |-> alerts[b]] : b \in S}
\* The alert rows of a cycle; bet id, player and ts are what others rely on.
Notices(S) == {[player |-> Owner[b], bet |-> b, at |-> scoredAt] : b \in S}

\* Mutant: the cursor taken from the payout column.
ScoredCursorsMutantPayout == {payout[b] : b \in scorable}
\* Mutant: only alerted rows move the watermark.
ScoredCursorsMutantAlertsOnly == {cursor[b] : b \in raised} \cup {watermark}
\* _commit_scoring_cursor looks at every scored row, alerted or not.
ScoredCursors == {cursor[b] : b \in scorable}

\* Raised alerts and the watermark reach state.db in one transaction.
Commit ==
    /\ pc = "commit"
    /\ alerts' = [b \in Bets |-> IF b \in raised THEN scoredAt ELSE alerts[b]]
    /\ watermark' \in Largest(ScoredCursors)
    /\ scoreCount' = [b \in Bets |-> scoreCount[b] + IF b \in scorable THEN 1 ELSE 0]
    /\ sent' = sent \cup Notices(raised)
    /\ muted' = muted \cup Notices(suppressed)
    /\ pc' = "idle"
    /\ ForgetCycle
    /\ UNCHANGED <<clock, warehouse, plog, crashes>>

\* The process dies, or the snapshot gate, the feature smoke or a query raises:
\* the uncommitted state.db transaction is rolled back.
Crash ==
    /\ pc # "down"
    /\ crashes < MaxCrashes
    /\ crashes' = crashes + 1
    /\ pc' = "down"
    /\ ForgetCycle
    /\ UNCHANGED <<clock, warehouse, stateDb, plog, scoreCount, sent, muted>>

\* Rows of the batch whose player has no Feast entity row.
SkippedChoices ==
    {{b \in batch : Owner[b] \in missing} : missing \in SUBSET MissablePlayers}

Cycle ==
    \/ Start
    \/ Probe
    \/ Fetch
    \/ FetchNothing
    \/ \E skipped \in SkippedChoices : AttachFails(skipped)
    \/ \E skipped \in SkippedChoices, logged \in LogOutcomes : Attach(skipped, logged)
    \/ batch \in SkippedChoices /\ \E logged \in LogOutcomes : AttachNothing(logged)
    \/ \E C \in SUBSET Representatives, logged \in LogOutcomes :
           \E R \in AllowedRaises(C) : Decide(C, R, logged)
    \/ Commit

Next ==
    \/ Tick
    \/ \E b \in Bets, lag \in PayoutLags : Ingest(b, lag)
    \/ \E b \in Bets : Reingest(b)
    \/ Cycle
    \/ Crash

Spec == Init /\ [][Next]_vars

\* The daemon loop keeps cycling and is restarted when it dies; time advances.
FairSpec == Spec /\ WF_vars(Tick) /\ WF_vars(Cycle)

-----------------------------------------------------------------------------
(* Properties.                                                             *)

LogRows == [bet : Bets, at : Nat, status : {"skipped", "scored"},
            decision : {"none", "raised", "suppressed"}]
NoticeRows == [player : Players, bet : Bets, at : Nat]

\* Type correctness of the databases, the process memory and the histories.
TypeOK ==
    /\ clock \in Nat
    /\ payout \in [Bets -> Int] /\ etl \in [Bets -> Int] /\ versions \in [Bets -> Nat]
    /\ watermark \in Int
    /\ alerts \in [Bets -> Int]
    /\ plog \subseteq LogRows
    /\ pc \in {"down", "idle", "fetch", "attach", "decide", "commit"}
    /\ probeMax \in Int
    /\ batch \subseteq Bets /\ cursor \in [Bets -> Int]
    /\ scorable \subseteq Bets /\ scoredAt \in Nat
    /\ raised \subseteq Bets /\ suppressed \subseteq Bets
    /\ scoreCount \in [Bets -> Nat]
    /\ sent \subseteq NoticeRows /\ muted \subseteq NoticeRows
    /\ crashes \in Nat

\* Two alerts a host really received for one player are at least a cooldown
\* apart, whatever crashed, was retried or was re-ingested in between
\* (apply_serving_player_alert_suppression reading state.db, and Commit).
CooldownSpacing ==
    \A s, t \in sent : s.player = t.player /\ s # t =>
        s.at - t.at >= Cooldown \/ t.at - s.at >= Cooldown

\* Every candidate that was muted for good had a delivered alert of its player
\* inside the cooldown before it: an alert lost in a crash never mutes another
\* (suppression reads the alerts table and not the prediction log).
MutedOnlyAfterDelivery ==
    \A m \in muted : \E s \in sent :
        /\ s.player = m.player
        /\ s.at <= m.at
        /\ m.at - s.at < Cooldown

\* No ingest of a bet is scored by two committed cycles, although batches are
\* refetched after a crash and skipped rows are fetched again (strict filter
\* of the fetch, watermark over all scored rows).
ScoredOncePerIngest == \A b \in Bets : scoreCount[b] <= versions[b]

\* The ETL watermark never moves back (score_once, _fetch_scoring_batch).
WatermarkMonotone == [][watermark <= watermark']_vars

\* When the warehouse stamps bets one by one in payout order, the watermark
\* passes no bet in scope that was neither scored, nor audited as skipped, nor
\* already out of the lookback (fetch order, limit, cursor commit, retries).
NothingPassedOver ==
    \A b \in Bets : Arrived(b) /\ InScope(b) /\ etl[b] <= watermark =>
        \/ scoreCount[b] > 0
        \/ \E r \in plog : r.bet = b /\ r.status = "skipped"
        \/ payout[b] < clock - Lookback

\* The watermark passes scored rows only after they are in the prediction log
\* (Scorer v2 Feast Runtime - IMPLEMENTATION_PLAN: the cursor advances after
\* the batch's durable writes; score_once swallows a failed log write).
ScoredRowsAreLogged ==
    \A b \in Bets : scoreCount[b] > 0 =>
        \E r \in plog : r.bet = b /\ r.status = "scored"

\* A bet in scope that becomes available is eventually scored, or audited as
\* skipped for want of its Feast entity: crashes, the batch limit and other
\* players' bets only delay it (main loop, score_once).
EventuallyScored ==
    \A b \in Bets :
        (Arrived(b) /\ InScope(b) /\ payout[b] + AvailDelay <= MaxTime)
            ~> (scoreCount[b] > 0 \/ \E r \in plog : r.bet = b /\ r.status = "skipped")

Ledger == INSTANCE AlertLedger WITH now <- clock, ledger <- sent

\* The scorer implements the alert ledger: each commit is one delivery that
\* keeps the cooldown, everything else stutters or lets time pass.
ImplementsLedger == Ledger!Spec
=============================================================================
