----------------------------- MODULE ReadyQueue -----------------------------
(***************************************************************************)
(* The player-game ready queue that the scorer drives inside its cycle     *)
(* (serving/player_game_ready_queue.py, called from score_once).  The bets *)
(* of a batch put their player-games into the pending table, due a holdback*)
(* after their first visibility; a due game is fetched again and either    *)
(* deferred, when one of its bets is not yet visible, or completed.        *)
(*                                                                         *)
(* The queue writes on the scorer's connection and never commits: its rows *)
(* become durable with the scorer's watermark, or are rolled back with it. *)
(* A game stands for the key (player_id, game_id).                         *)
(***************************************************************************)
EXTENDS Integers, FiniteSets

CONSTANTS
    Bets, Games,
    GameOf,          \* GameOf[b]: the player-game of bet b
    AvailDelay,      \* bet_avail_delay_min
    Grid,            \* poll grid that prediction visibility is rounded up to
    Holdback,        \* SCORER_POLL_INTERVAL_SECONDS
    ZoneSkew,        \* how far the text of `now` reads ahead of stored UTC text
    Lookback,        \* lookback of the batch query and of the refetch
    PayoutLags,      \* how long before its warehouse insert a bet may be paid out
    EnqueueMayFail,  \* whether an upsert of the pending table may raise
    RefetchMayFail,  \* whether the refetch of a due game may raise
    MaxTime, MaxVersions, MaxCrashes   \* bounds of the model

ASSUME GamesAssumption == GameOf \in [Bets -> Games] /\ IsFiniteSet(Bets)
ASSUME DelayAssumption == /\ AvailDelay \in Nat /\ Grid \in Nat \ {0}
                          /\ Holdback \in Nat /\ ZoneSkew \in Nat
                          /\ Lookback \in Nat /\ PayoutLags \subseteq Nat
ASSUME LimitAssumption == /\ EnqueueMayFail \in BOOLEAN /\ RefetchMayFail \in BOOLEAN
                          /\ MaxTime \in Nat /\ MaxVersions \in Nat /\ MaxCrashes \in Nat

Absent == -1

VARIABLES
    clock,
    payout, etl, versions,  \* warehouse: payout time, ETL stamp and ingests of each bet
    watermark,              \* state.db meta: last_processed_etl_insert
    pending, completed,     \* the two tables, as the scorer's connection sees them
    saved,                  \* the two tables as last committed
    pc,                     \* where the scorer is in its cycle
    batch,                  \* the fetched bets with their cursors
    now,                    \* now_ts of the queue cycle
    todo,                   \* games the current loop has not reached
    passed,                 \* history: bets a committed watermark has passed
    crashes                 \* history: aborted cycles

warehouse == <<payout, etl, versions>>
tables == <<pending, completed>>
vars == <<clock, warehouse, watermark, tables, saved, pc, batch, now, todo, passed, crashes>>

-----------------------------------------------------------------------------
Arrived(b) == etl[b] # Absent

Eligible(b) == /\ Arrived(b)
               /\ payout[b] >= clock - Lookback
               /\ payout[b] <= clock - AvailDelay

NewBets == {b \in Bets : Eligible(b) /\ etl[b] > watermark}

\* prediction_visible_ts: payout plus the delay, rounded up to the poll grid.
PV(b) == ((payout[b] + AvailDelay + Grid - 1) \div Grid) * Grid

\* The minimum and maximum of a set of times, as sets: empty when S is.
Earliest(S) == {x \in S : \A y \in S : x <= y}
Latest(S) == {x \in S : \A y \in S : y <= x}

\* groupby of the batch on its player-games.
Touched == {GameOf[b] : b \in DOMAIN batch}

BatchOf(g) == {b \in DOMAIN batch : GameOf[b] = g}

\* Mutant: the game is completed from the batch, without a second fetch.
RefetchMutantFromBatch(g) == BatchOf(g)
\* fetch_player_game_bets_clickhouse: every eligible bet, whatever the watermark.
Refetch(g) == {b \in Bets : GameOf[b] = g /\ Eligible(b)}

\* Mutant: due as soon as it is visible.
DueTsMutantNoHoldback(visible) == visible
\* compute_serving_due_ts
DueTs(visible) == visible + Holdback

\* `due_ts <= ?` compares ISO texts: due_ts is stored in UTC, `now` is written
\* in the zone it came with, so it reads ZoneSkew later.
ReadsAsDue(g) == pending[g].due <= now + ZoneSkew

PutRow(table, g, row) ==
    [h \in DOMAIN table \cup {g} |-> IF h = g THEN row ELSE table[h]]
DropRow(table, g) == [h \in DOMAIN table \ {g} |-> table[h]]
Smaller(m, n) == IF m < n THEN m ELSE n

\* Mutant: the merged row keeps the larger bet count.
InitialCountMutantLarger(old, n) == IF old < n THEN n ELSE old
\* initial_bet_count of a row that is enqueued again.
InitialCount(old, n) == Smaller(old, n)

\* Mutant: counts down the bets still expected.
PendingRowMutantRemaining(g, first, B) ==
    IF g \in DOMAIN pending
    THEN [pending[g] EXCEPT !.initial = @ - Cardinality(B)]
    ELSE [first |-> first, due |-> DueTs(first), attempts |-> 0,
          initial |-> Cardinality(B), seen |-> B]
\* The pending row that the upsert writes for g when its batch brings the bets B,
\* the first of them visible at `first`.  `seen`, the bets of the batch that
\* inserted the row, is history.
PendingRow(g, first, B) ==
    IF g \in DOMAIN pending
    THEN [first    |-> Smaller(pending[g].first, first),
          due      |-> DueTs(Smaller(pending[g].first, first)),
          attempts |-> pending[g].attempts,
          initial  |-> InitialCount(pending[g].initial, Cardinality(B)),
          seen     |-> pending[g].seen]
    ELSE [first |-> first, due |-> DueTs(first), attempts |-> 0,
          initial |-> Cardinality(B), seen |-> B]

\* The completed row of g when the refetch found the bets B: completion time,
\* pending age (as the first visibility it is counted from), bets, and
\* late_after_score_hypothetical.
CompletedRow(g, B) ==
    [at |-> now, first |-> pending[g].first, bets |-> B, seen |-> pending[g].seen,
     late |-> pending[g].attempts > 0 \/ Cardinality(B) > pending[g].initial]

NoRows == [g \in {} |-> 0]
Rollback == pending' = saved.pending /\ completed' = saved.completed

-----------------------------------------------------------------------------
Init ==
    /\ clock = 0
    /\ payout = [b \in Bets |-> Absent]
    /\ etl = [b \in Bets |-> Absent]
    /\ versions = [b \in Bets |-> 0]
    /\ watermark = Absent
    /\ pending = NoRows /\ completed = NoRows
    /\ saved = [pending |-> NoRows, completed |-> NoRows]
    /\ pc = "idle"
    /\ batch = NoRows
    /\ now = 0
    /\ todo = {}
    /\ passed = {}
    /\ crashes = 0

-----------------------------------------------------------------------------
(* Environment: time and the warehouse's ingestion.                        *)

Tick ==
    /\ clock < MaxTime
    /\ clock' = clock + 1
    /\ UNCHANGED <<warehouse, watermark, tables, saved, pc, batch, now, todo, passed, crashes>>

Ingest(b, lag) ==
    /\ ~Arrived(b)
    /\ lag <= clock
    /\ payout' = [payout EXCEPT ![b] = clock - lag]
    /\ etl' = [etl EXCEPT ![b] = clock]
    /\ versions' = [versions EXCEPT ![b] = 1]
    /\ UNCHANGED <<clock, watermark, tables, saved, pc, batch, now, todo, passed, crashes>>

Reingest(b) ==
    /\ Arrived(b)
    /\ etl[b] < clock
    /\ versions[b] < MaxVersions
    /\ etl' = [etl EXCEPT ![b] = clock]
    /\ versions' = [versions EXCEPT ![b] = @ + 1]
    /\ UNCHANGED <<clock, payout, watermark, tables, saved, pc, batch, now, todo, passed, crashes>>

-----------------------------------------------------------------------------
(* The scorer's cycle, as far as it concerns the queue.                    *)

\* A cycle without new bets returns at once: nothing below runs.
Fetch ==
    /\ pc = "idle"
    /\ NewBets # {}
    /\ batch' = [b \in NewBets |-> etl[b]]
    /\ pc' = "fetched"
    /\ UNCHANGED <<clock, warehouse, watermark, tables, saved, now, todo, passed, crashes>>

\* run_player_game_ready_queue_dry_run_cycle reads the clock.
BeginQueue ==
    /\ pc = "fetched"
    /\ now' = clock
    /\ todo' = Touched
    /\ pc' = "enqueue"
    /\ UNCHANGED <<clock, warehouse, watermark, tables, saved, batch, passed, crashes>>

\* Mutant: the completed keys are not looked at.
AlreadyCompletedMutantNever(g) == FALSE
\* _completed_keys
AlreadyCompleted(g) == g \in DOMAIN completed

SkipCompleted(g) ==
    /\ pc = "enqueue"
    /\ g \in todo
    /\ AlreadyCompleted(g)
    /\ todo' = todo \ {g}
    /\ UNCHANGED <<clock, warehouse, watermark, tables, saved, pc, batch, now, passed, crashes>>

Enqueue(g) ==
    /\ pc = "enqueue"
    /\ g \in todo
    /\ ~AlreadyCompleted(g)
    /\ \E first \in Earliest({PV(b) : b \in BatchOf(g)}) :
           pending' = PutRow(pending, g, PendingRow(g, first, BatchOf(g)))
    /\ todo' = todo \ {g}
    /\ UNCHANGED <<clock, warehouse, watermark, completed, saved, pc, batch, now, passed, crashes>>

\* _list_due_pending, once the batch is enqueued.
ListDue ==
    /\ pc = "enqueue"
    /\ todo = {}
    /\ todo' = {g \in DOMAIN pending \ DOMAIN completed : ReadsAsDue(g)}
    /\ pc' = "process"
    /\ UNCHANGED <<clock, warehouse, watermark, tables, saved, batch, now, passed, crashes>>

\* The refetch finds nothing, the row stays as it is.
RefetchEmpty(g) ==
    /\ pc = "process"
    /\ g \in todo
    /\ Refetch(g) = {}
    /\ todo' = todo \ {g}
    /\ UNCHANGED <<clock, warehouse, watermark, tables, saved, pc, batch, now, passed, crashes>>

Defer(g) ==
    /\ pc = "process"
    /\ g \in todo
    /\ \E ready \in Latest({PV(b) : b \in Refetch(g)}) :
           /\ ready > now
           /\ pending' = [pending EXCEPT ![g].attempts = @ + 1, ![g].due = DueTs(ready)]
    /\ todo' = todo \ {g}
    /\ UNCHANGED <<clock, warehouse, watermark, completed, saved, pc, batch, now, passed, crashes>>

Complete(g) ==
    /\ pc = "process"
    /\ g \in todo
    /\ \E ready \in Latest({PV(b) : b \in Refetch(g)}) :
           /\ ready <= now
           /\ completed' = PutRow(completed, g, CompletedRow(g, Refetch(g)))
    /\ pending' = DropRow(pending, g)
    /\ todo' = todo \ {g}
    /\ UNCHANGED <<clock, warehouse, watermark, saved, pc, batch, now, passed, crashes>>

\* The queue raises in one of its loops; score_once swallows the exception, and
\* what the loop wrote before stays in the open transaction.
QueueFails ==
    /\ \/ pc = "enqueue" /\ EnqueueMayFail
       \/ pc = "process" /\ RefetchMayFail
    /\ todo # {}
    /\ todo' = {}
    /\ pc' = "score"
    /\ UNCHANGED <<clock, warehouse, watermark, tables, saved, batch, now, passed, crashes>>

EndQueue ==
    /\ pc = "process"
    /\ todo = {}
    /\ pc' = "score"
    /\ UNCHANGED <<clock, warehouse, watermark, tables, saved, batch, now, todo, passed, crashes>>

\* The scorer's commit.  The watermark goes to the last row it scored, and any
\* row of the batch can be that one: rows without Feast entities are skipped.
Commit ==
    /\ pc = "score"
    /\ \E last \in DOMAIN batch :
           /\ watermark' = batch[last]
           /\ passed' = passed \cup {b \in DOMAIN batch : batch[b] <= batch[last]}
    /\ saved' = [pending |-> pending, completed |-> completed]
    /\ pc' = "idle"
    /\ batch' = NoRows
    /\ UNCHANGED <<clock, warehouse, tables, now, todo, crashes>>

\* The cycle raises or the process dies: the open transaction is rolled back.
Abort ==
    /\ pc # "idle"
    /\ crashes < MaxCrashes
    /\ crashes' = crashes + 1
    /\ Rollback
    /\ pc' = "idle"
    /\ batch' = NoRows
    /\ todo' = {}
    /\ UNCHANGED <<clock, warehouse, watermark, saved, now, passed>>

Cycle ==
    \/ Fetch \/ BeginQueue \/ ListDue \/ QueueFails \/ EndQueue \/ Commit
    \/ \E g \in Games : \/ SkipCompleted(g) \/ Enqueue(g)
                        \/ RefetchEmpty(g) \/ Defer(g) \/ Complete(g)

Next ==
    \/ Tick
    \/ \E b \in Bets, lag \in PayoutLags : Ingest(b, lag)
    \/ \E b \in Bets : Reingest(b)
    \/ Cycle
    \/ Abort

Spec == Init /\ [][Next]_vars

-----------------------------------------------------------------------------
(* Properties.                                                             *)

PendingRows == [first : Int, due : Int, attempts : Nat, initial : Nat, seen : SUBSET Bets]
CompletedRows == [at : Int, first : Int, bets : SUBSET Bets, seen : SUBSET Bets,
                  late : BOOLEAN]
TableOf(rows, T) == DOMAIN T \subseteq Games /\ \A g \in DOMAIN T : T[g] \in rows

\* Type correctness of the tables, the transaction and the cycle's memory.
TypeOK ==
    /\ clock \in Nat /\ now \in Nat /\ crashes \in Nat
    /\ payout \in [Bets -> Int] /\ etl \in [Bets -> Int] /\ versions \in [Bets -> Nat]
    /\ watermark \in Int
    /\ TableOf(PendingRows, pending) /\ TableOf(CompletedRows, completed)
    /\ TableOf(PendingRows, saved.pending) /\ TableOf(CompletedRows, saved.completed)
    /\ pc \in {"idle", "fetched", "enqueue", "process", "score"}
    /\ DOMAIN batch \subseteq Bets /\ \A b \in DOMAIN batch : batch[b] \in Int
    /\ todo \subseteq Games
    /\ passed \subseteq Bets

\* No player-game is completed before its first visibility plus the holdback
\* (Player-Game Grain - IMPLEMENTATION_PLAN, holdback; _list_due_pending).
HoldbackHonoured ==
    \A g \in DOMAIN completed : completed[g].at >= completed[g].first + Holdback

\* A completed game holds every bet of the game that was visible when it was
\* completed, also those the batches never brought: late bets were waited for
\* (refetch instead of batch, max_pv > now defers).
NoVisibleBetMissed ==
    \A g \in DOMAIN completed, b \in Bets :
        /\ GameOf[b] = g /\ Arrived(b) /\ etl[b] < completed[g].at
        /\ PV(b) <= completed[g].at
        => b \in completed[g].bets \/ payout[b] < clock - Lookback

\* Between cycles, every bet the committed watermark has passed has its game in
\* one of the committed tables (WORKING_PLAN W4.5: the cursor may advance but
\* pending/completed do not lose the score identity).
IdentityKept ==
    \A b \in passed :
        GameOf[b] \in DOMAIN saved.pending \cup DOMAIN saved.completed

\* The late-after-score metric has no false negatives: a game reported as not
\* late, none of whose bets had left the lookback, was complete when the queue
\* first saw it, however its bets were spread over batches and re-ingested
\* (initial_bet_count keeps the smallest batch).
NotLateIsRight ==
    \A g \in DOMAIN completed :
        LET row == completed[g]
        IN  ~row.late /\ row.seen \subseteq row.bets => row.bets = row.seen

Stage(g) == IF g \in DOMAIN saved.pending THEN "pending"
            ELSE IF g \in DOMAIN saved.completed THEN "completed"
            ELSE "unseen"

Lifecycle == INSTANCE GameLifecycle WITH
    stage <- [g \in Games |-> Stage(g)],
    passed <- {GameOf[b] : b \in passed}

\* The committed tables implement the lifecycle: games only move forward, no
\* rollback, retry or re-ingest brings one back, and the cursor forgets none.
ImplementsLifecycle == Lifecycle!Spec
=============================================================================
