---------------------------- MODULE ShadowScores ----------------------------
(***************************************************************************)
(* The shadow scorer of player-games,                                      *)
(* serving/player_game_shadow_scorer.py, composed with the ready queue:    *)
(* score_once runs it after the queue, also when the queue has raised, on  *)
(* the same connection.  Every completed game without a score is fetched   *)
(* once more, one query each, and the score of its representative bet is   *)
(* written; an exception is swallowed and leaves what was written in the   *)
(* open transaction, which is committed or rolled back with the queue's.   *)
(***************************************************************************)
EXTENDS ReadyQueue

CONSTANTS
    MissableGames,     \* games whose player may have no Feast entity
    FailNum, FailDen,  \* scorer_feast_entity_missing_fail_fraction
    ShadowMayFail      \* whether a query, the features or an insert may raise

ASSUME ShadowAssumption ==
    /\ Bets \subseteq Nat
    /\ MissableGames \subseteq Games /\ ShadowMayFail \in BOOLEAN
    /\ FailNum \in Nat /\ FailDen \in Nat \ {0}

VARIABLES
    shadow,        \* pg_shadow_scores, as the scorer's connection sees it
    savedShadow,   \* and as last committed
    turn,          \* of the cycle: the pass is to come, under way or over
    unfetched,     \* in-pass: listed games that were not fetched yet
    reps           \* in-pass: game -> the bet that gives its features

pass == <<turn, unfetched, reps>>
shadowVars == <<shadow, savedShadow, pass>>

-----------------------------------------------------------------------------
\* _representative_bet_id: the last bet by visibility, payout and id; visibility
\* does not decrease with the payout.
Representative(B) ==
    CHOOSE b \in B : \A c \in B :
        payout[c] < payout[b] \/ (payout[c] = payout[b] /\ c <= b)

\* bets.iloc[-1] of a fetch in the order of ETL stamp and id.
LastFetched(B) ==
    CHOOSE b \in B : \A c \in B : etl[c] < etl[b] \/ (etl[c] = etl[b] /\ c <= b)

\* Mutant: the representative of the completed game is not looked for.
RepresentativeRowMutantLast(g, B) == LastFetched(B)
\* extract_representative_bet_rows for one game, when the fetch gave B.
RepresentativeRow(g, B) ==
    IF Representative(completed[g].bets) \in B THEN Representative(completed[g].bets)
                                               ELSE LastFetched(B)

Ready(row) == CHOOSE x \in Latest({PV(b) : b \in row.bets}) : TRUE

\* The row written for g: everything but the score, whose features `bet` gives, is
\* taken from the completed row.
ShadowRow(g) ==
    [ready |-> Ready(completed[g]), rep |-> Representative(completed[g].bets),
     count |-> Cardinality(completed[g].bets), bet |-> reps[g]]

\* _write_shadow_scores for the games S: ON CONFLICT DO NOTHING.
WithScores(S) ==
    [g \in DOMAIN shadow \cup S |-> IF g \in DOMAIN shadow THEN shadow[g] ELSE ShadowRow(g)]

\* apply_entity_missing_policy
TooManyMissing(missing) ==
    Cardinality(missing) * FailDen > FailNum * Cardinality(DOMAIN reps)

PassOver == turn' = "over" /\ unfetched' = {} /\ reps' = NoRows
NextCycle == turn' = "to come" /\ unfetched' = {} /\ reps' = NoRows

\* Mutant: the scores lie in a database of their own.
ShadowRollbackMutantKeep == shadow' = shadow
ShadowRollback == shadow' = savedShadow

-----------------------------------------------------------------------------
ShadowInit ==
    /\ Init
    /\ shadow = NoRows /\ savedShadow = NoRows
    /\ turn = "to come" /\ unfetched = {} /\ reps = NoRows

\* _list_completed_pending_shadow
List ==
    /\ pc = "score" /\ turn = "to come"
    /\ unfetched' = DOMAIN completed \ DOMAIN shadow
    /\ turn' = "under way"
    /\ UNCHANGED <<vars, shadow, savedShadow, reps>>

FetchAgain(g) ==
    /\ pc = "score" /\ turn = "under way"
    /\ g \in unfetched
    /\ reps' = IF Refetch(g) = {} THEN reps
                                  ELSE PutRow(reps, g, RepresentativeRow(g, Refetch(g)))
    /\ unfetched' = unfetched \ {g}
    /\ UNCHANGED <<vars, shadow, savedShadow, turn>>

\* Games without a Feast entity are skipped, and too many of them are an error.
Score(missing) ==
    /\ pc = "score" /\ turn = "under way"
    /\ unfetched = {}
    /\ shadow' = IF TooManyMissing(missing) THEN shadow
                                            ELSE WithScores(DOMAIN reps \ missing)
    /\ PassOver
    /\ UNCHANGED <<vars, savedShadow>>

\* An exception: in the fetches, in the features, or at an insert, after those of S.
ShadowFails(S) ==
    /\ ShadowMayFail
    /\ pc = "score" /\ turn = "under way"
    /\ S # {} => unfetched = {}
    /\ shadow' = WithScores(S)
    /\ PassOver
    /\ UNCHANGED <<vars, savedShadow>>

CommitScores ==
    /\ turn = "over"
    /\ Commit
    /\ savedShadow' = shadow /\ UNCHANGED shadow
    /\ NextCycle

AbortScores ==
    /\ Abort
    /\ ShadowRollback /\ UNCHANGED savedShadow
    /\ NextCycle

ShadowPass ==
    \/ List
    \/ \E g \in Games : FetchAgain(g)
    \/ \E missing \in SUBSET (DOMAIN reps \cap MissableGames) : Score(missing)
    \/ \E S \in SUBSET DOMAIN reps : ShadowFails(S)

QueueSteps ==
    \/ Tick
    \/ \E b \in Bets : Reingest(b) \/ \E lag \in PayoutLags : Ingest(b, lag)
    \/ Fetch \/ BeginQueue \/ ListDue \/ QueueFails \/ EndQueue
    \/ \E g \in Games : \/ SkipCompleted(g) \/ Enqueue(g)
                        \/ RefetchEmpty(g) \/ Defer(g) \/ Complete(g)

ShadowNext ==
    \/ QueueSteps /\ UNCHANGED shadowVars
    \/ ShadowPass \/ CommitScores \/ AbortScores

ShadowSpec == ShadowInit /\ [][ShadowNext]_<<vars, shadowVars>>

-----------------------------------------------------------------------------
(* Properties.                                                             *)

ShadowRows == [ready : Int, rep : Bets, count : Nat, bet : Bets]

\* Type correctness of the scores and of the pass: what it holds, it holds of
\* completed games and only while it is under way.
ShadowTypeOK ==
    /\ TableOf(ShadowRows, shadow) /\ TableOf(ShadowRows, savedShadow)
    /\ turn \in {"to come", "under way", "over"}
    /\ unfetched \subseteq DOMAIN completed
    /\ DOMAIN reps \subseteq DOMAIN completed \ unfetched
    /\ \A g \in DOMAIN reps : reps[g] \in Bets
    /\ turn # "under way" => DOMAIN reps \cup unfetched = {}

\* A committed score is the score of a committed completed game as that game was
\* completed, although queue and scores are written by two parts of the code, each
\* with its exceptions swallowed, and rolled back when the cycle fails.
ScoresBacked ==
    \A g \in DOMAIN savedShadow :
        /\ g \in DOMAIN saved.completed
        /\ LET row == saved.completed[g] IN
           /\ savedShadow[g].ready = Ready(row)
           /\ savedShadow[g].rep = Representative(row.bets)
           /\ savedShadow[g].count = Cardinality(row.bets)

\* A game is scored on the bet that its row names, never on one that arrived after
\* the game was completed, as long as that bet can still be fetched.
RepresentativeScored ==
    \A g \in DOMAIN shadow :
        shadow[g].bet = shadow[g].rep \/ payout[shadow[g].rep] < clock - Lookback
=============================================================================
