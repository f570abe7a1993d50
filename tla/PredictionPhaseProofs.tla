------------------------ MODULE PredictionPhaseProofs ------------------------
(***************************************************************************)
(* Theorems about PredictionPhase, for any bets, players, lags, policy,    *)
(* limits and faults: types, the evidence of a saved MATCH, the refinement *)
(* of PredictionBook, and that no verdict is PENDING when the look-ahead   *)
(* holds the horizon and the gap.                                          *)
(***************************************************************************)
EXTENDS PredictionPhase, WellFoundedInduction, TLAPS

-----------------------------------------------------------------------------
(* Verdicts and rows.                                                      *)

\* The outcomes of a judgement, and what the decided ones rest on.
LEMMA Outcomes ==
    ASSUME NEW T, NEW ts, NEW over, NEW fin
    PROVE  /\ Verdict(T, ts, over, fin) \in {"no bet data", "wait", "MATCH", "MISS", "PENDING"}
           /\ Verdict(T, ts, over, fin) = "MATCH" => LateBets(T, ts) = {}
  BY DEF Verdict

LEMMA VOutcomes ==
    ASSUME NEW b, NEW T
    PROVE  /\ V(b, T) \in {"no bet data", "wait", "MATCH", "MISS", "PENDING"}
           /\ V(b, T) = "MATCH" => LateBets(T[log[b].player], log[b].ts) = {}
  BY Outcomes DEF V

\* A new row says what its verdict says, a finished prediction is not PENDING, and no
\* row becomes PENDING that was something else.
LEMMA Stored ==
    ASSUME NEW old, NEW b, NEW v \in {"MATCH", "MISS", "PENDING"}
    PROVE  /\ \/ b \in DOMAIN old /\ StoredRow(old, b, v) = old[b]
              \/ StoredRow(old, b, v) = Row("MISS")
              \/ StoredRow(old, b, v) = Row(v)
           /\ Final(b, v) => StoredRow(old, b, v).verdict # "PENDING"
           /\ b \in DOMAIN old /\ old[b].verdict # "PENDING"
                => StoredRow(old, b, v).verdict # "PENDING"
<1>1. Row("MISS").verdict = "MISS" /\ Row(v).verdict = v
  BY DEF Row
<1>2. CASE v # "MATCH" /\ Final(b, v)
  BY <1>1, <1>2 DEF StoredRow
<1>3. CASE ~(v # "MATCH" /\ Final(b, v))
  <2>1. CASE \/ b \notin DOMAIN old
             \/ v = "MATCH" /\ old[b].verdict # "MATCH"
             \/ v = "MISS" /\ old[b].verdict = "PENDING"
    BY <1>1, <1>3, <2>1 DEF StoredRow
  <2>2. CASE ~(\/ b \notin DOMAIN old
               \/ v = "MATCH" /\ old[b].verdict # "MATCH"
               \/ v = "MISS" /\ old[b].verdict = "PENDING")
    BY <1>3, <2>2 DEF StoredRow
  <2> QED BY <2>1, <2>2
<1> QED BY <1>2, <1>3

LEMMA UpdatedTable ==
    ASSUME NEW old, NEW new
    PROVE  /\ DOMAIN Updated(old, new) = DOMAIN old \cup DOMAIN new
           /\ \A b \in DOMAIN new : Updated(old, new)[b] = new[b]
           /\ \A b \in DOMAIN old \ DOMAIN new : Updated(old, new)[b] = old[b]
  BY DEF Updated

LEMMA AppliedTable ==
    ASSUME NEW old, NEW S, NEW T
    PROVE  /\ DOMAIN Applied(old, S, T) = DOMAIN old \cup Judged(S, T)
           /\ \A b \in Judged(S, T) : Applied(old, S, T)[b] = StoredRow(old, b, V(b, T))
           /\ \A b \in DOMAIN old \ Judged(S, T) : Applied(old, S, T)[b] = old[b]
<1> DEFINE new == [b \in Judged(S, T) |-> StoredRow(old, b, V(b, T))]
<1>1. DOMAIN new = Judged(S, T) /\ \A b \in Judged(S, T) : new[b] = StoredRow(old, b, V(b, T))
  OBVIOUS
<1>2. Applied(old, S, T) = Updated(old, new)
  BY DEF Applied
<1> HIDE DEF new
<1>3. /\ DOMAIN Updated(old, new) = DOMAIN old \cup DOMAIN new
      /\ \A b \in DOMAIN new : Updated(old, new)[b] = new[b]
      /\ \A b \in DOMAIN old \ DOMAIN new : Updated(old, new)[b] = old[b]
  BY UpdatedTable
<1> QED BY <1>1, <1>2, <1>3

LEMMA OldestOf ==
    ASSUME NEW S, NEW n, NEW T \in Oldest(S, n)
    PROVE  T \subseteq S
  BY DEF Oldest

-----------------------------------------------------------------------------
(* The invariant.                                                          *)

\* Everything recorded lies in the past, and a mark is not older than its verdict.
Past ==
    /\ \A b \in DOMAIN bets : bets[b].at <= clock
    /\ \A b \in DOMAIN results : results[b].at <= clock
    /\ \A b \in DOMAIN existing : existing[b].at <= clock
    /\ \A b \in DOMAIN processed \cap DOMAIN results : results[b].at <= processed[b]
    /\ fetchedAt <= clock /\ 0 <= clock

\* What a row claims of the warehouse.
Sound(row, b) ==
    row.verdict = "MATCH" /\ row.asof # Never
    => row.asof <= clock /\ \A c \in Returns(b) : bets[c].at >= row.asof

Evidence ==
    /\ \A b \in DOMAIN results : Sound(results[b], b)
    /\ \A b \in DOMAIN existing : Sound(existing[b], b)

\* After a fetch that succeeded the bet cache has, for the players of the batch,
\* everything the warehouse had then from the prediction on.
CacheHas(b) ==
    \A c \in DOMAIN bets :
        /\ bets[c].player = log[b].player
        /\ log[b].ts <= bets[c].ts
        /\ bets[c].at < fetchedAt
        => bets[c].ts \in betCache[log[b].player]
Fetches ==
    /\ pc \in {"idle", "fetch"} => fetchedAt = Never
    /\ fetchedAt # Never => \A b \in pending : CacheHas(b)

\* The cycle's rows are those of the table except for the batch's own; finished
\* predictions have a decided row, and after the save it is in the table.
CycleInv ==
    /\ pc = "idle" => pending = {} /\ existing = Empty
    /\ pc \in {"idle", "fetch", "judge"} => done = {} /\ noBet = {}
    /\ \A b \in DOMAIN existing \ pending : b \in DOMAIN results /\ existing[b] = results[b]
    /\ \A b \in done : existing[b].verdict # "PENDING"
    /\ pc = "mark" => \A b \in done : b \in DOMAIN results /\ results[b] = existing[b]

Inv == TypeOK /\ Past /\ Evidence /\ Fetches /\ CycleInv

-----------------------------------------------------------------------------
(* Types of tables and caches.                                             *)

LEMMA UpdatedTyped ==
    ASSUME NEW old, NEW new, NEW R, IsTable(old, R), IsTable(new, R)
    PROVE  IsTable(Updated(old, new), R)
<1>1. DOMAIN Updated(old, new) = DOMAIN old \cup DOMAIN new
  BY UpdatedTable
<1>2. \A b \in DOMAIN old : old[b] \in R
  BY DEF IsTable
<1>3. \A b \in DOMAIN new : new[b] \in R
  BY DEF IsTable
<1>4. \A b \in DOMAIN old \cup DOMAIN new : Updated(old, new)[b] \in R
  BY <1>2, <1>3 DEF Updated
<1>5. Updated(old, new) = [b \in DOMAIN old \cup DOMAIN new |-> Updated(old, new)[b]]
  BY DEF Updated
<1>6. DOMAIN old \cup DOMAIN new \subseteq Bets
  BY DEF IsTable
<1> QED BY <1>1, <1>4, <1>5, <1>6 DEF IsTable

LEMMA PartTyped ==
    ASSUME NEW old, NEW R, IsTable(old, R), NEW D, D \subseteq DOMAIN old
    PROVE  IsTable([b \in D |-> old[b]], R)
  BY DEF IsTable

LEMMA RowTyped ==
    ASSUME TypeOK, NEW v \in {"MATCH", "MISS", "PENDING"}
    PROVE  Row(v) \in Rows
<1>1. clock \in Int /\ fetchedAt \in Int /\ Never \in Int
  BY DEF TypeOK, Never
<1> QED BY <1>1 DEF Row, Rows

LEMMA LeftsTyped ==
    ASSUME TypeOK, NEW left \in Lefts, NEW p \in Players
    PROVE  left[p] \in SUBSET Int
<1>1. PICK players, from, merged : left = LeftByAlerts(players, from, merged)
  BY DEF Lefts
<1>2. \A c \in DOMAIN bets : bets[c].ts \in Int
  BY DEF TypeOK, IsTable
<1>3. resolved[p] \in SUBSET Int
  BY DEF TypeOK, PlayerTimes
<1>4. {bets[c].ts : c \in {d \in DOMAIN bets : bets[d].player = p /\ bets[d].at <= now}}
        \subseteq Int
  BY <1>2
<1> QED BY <1>1, <1>3, <1>4 DEF LeftByAlerts

LEMMA PayoutsTyped == ASSUME TypeOK, NEW p PROVE Payouts(p) \in SUBSET Int
<1>1. \A c \in DOMAIN bets : bets[c].ts \in Int
  BY DEF TypeOK, IsTable
<1> QED BY <1>1 DEF Payouts

LEMMA OwnBetsTyped ==
    ASSUME TypeOK, NEW S \in SUBSET DOMAIN log, NEW p, NEW found
    PROVE  OwnBets(S, p, found) \in SUBSET Int
<1>1. \A c \in DOMAIN bets : bets[c].ts \in Int
  BY DEF TypeOK, IsTable
<1>2. DOMAIN log \subseteq DOMAIN bets
  BY DEF TypeOK
<1> QED BY <1>1, <1>2 DEF OwnBets

-----------------------------------------------------------------------------
(* The world moves on.                                                     *)

\* What the world may do to the phase: bets that are new or changed say so, logged
\* predictions stay.
WorldMoves ==
    /\ clock' \in Int /\ clock <= clock'
    /\ \A c \in DOMAIN bets' : \/ bets'[c].at = clock
                               \/ c \in DOMAIN bets /\ bets'[c] = bets[c]
    /\ DOMAIN log \subseteq DOMAIN log'
    /\ \A b \in DOMAIN log : log'[b] = log[b]
    /\ UNCHANGED <<database, resolved, pc, cycle, failures>>

LEMMA WorldKeeps ==
    ASSUME Inv, WorldMoves,
           IsTable(bets', [player : Players \cup {Placeholder}, ts : Int, at : Int]),
           IsTable(log', [player : Players, ts : Int]), DOMAIN log' \subseteq DOMAIN bets'
    PROVE  Inv'
<1>1. UNCHANGED <<results, processed, resolved, pc, now, pending, betCache, fetchedAt,
                  existing, noBet, done, failures>>
  BY DEF WorldMoves, database, cycle
<1>2. TypeOK'
  BY <1>1 DEF Inv, TypeOK, WorldMoves
<1>3. clock \in Int /\ clock' \in Int /\ clock <= clock' /\ fetchedAt \in Int
  BY DEF Inv, TypeOK, WorldMoves
<1>4. \A c \in DOMAIN bets' : bets'[c].at \in Int /\ bets'[c].ts \in Int
  BY DEF IsTable
<1>5. \A b \in DOMAIN results : results[b].at \in Int /\ results[b].asof \in Int
  BY DEF Inv, TypeOK, IsTable, Rows
<1>6. \A b \in DOMAIN existing : existing[b].at \in Int /\ existing[b].asof \in Int
  BY DEF Inv, TypeOK, IsTable, Rows
<1>7. Past'
  <2>1. \A b \in DOMAIN bets' : bets'[b].at <= clock'
    <3> TAKE b \in DOMAIN bets'
    <3>1. bets'[b].at <= clock
      BY <1>3 DEF WorldMoves, Inv, Past
    <3> QED BY <3>1, <1>3, <1>4
  <2>2. \A b \in DOMAIN results : results[b].at <= clock'
    BY <1>3, <1>5 DEF Inv, Past
  <2>3. \A b \in DOMAIN existing : existing[b].at <= clock'
    BY <1>3, <1>6 DEF Inv, Past
  <2>4. fetchedAt <= clock' /\ 0 <= clock'
    BY <1>3 DEF Inv, Past
  <2> QED BY <1>1, <2>1, <2>2, <2>3, <2>4 DEF Inv, Past
<1>8. ASSUME NEW b \in DOMAIN log, NEW c \in Returns(b)'
      PROVE  \/ bets'[c].at = clock
             \/ c \in Returns(b) /\ bets'[c] = bets[c]
  BY <1>8 DEF WorldMoves, Returns
<1>9. Evidence'
  <2>1. ASSUME NEW b \in DOMAIN results PROVE Sound(results[b], b)'
    <3>1. b \in DOMAIN log /\ Sound(results[b], b) /\ results' = results
      BY <1>1 DEF Inv, TypeOK, Evidence
    <3> QED BY <3>1, <1>3, <1>5, <1>8 DEF Sound
  <2>2. ASSUME NEW b \in DOMAIN existing PROVE Sound(existing[b], b)'
    <3>1. b \in DOMAIN log /\ Sound(existing[b], b) /\ existing' = existing
      BY <1>1 DEF Inv, TypeOK, Evidence
    <3> QED BY <3>1, <1>3, <1>6, <1>8 DEF Sound
  <2> QED BY <1>1, <2>1, <2>2 DEF Evidence
<1>10. Fetches'
  <2>1. ASSUME NEW b \in pending, fetchedAt # Never PROVE CacheHas(b)'
    <3>1. b \in DOMAIN log /\ log'[b] = log[b] /\ CacheHas(b)
      BY <2>1 DEF Inv, TypeOK, Fetches, WorldMoves
    <3>2. ASSUME NEW c \in DOMAIN bets', bets'[c].at < fetchedAt
          PROVE  c \in DOMAIN bets /\ bets'[c] = bets[c]
      BY <3>2, <1>3 DEF WorldMoves, Inv, Past
    <3> QED BY <3>1, <3>2, <1>1 DEF CacheHas
  <2> QED BY <1>1, <2>1 DEF Inv, Fetches
<1>11. CycleInv'
  BY <1>1 DEF Inv, CycleInv
<1> QED BY <1>2, <1>7, <1>9, <1>10, <1>11 DEF Inv

LEMMA EnvironmentKeeps == ASSUME Inv, World PROVE Inv'
<1>1. /\ clock \in Int /\ DOMAIN bets \subseteq Bets /\ DOMAIN log \subseteq DOMAIN bets
      /\ \A c \in DOMAIN bets : bets[c] \in [player : Players \cup {Placeholder}, ts : Int, at : Int]
      /\ \A c \in DOMAIN log : log[c] \in [player : Players, ts : Int]
      /\ IsTable(bets, [player : Players \cup {Placeholder}, ts : Int, at : Int])
      /\ IsTable(log, [player : Players, ts : Int])
  BY DEF Inv, TypeOK, IsTable
<1>2. CASE Tick
  BY <1>1, <1>2, WorldKeeps DEF Tick, WorldMoves
<1>3. ASSUME NEW b \in Bets, NEW p \in Players, NEW lag \in Lags, Arrive(b, p, lag) PROVE Inv'
  <2>1. p \in Players /\ clock - lag \in Int
    BY <1>1, BetsAssumption, EnvironmentAssumption
  <2>2. /\ DOMAIN bets' = DOMAIN bets \cup {b} /\ b \notin DOMAIN bets
        /\ bets'[b] = [player |-> p, ts |-> clock - lag, at |-> clock]
        /\ \A c \in DOMAIN bets : bets'[c] = bets[c]
        /\ bets' = [c \in DOMAIN bets \cup {b} |-> bets'[c]]
    BY <1>3 DEF Arrive
  <2>3. IsTable(bets', [player : Players \cup {Placeholder}, ts : Int, at : Int])
    BY <1>1, <2>1, <2>2 DEF IsTable
  <2>4. WorldMoves
    BY <1>1, <1>3, <2>2 DEF Arrive, WorldMoves
  <2> QED BY <1>1, <1>3, <2>2, <2>3, <2>4, WorldKeeps DEF Arrive
<1>4. ASSUME NEW b \in Bets, NEW p \in Players \cup {Placeholder}, Drift(b, p) PROVE Inv'
  <2>1. /\ DOMAIN bets' = DOMAIN bets
        /\ b \in DOMAIN bets
        /\ bets'[b] = [bets[b] EXCEPT !.player = p, !.at = clock]
        /\ \A c \in DOMAIN bets \ {b} : bets'[c] = bets[c]
        /\ bets' = [c \in DOMAIN bets |-> bets'[c]]
    BY <1>4 DEF Drift
  <2>2. bets'[b] \in [player : Players \cup {Placeholder}, ts : Int, at : Int] /\ bets'[b].at = clock
    BY <1>1, <2>1
  <2>3. IsTable(bets', [player : Players \cup {Placeholder}, ts : Int, at : Int])
    BY <1>1, <2>1, <2>2 DEF IsTable
  <2>4. WorldMoves
    BY <1>1, <1>4, <2>1, <2>2 DEF Drift, WorldMoves
  <2> QED BY <1>1, <1>4, <2>1, <2>3, <2>4, WorldKeeps DEF Drift
<1>5. ASSUME NEW b \in Bets, LogPrediction(b) PROVE Inv'
  <2>1. /\ DOMAIN log' = DOMAIN log \cup {b} /\ b \in DOMAIN bets \ DOMAIN log
        /\ log'[b] = [player |-> bets[b].player, ts |-> bets[b].ts]
        /\ \A c \in DOMAIN log : log'[c] = log[c]
        /\ log' = [c \in DOMAIN log \cup {b} |-> log'[c]]
    BY <1>5 DEF LogPrediction
  <2>2. IsTable(log', [player : Players, ts : Int])
    <3>1. bets[b].player \in Players /\ bets[b].ts \in Int
      BY <1>1, <1>5, <2>1 DEF LogPrediction, Hidden
    <3> QED BY <1>1, <2>1, <3>1 DEF IsTable
  <2>3. WorldMoves
    BY <1>1, <1>5, <2>1 DEF LogPrediction, WorldMoves
  <2> QED BY <1>1, <1>5, <2>1, <2>2, <2>3, WorldKeeps DEF LogPrediction
<1> QED BY <1>2, <1>3, <1>4, <1>5 DEF World
-----------------------------------------------------------------------------
(* The steps of the phase.                                                 *)

LEMMA BeginKeeps == ASSUME Inv, NEW readFails \in BOOLEAN, Begin(readFails) PROVE Inv'
<1>1. /\ IsTable(results, Rows) /\ IsTable(processed, Int)
      /\ DOMAIN results \subseteq DOMAIN log /\ DOMAIN processed \subseteq DOMAIN log
      /\ pc = "idle" /\ pending = {} /\ existing = Empty /\ done = {} /\ noBet = {}
      /\ fetchedAt = Never /\ clock \in Int /\ failures \in Nat
      /\ UNCHANGED <<clock, bets, log, resolved, betCache, fetchedAt, noBet, done>>
  BY DEF Begin, Inv, TypeOK, CycleInv, Fetches, environment, cycle
<1>2. /\ DOMAIN results' \subseteq DOMAIN results /\ IsTable(results', Rows)
      /\ \A b \in DOMAIN results' : results'[b] = results[b]
  <2>1. results' = [b \in {c \in DOMAIN results : RowKept(c)} |-> results[b]]
    BY DEF Begin
  <2> QED BY <2>1, <1>1, PartTyped
<1>3. /\ DOMAIN processed' \subseteq DOMAIN processed /\ IsTable(processed', Int)
      /\ \A b \in DOMAIN processed' : processed'[b] = processed[b]
  <2>1. processed' = [b \in {c \in DOMAIN processed : MarkKept(c)} |-> processed[b]]
    BY DEF Begin
  <2> QED BY <2>1, <1>1, PartTyped
<1>4. \/ UNCHANGED <<now, pending, existing, pc, failures>>
      \/ /\ pending' \in Oldest(Open(processed'), MaxRows)
         /\ existing' = Empty \/ existing' = results'
         /\ now' = clock /\ failures' \in Nat /\ pc' = "fetch"
  BY <1>1 DEF Begin, cycle
<1>5. pending' \subseteq DOMAIN log \ DOMAIN processed'
  BY <1>1, <1>4, OldestOf DEF Open
<1>6. DOMAIN Empty = {} /\ IsTable(Empty, Rows)
  BY DEF Empty, IsTable
<1>7. existing' = Empty \/ existing' = results'
  BY <1>1, <1>4
<1>8. TypeOK'
  <2>1. DOMAIN existing' \subseteq DOMAIN log /\ IsTable(existing', Rows)
    BY <1>1, <1>2, <1>6, <1>7
  <2>2. /\ pc' \in {"idle", "fetch", "judge", "retry", "settle", "save", "mark"}
        /\ now' \in Int /\ failures' \in Nat
    BY <1>1, <1>4 DEF Inv, TypeOK
  <2> QED BY <1>1, <1>2, <1>3, <1>5, <2>1, <2>2 DEF Inv, TypeOK
<1>9. Past'
  BY <1>1, <1>2, <1>3, <1>6, <1>7 DEF Inv, Past
<1>10. Evidence'
  <2>1. \A b : Returns(b)' = Returns(b)
    BY <1>1 DEF Returns
  <2>2. ASSUME NEW b \in DOMAIN results' PROVE Sound(results[b], b)'
    <3>1. results'[b] = results[b] /\ Sound(results[b], b)
      BY <1>2 DEF Inv, Evidence
    <3> QED BY <3>1, <2>1, <1>1 DEF Sound
  <2>3. ASSUME NEW b \in DOMAIN existing' PROVE Sound(existing[b], b)'
    <3>1. b \in DOMAIN results' /\ existing'[b] = results'[b]
      BY <2>3, <1>6, <1>7
    <3> QED BY <3>1, <2>2 DEF Sound
  <2> QED BY <2>2, <2>3 DEF Evidence
<1>11. Fetches'
  BY <1>1 DEF Fetches
<1>12. CycleInv'
  <2>1. pc' = "idle" => pending' = {} /\ existing' = Empty
    BY <1>1, <1>4
  <2>2. pc' # "mark"
    BY <1>1, <1>4
  <2> QED BY <1>1, <1>6, <1>7, <2>1, <2>2 DEF CycleInv
<1> QED BY <1>8, <1>9, <1>10, <1>11, <1>12 DEF Inv

LEMMA FetchKeeps == ASSUME Inv, NEW answered \in BOOLEAN, Fetch(answered) PROVE Inv'
<1>1. /\ UNCHANGED <<clock, bets, log, results, processed, resolved, now, pending, existing,
                     noBet, done>>
      /\ pc = "fetch" /\ pc' = "judge" /\ failures' \in Nat
      /\ fetchedAt' = IF answered THEN clock ELSE Never
  BY DEF Fetch, environment, database, Inv, TypeOK
<1>2. PICK left \in Lefts :
        betCache' = [p \in Players |-> IF answered THEN Extended(left, p) ELSE left[p]]
  BY DEF Fetch
<1>3. TypeOK
  BY DEF Inv
<1>4. betCache' \in PlayerTimes
  <2>1. ASSUME NEW p \in Players PROVE betCache'[p] \in SUBSET Int
    <3>1. left[p] \in SUBSET Int /\ Payouts(p) \in SUBSET Int
      BY <1>3, LeftsTyped, PayoutsTyped
    <3>2. Extended(left, p) \in SUBSET Int
      BY <3>1 DEF Extended, Fetched
    <3> QED BY <1>2, <3>1, <3>2
  <2> QED BY <1>2, <2>1 DEF PlayerTimes
<1>5. (fetchedAt' \in Int /\ fetchedAt' <= clock) \/ fetchedAt' = Never
  BY <1>1, <1>3 DEF TypeOK
<1>6. TypeOK'
  <2>1. fetchedAt' \in Int
    BY <1>5 DEF Never
  <2> QED BY <1>1, <1>3, <1>4, <2>1 DEF TypeOK
<1>7. ASSUME answered, NEW b \in pending PROVE CacheHas(b)'
  <2>1. b \in DOMAIN log /\ DOMAIN log \subseteq DOMAIN bets
    BY DEF Inv, TypeOK
  <2>2. log[b].player \in Players
    BY <2>1 DEF Inv, TypeOK, IsTable
  <2>3. ASSUME NEW c \in DOMAIN bets, bets[c].player = log[b].player, log[b].ts <= bets[c].ts
        PROVE  bets[c].ts \in betCache'[log[b].player]
    <3>1. bets[c].ts \in Payouts(log[b].player) /\ FetchWindow(bets[c].ts)
      BY <2>3, <1>7 DEF Payouts, FetchWindow
    <3>2. bets[c].ts \in Fetched(log[b].player)
      BY <3>1, <1>7 DEF Fetched
    <3>3. betCache'[log[b].player] = left[log[b].player] \cup Fetched(log[b].player)
      BY <1>2, <1>7, <2>2 DEF Extended
    <3> QED BY <3>2, <3>3
  <2> QED BY <1>1, <2>3 DEF CacheHas
<1>8. Past'
  <2>1. fetchedAt' <= clock
    BY <1>1, <1>5 DEF Inv, Past, Fetches
  <2> QED BY <1>1, <2>1 DEF Inv, Past
<1>9. Evidence'
  BY <1>1 DEF Inv, Evidence, Sound, Returns
<1>10. Fetches'
  BY <1>1, <1>7 DEF Fetches
<1>11. CycleInv'
  BY <1>1 DEF Inv, CycleInv
<1> QED BY <1>6, <1>8, <1>9, <1>10, <1>11 DEF Inv

\* A MATCH that the bet cache T gives overlooks no return that the fetch could see.
LEMMA MatchSound ==
    ASSUME Inv, NEW b \in pending, NEW T, V(b, T) = "MATCH",
           \A p \in Players : betCache[p] \subseteq T[p]
    PROVE  Sound(Row("MATCH"), b)
<1>1. Row("MATCH").asof = fetchedAt
  BY DEF Row
<1> SUFFICES ASSUME fetchedAt # Never
             PROVE  fetchedAt <= clock /\ \A c \in Returns(b) : bets[c].at >= fetchedAt
  BY <1>1 DEF Sound
<1>2. CacheHas(b) /\ b \in DOMAIN log /\ log[b].player \in Players /\ log[b].ts \in Int
  BY DEF Inv, Fetches, TypeOK, IsTable
<1>3. ASSUME NEW c \in Returns(b) PROVE bets[c].at >= fetchedAt
  <2>1. /\ c \in DOMAIN bets /\ bets[c].player = log[b].player
        /\ bets[c].ts \in LateBets({bets[c].ts}, log[b].ts)
    BY <1>3 DEF Returns
  <2>2. bets[c].ts \in Int /\ bets[c].at \in Int /\ fetchedAt \in Int
    BY <2>1 DEF Inv, TypeOK, IsTable
  <2>3. log[b].ts <= bets[c].ts
    BY <1>2, <2>1, <2>2, RulesAssumption DEF LateBets
  <2>4. bets[c].ts \notin T[log[b].player]
    BY <2>1, VOutcomes DEF LateBets
  <2>5. bets[c].ts \notin betCache[log[b].player]
    BY <1>2, <2>4
  <2>6. ~(bets[c].at < fetchedAt)
    BY <1>2, <2>1, <2>3, <2>5 DEF CacheHas
  <2> QED BY <2>2, <2>6
<1> QED BY <1>3 DEF Inv, Past

\* A step that writes rows of the batch, S, as the bet cache at its end judges them.
LEMMA RowsKeep ==
    ASSUME Inv, UNCHANGED <<environment, database, now, pending, fetchedAt>>,
           pc \in {"judge", "retry", "settle"}, pc' \in {"retry", "settle", "save"},
           betCache' \in PlayerTimes, \A p \in Players : betCache[p] \subseteq betCache'[p],
           resolved' \in PlayerTimes, failures' \in Nat, noBet' \subseteq pending,
           NEW S \in SUBSET pending,
           DOMAIN existing' = DOMAIN existing \cup S,
           existing' = [b \in DOMAIN existing' |-> existing'[b]],
           \A b \in DOMAIN existing \ S : existing'[b] = existing[b],
           \A b \in S : \/ b \in DOMAIN existing /\ existing'[b] = existing[b]
                        \/ existing'[b] \in {Row("MISS"), Row("PENDING")}
                        \/ existing'[b] = Row("MATCH") /\ V(b, betCache') = "MATCH",
           done' \subseteq pending \cap DOMAIN existing',
           \A b \in done' : existing'[b].verdict # "PENDING"
    PROVE  Inv'
<1>1. /\ UNCHANGED <<clock, bets, log, results, processed, now, pending, fetchedAt>>
      /\ TypeOK
  BY DEF environment, database, Inv
<1>2. ASSUME NEW b \in DOMAIN existing'
      PROVE  /\ existing'[b] \in Rows /\ existing'[b].at <= clock
             /\ Sound(existing'[b], b)
  <2>1. CASE b \in DOMAIN existing /\ existing'[b] = existing[b]
    BY <2>1 DEF Inv, TypeOK, IsTable, Past, Evidence
  <2>2. CASE existing'[b] \in {Row("MISS"), Row("PENDING")}
    <3>1. /\ existing'[b].at = clock /\ existing'[b].verdict # "MATCH"
          /\ existing'[b] \in Rows /\ clock \in Int
      BY <2>2, <1>1, RowTyped DEF Row, TypeOK
    <3> QED BY <3>1 DEF Sound
  <2>3. CASE b \in S /\ existing'[b] = Row("MATCH") /\ V(b, betCache') = "MATCH"
    <3>1. Sound(Row("MATCH"), b)
      BY <2>3, MatchSound
    <3>2. Row("MATCH").at = clock /\ Row("MATCH") \in Rows /\ clock \in Int
      BY <1>1, RowTyped DEF Row, TypeOK
    <3> QED BY <2>3, <3>1, <3>2
  <2> QED BY <1>2, <2>1, <2>2, <2>3
<1>3. TypeOK'
  <2>1. DOMAIN existing' \subseteq DOMAIN log /\ DOMAIN log \subseteq Bets
    BY DEF Inv, TypeOK, IsTable
  <2>2. IsTable(existing', Rows)
    BY <1>2, <2>1 DEF IsTable
  <2> QED BY <1>1, <2>1, <2>2 DEF TypeOK
<1>4. Past'
  BY <1>1, <1>2 DEF Inv, Past
<1>5. Evidence'
  <2>1. \A b : Returns(b)' = Returns(b)
    BY <1>1 DEF Returns
  <2>2. \A b \in DOMAIN results' : Sound(results[b], b)'
    BY <1>1, <2>1 DEF Inv, Evidence, Sound
  <2>3. \A b \in DOMAIN existing' : Sound(existing[b], b)'
    BY <1>1, <1>2, <2>1 DEF Sound
  <2> QED BY <2>2, <2>3 DEF Evidence
<1>6. Fetches'
  <2>1. ASSUME NEW b \in pending, fetchedAt # Never PROVE CacheHas(b)'
    <3>1. CacheHas(b) /\ log[b].player \in Players
      BY <2>1 DEF Inv, Fetches, TypeOK, IsTable
    <3> QED BY <3>1, <1>1 DEF CacheHas
  <2> QED BY <1>1, <2>1 DEF Fetches
<1>7. CycleInv'
  <2>1. \A b \in DOMAIN existing' \ pending' : b \in DOMAIN results' /\ existing'[b] = results'[b]
    BY <1>1 DEF Inv, CycleInv
  <2> QED BY <2>1 DEF CycleInv
<1> QED BY <1>3, <1>4, <1>5, <1>6, <1>7 DEF Inv

\* `new` are the rows `old` after a judgement of S with the bet cache T.
NewRows(old, new, S, T) ==
    /\ DOMAIN new = DOMAIN old \cup Judged(S, T)
    /\ new = [b \in DOMAIN new |-> new[b]]
    /\ \A b \in DOMAIN old \ Judged(S, T) : new[b] = old[b]
    /\ \A b \in Judged(S, T) : \/ b \in DOMAIN old /\ new[b] = old[b]
                               \/ new[b] \in {Row("MISS"), Row("PENDING")}
                               \/ new[b] = Row("MATCH") /\ V(b, T) = "MATCH"
    /\ \A b \in Finished(S, T) : new[b].verdict # "PENDING"
    /\ \A b \in DOMAIN old : old[b].verdict # "PENDING" => new[b].verdict # "PENDING"

LEMMA JudgedRows ==
    ASSUME NEW S, NEW T, NEW old
    PROVE  /\ Judged(S, T) \subseteq S /\ Finished(S, T) \subseteq Judged(S, T)
           /\ NewRows(old, Applied(old, S, T), S, T)
<1>1. Judged(S, T) \subseteq S /\ Finished(S, T) \subseteq Judged(S, T)
  BY DEF Judged, Finished
<1>2. /\ DOMAIN Applied(old, S, T) = DOMAIN old \cup Judged(S, T)
      /\ \A b \in Judged(S, T) : Applied(old, S, T)[b] = StoredRow(old, b, V(b, T))
      /\ \A b \in DOMAIN old \ Judged(S, T) : Applied(old, S, T)[b] = old[b]
  BY AppliedTable
<1>3. Applied(old, S, T) = [b \in DOMAIN Applied(old, S, T) |-> Applied(old, S, T)[b]]
  BY DEF Applied, Updated
<1>4. ASSUME NEW b \in Judged(S, T)
      PROVE  /\ \/ b \in DOMAIN old /\ Applied(old, S, T)[b] = old[b]
                \/ Applied(old, S, T)[b] \in {Row("MISS"), Row("PENDING")}
                \/ Applied(old, S, T)[b] = Row("MATCH") /\ V(b, T) = "MATCH"
             /\ b \in Finished(S, T) => Applied(old, S, T)[b].verdict # "PENDING"
             /\ b \in DOMAIN old /\ old[b].verdict # "PENDING"
                  => Applied(old, S, T)[b].verdict # "PENDING"
  <2>1. V(b, T) \in {"MATCH", "MISS", "PENDING"}
    BY <1>4 DEF Judged, Decided
  <2>2. PICK v \in {"MATCH", "MISS", "PENDING"} : v = V(b, T)
    BY <2>1
  <2>3. Applied(old, S, T)[b] = StoredRow(old, b, v)
    BY <1>2, <2>2
  <2>4. b \in Finished(S, T) => Final(b, v)
    BY <2>2 DEF Finished
  <2> QED BY <2>2, <2>3, <2>4, Stored
<1> QED BY <1>1, <1>2, <1>3, <1>4 DEF NewRows

LEMMA JudgeKeeps ==
    ASSUME Inv, NEW S \in SUBSET pending, NEW inTime \in BOOLEAN, Judge(S, inTime)
    PROVE  Inv'
<1>1. /\ UNCHANGED <<environment, database, resolved, now, pending, betCache, fetchedAt>>
      /\ pc = "judge" /\ pc' \in {"retry", "settle", "save"}
      /\ existing' = Applied(existing, S, betCache) /\ done' = Finished(S, betCache)
      /\ noBet' \subseteq S
  <2>1. CASE inTime = TRUE
    BY <2>1 DEF Judge
  <2>2. CASE inTime = FALSE
    BY <2>2 DEF Judge
  <2> QED BY <2>1, <2>2
<1>2. betCache \in PlayerTimes /\ resolved \in PlayerTimes /\ failures' \in Nat
  <2>1. betCache \in PlayerTimes /\ resolved \in PlayerTimes /\ failures \in Nat
    BY DEF Inv, TypeOK
  <2>2. failures' = failures \/ failures' = failures + 1
    BY Zenon DEF Judge
  <2> QED BY <2>1, <2>2
<1>3. betCache' = betCache /\ resolved' = resolved /\ pending' = pending
  BY <1>1
<1>4. /\ Judged(S, betCache) \subseteq S /\ Finished(S, betCache) \subseteq Judged(S, betCache)
      /\ NewRows(existing, existing', S, betCache)
  BY <1>1, JudgedRows
<1>5. /\ noBet' \subseteq pending /\ Judged(S, betCache) \in SUBSET pending
      /\ done' \subseteq pending \cap DOMAIN existing'
      /\ \A p \in Players : betCache[p] \subseteq betCache'[p]
  BY <1>1, <1>3, <1>4 DEF NewRows
<1> QED BY <1>1, <1>2, <1>3, <1>4, <1>5, RowsKeep DEF NewRows

\* What a retry adds to the bet cache are payouts.
LEMMA RetryCaches ==
    ASSUME Inv, NEW slice \in SUBSET pending, NEW answered, NEW found
    PROVE  /\ [p \in Players |-> resolved[p] \cup OwnBets(slice, p, found)] \in PlayerTimes
           /\ [p \in Players |-> betCache[p] \cup InWindow(slice, p, answered)
                                             \cup OwnBets(slice, p, found)] \in PlayerTimes
<1>1. TypeOK /\ slice \in SUBSET DOMAIN log
  BY DEF Inv, TypeOK
<1>2. ASSUME NEW p \in Players
      PROVE  /\ resolved[p] \in SUBSET Int /\ betCache[p] \in SUBSET Int
             /\ OwnBets(slice, p, found) \in SUBSET Int
             /\ InWindow(slice, p, answered) \in SUBSET Int
  <2>1. Payouts(p) \in SUBSET Int /\ OwnBets(slice, p, found) \in SUBSET Int
    BY <1>1, PayoutsTyped, OwnBetsTyped
  <2> QED BY <1>1, <2>1 DEF TypeOK, PlayerTimes, InWindow
<1> QED BY <1>2 DEF PlayerTimes

LEMMA RetryKeeps ==
    ASSUME Inv, NEW slice \in SUBSET noBet, NEW S \in SUBSET slice, NEW answered,
           NEW found, Retry(slice, S, answered, found)
    PROVE  Inv'
<1>1. /\ UNCHANGED <<environment, database, now, pending, fetchedAt, noBet>>
      /\ pc = "retry" /\ pc' \in {"settle", "save"}
      /\ resolved' = [p \in Players |-> resolved[p] \cup OwnBets(slice, p, found)]
      /\ betCache' = [p \in Players |-> betCache[p] \cup InWindow(slice, p, answered)
                                                    \cup OwnBets(slice, p, found)]
      /\ existing' = Applied(existing, S, betCache')
      /\ done' = done \cup Finished(S, betCache')
  BY DEF Retry
<1>2. failures \in Nat /\ failures' \in Nat
  BY DEF Retry, Inv, TypeOK
<1>3. noBet \subseteq pending /\ done \subseteq pending \cap DOMAIN existing
      /\ \A b \in done : existing[b].verdict # "PENDING"
  BY DEF Inv, TypeOK, CycleInv
<1>4. betCache' \in PlayerTimes /\ resolved' \in PlayerTimes
  <2>1. slice \in SUBSET pending
    BY <1>3
  <2>2. /\ [p \in Players |-> resolved[p] \cup OwnBets(slice, p, found)] \in PlayerTimes
        /\ [p \in Players |-> betCache[p] \cup InWindow(slice, p, answered)
                                          \cup OwnBets(slice, p, found)] \in PlayerTimes
    BY <2>1, RetryCaches
  <2> QED BY <1>1, <2>2
<1>5. \A p \in Players : betCache[p] \subseteq betCache'[p]
  BY <1>1
<1>6. /\ Judged(S, betCache') \subseteq S /\ Finished(S, betCache') \subseteq Judged(S, betCache')
      /\ NewRows(existing, existing', S, betCache')
  BY <1>1, JudgedRows
<1>7. /\ noBet' \subseteq pending /\ Judged(S, betCache') \in SUBSET pending
      /\ done' \subseteq pending \cap DOMAIN existing'
      /\ \A b \in done' : existing'[b].verdict # "PENDING"
  BY <1>1, <1>3, <1>6 DEF NewRows
<1> QED BY <1>1, <1>2, <1>4, <1>5, <1>6, <1>7, RowsKeep DEF NewRows

LEMMA SettleKeeps == ASSUME Inv, Settle PROVE Inv'
<1>1. /\ UNCHANGED <<environment, database, resolved, now, pending, betCache, fetchedAt, noBet,
                     failures>>
      /\ pc = "settle" /\ pc' = "save" /\ done' = done \cup Waiting
      /\ existing' = Updated(existing, [b \in Waiting |-> Row(V(b, betCache))])
  BY DEF Settle
<1>2. /\ Waiting \subseteq pending \cap DOMAIN existing
      /\ \A b \in Waiting : V(b, betCache) \in {"MATCH", "MISS"}
  BY DEF Waiting
<1>3. /\ DOMAIN existing' = DOMAIN existing \cup Waiting
      /\ existing' = [b \in DOMAIN existing' |-> existing'[b]]
      /\ \A b \in DOMAIN existing \ Waiting : existing'[b] = existing[b]
      /\ \A b \in Waiting : existing'[b] = Row(V(b, betCache))
  BY <1>1 DEF Updated
<1>4. /\ betCache \in PlayerTimes /\ resolved \in PlayerTimes /\ failures \in Nat
      /\ noBet \subseteq pending /\ done \subseteq pending \cap DOMAIN existing
      /\ \A b \in done : existing[b].verdict # "PENDING"
  BY DEF Inv, TypeOK, CycleInv
<1>5. ASSUME NEW b \in Waiting
      PROVE  /\ \/ existing'[b] \in {Row("MISS"), Row("PENDING")}
                \/ existing'[b] = Row("MATCH") /\ V(b, betCache) = "MATCH"
             /\ existing'[b].verdict # "PENDING"
  <2>1. existing'[b] = Row("MISS") \/ (existing'[b] = Row("MATCH") /\ V(b, betCache) = "MATCH")
    BY <1>2, <1>3
  <2>2. Row("MISS").verdict = "MISS" /\ Row("MATCH").verdict = "MATCH"
    BY DEF Row
  <2> QED BY <2>1, <2>2
<1>6. /\ betCache' = betCache /\ resolved' = resolved /\ failures' = failures
      /\ noBet' = noBet /\ Waiting \in SUBSET pending
      /\ done' \subseteq pending \cap DOMAIN existing'
      /\ \A b \in done' : existing'[b].verdict # "PENDING"
  BY <1>1, <1>2, <1>3, <1>4, <1>5
<1> QED BY <1>1, <1>3, <1>4, <1>5, <1>6, RowsKeep

LEMMA SaveKeeps == ASSUME Inv, Save PROVE Inv'
<1>1. /\ UNCHANGED <<clock, bets, log, processed, resolved, now, pending, betCache, fetchedAt,
                     existing, noBet, done, failures>>
      /\ pc = "save" /\ pc' = "mark" /\ results' = Updated(results, existing)
      /\ TypeOK
  BY DEF Save, environment, cycle, Inv
<1>2. /\ DOMAIN results' = DOMAIN results \cup DOMAIN existing
      /\ \A b \in DOMAIN existing : results'[b] = existing[b]
      /\ \A b \in DOMAIN results \ DOMAIN existing : results'[b] = results[b]
  BY <1>1 DEF Updated
<1>3. IsTable(results', Rows)
  BY <1>1, UpdatedTyped DEF TypeOK
<1>4. TypeOK'
  BY <1>1, <1>2, <1>3 DEF TypeOK
<1>5. ASSUME NEW b \in DOMAIN processed \cap DOMAIN results'
      PROVE  b \in DOMAIN results /\ results'[b] = results[b]
  BY <1>2, <1>5 DEF Inv, TypeOK, CycleInv
<1>6. Past'
  BY <1>1, <1>2, <1>5 DEF Inv, Past
<1>7. Evidence'
  <2>1. \A b : Returns(b)' = Returns(b)
    BY <1>1 DEF Returns
  <2>2. \A b \in DOMAIN results' : Sound(results'[b], b)
    BY <1>2 DEF Inv, Evidence
  <2> QED BY <1>1, <2>1, <2>2 DEF Inv, Evidence, Sound
<1>8. Fetches'
  BY <1>1 DEF Inv, Fetches, CacheHas
<1>9. CycleInv'
  BY <1>1, <1>2 DEF Inv, CycleInv, TypeOK
<1> QED BY <1>4, <1>6, <1>7, <1>8, <1>9 DEF Inv

\* The end of a cycle, whose marks are `marked`.
LEMMA OverKeeps ==
    ASSUME Inv, CycleOver, UNCHANGED <<environment, results>>,
           IsTable(processed', Int), DOMAIN processed' \subseteq DOMAIN log,
           \A b \in DOMAIN processed' \cap DOMAIN results : results[b].at <= processed'[b],
           resolved' \in PlayerTimes, failures' \in Nat
    PROVE  Inv'
<1>1. /\ UNCHANGED <<clock, bets, log, results>> /\ TypeOK
      /\ pc' = "idle" /\ now' = 0 /\ pending' = {} /\ fetchedAt' = Never
      /\ existing' = Empty /\ noBet' = {} /\ done' = {}
      /\ betCache' = [p \in Players |-> {}]
  BY DEF CycleOver, environment, Inv
<1>2. DOMAIN Empty = {} /\ IsTable(Empty, Rows) /\ Never \in Int
  BY DEF Empty, IsTable, Never
<1>3. betCache' \in PlayerTimes
  BY <1>1 DEF PlayerTimes
<1>4. TypeOK'
  BY <1>1, <1>2, <1>3 DEF TypeOK
<1>5. Past'
  <2>1. fetchedAt' <= clock'
    <3>1. 0 <= clock /\ clock \in Int
      BY <1>1 DEF Inv, Past, TypeOK
    <3> QED BY <1>1, <3>1 DEF Never
  <2> QED BY <1>1, <1>2, <2>1 DEF Inv, Past
<1>6. Evidence'
  BY <1>1, <1>2 DEF Inv, Evidence, Sound, Returns
<1>7. Fetches' /\ CycleInv'
  BY <1>1, <1>2 DEF Fetches, CycleInv
<1> QED BY <1>4, <1>5, <1>6, <1>7 DEF Inv

LEMMA MarkKeeps == ASSUME Inv, Mark PROVE Inv'
<1>1. /\ processed' = Updated(processed, [b \in done |-> clock])
      /\ CycleOver /\ UNCHANGED <<environment, results>> /\ resolved' = resolved
      /\ failures' = failures
  BY DEF Mark
<1>2. /\ clock \in Int /\ IsTable(processed, Int) /\ DOMAIN processed \subseteq DOMAIN log
      /\ done \subseteq DOMAIN log /\ DOMAIN log \subseteq Bets
      /\ resolved \in PlayerTimes /\ failures \in Nat
  BY DEF Inv, TypeOK, IsTable
<1>3. DOMAIN [b \in done |-> clock] = done /\ IsTable([b \in done |-> clock], Int)
  BY <1>2 DEF IsTable
<1>4. IsTable(processed', Int)
  BY <1>1, <1>2, <1>3, UpdatedTyped
<1>5. /\ DOMAIN processed' = DOMAIN processed \cup done
      /\ \A b \in done : processed'[b] = clock
      /\ \A b \in DOMAIN processed \ done : processed'[b] = processed[b]
  BY <1>1 DEF Updated
<1>6. \A b \in DOMAIN processed' \cap DOMAIN results : results[b].at <= processed'[b]
  BY <1>5 DEF Inv, Past
<1>7. DOMAIN processed' \subseteq DOMAIN log /\ resolved' \in PlayerTimes /\ failures' \in Nat
  BY <1>1, <1>2, <1>5
<1> QED BY <1>1, <1>4, <1>6, <1>7, OverKeeps

LEMMA FaultsKeep == ASSUME Inv, Raise \/ Crash PROVE Inv'
<1>1. /\ CycleOver /\ UNCHANGED <<environment, results>> /\ processed' = processed
      /\ failures' = failures + 1
      /\ resolved' = resolved \/ resolved' = [p \in Players |-> {}]
  BY DEF Raise, Crash, database
<1>2. /\ IsTable(processed, Int) /\ DOMAIN processed \subseteq DOMAIN log
      /\ \A b \in DOMAIN processed \cap DOMAIN results : results[b].at <= processed[b]
      /\ resolved \in PlayerTimes /\ failures \in Nat
  BY DEF Inv, TypeOK, Past
<1>3. [p \in Players |-> {}] \in PlayerTimes
  BY DEF PlayerTimes
<1>4. resolved' \in PlayerTimes
  BY <1>1, <1>2, <1>3, Zenon
<1>5. failures' \in Nat
  BY <1>1, <1>2
<1> QED BY <1>1, <1>2, <1>4, <1>5, OverKeeps

LEMMA StepKeeps == ASSUME Inv, Next PROVE Inv'
<1>1. CASE Phase
  <2>1. ASSUME NEW slice \in Oldest(noBet, RetryLimit), Retry(slice, slice, Players, TRUE)
        PROVE  Inv'
    <3>1. slice \in SUBSET noBet
      BY OldestOf
    <3> QED BY <2>1, <3>1, RetryKeeps
  <2>2. CASE Begin(FALSE)
    BY <2>2, BeginKeeps
  <2>3. CASE Fetch(TRUE)
    BY <2>3, FetchKeeps
  <2>4. CASE Judge(pending, TRUE)
    BY <2>4, JudgeKeeps
  <2> QED BY <1>1, <2>1, <2>2, <2>3, <2>4, SettleKeeps, SaveKeeps, MarkKeeps DEF Phase
<1>2. CASE Faults
  <2>1. ASSUME NEW slice \in Oldest(noBet, RetryLimit), NEW n, NEW answered, NEW found,
               NEW S \in Oldest(slice, n), Retry(slice, S, answered, found)
        PROVE  Inv'
    <3>1. slice \in SUBSET noBet /\ S \in SUBSET slice
      BY OldestOf
    <3> QED BY <2>1, <3>1, RetryKeeps
  <2>2. ASSUME NEW n, NEW S \in Oldest(pending, n), Judge(S, FALSE) PROVE Inv'
    <3>1. S \in SUBSET pending
      BY OldestOf
    <3> QED BY <2>2, <3>1, JudgeKeeps
  <2>3. CASE Begin(TRUE)
    BY <2>3, BeginKeeps
  <2>4. CASE Fetch(FALSE)
    BY <2>4, FetchKeeps
  <2> QED BY <1>2, <2>1, <2>2, <2>3, <2>4, FaultsKeep DEF Faults
<1> QED BY <1>1, <1>2, EnvironmentKeeps DEF Next

\* The invariant holds in every state of the phase.
LEMMA Invariance == Spec => []Inv
<1>1. Init => Inv
  <2> SUFFICES ASSUME Init PROVE Inv
    OBVIOUS
  <2>1. /\ clock = 0 /\ bets = Empty /\ log = Empty /\ results = Empty /\ processed = Empty
        /\ pc = "idle" /\ now = 0 /\ pending = {} /\ fetchedAt = Never /\ existing = Empty
        /\ noBet = {} /\ done = {} /\ failures = 0
        /\ resolved = [p \in Players |-> {}] /\ betCache = [p \in Players |-> {}]
    BY DEF Init
  <2>2. DOMAIN Empty = {} /\ \A R : IsTable(Empty, R)
    BY DEF Empty, IsTable
  <2>3. [p \in Players |-> {}] \in PlayerTimes
    BY DEF PlayerTimes
  <2>4. TypeOK
    BY <2>1, <2>2, <2>3 DEF TypeOK, Never
  <2>5. Past
    BY <2>1, <2>2 DEF Past, Never
  <2>6. Evidence /\ Fetches /\ CycleInv
    BY <2>1, <2>2 DEF Evidence, Fetches, CycleInv
  <2> QED BY <2>4, <2>5, <2>6 DEF Inv
<1>2. Inv /\ UNCHANGED vars => Inv'
  <2> SUFFICES ASSUME Inv, UNCHANGED vars PROVE Inv'
    OBVIOUS
  <2>1. UNCHANGED <<clock, bets, log, results, processed, resolved, pc, now, pending, betCache,
                    fetchedAt, existing, noBet, done, failures>>
    BY DEF vars, environment, database, cycle
  <2>2. TypeOK' /\ Past'
    BY <2>1 DEF Inv, TypeOK, Past
  <2>3. Evidence'
    BY <2>1 DEF Inv, Evidence, Sound, Returns
  <2>4. Fetches' /\ CycleInv'
    BY <2>1 DEF Inv, Fetches, CacheHas, CycleInv
  <2> QED BY <2>2, <2>3, <2>4 DEF Inv
<1>3. Inv /\ [Next]_vars => Inv'
  BY <1>2, StepKeeps
<1> QED BY <1>1, <1>3, PTL DEF Spec

\* Type correctness of the tables, the caches and the cycle.
THEOREM TypeCorrect == Spec => []TypeOK
<1>1. Inv => TypeOK
  BY DEF Inv
<1> QED BY <1>1, Invariance, PTL

\* No saved MATCH overlooks a return that was in the warehouse when its phase looked.
THEOREM MatchesSawNoReturn == Spec => []MatchSawNoReturn
<1>1. Inv => MatchSawNoReturn
  BY DEF Inv, Evidence, Sound, MatchSawNoReturn
<1> QED BY <1>1, Invariance, PTL

-----------------------------------------------------------------------------
(* The tables implement PredictionBook.                                    *)

verdicts == [b \in DOMAIN results |-> results[b].verdict]

LEMMA ExpireStep == ASSUME Inv, NEW readFails \in BOOLEAN, Begin(readFails) PROVE Book!Expire
<1>1. /\ results' = [b \in {c \in DOMAIN results : RowKept(c)} |-> results[b]]
      /\ processed' = [b \in {c \in DOMAIN processed : MarkKept(c)} |-> processed[b]]
  BY DEF Begin
<1>2. /\ DOMAIN results' \subseteq DOMAIN results
      /\ \A b \in DOMAIN results' : results'[b] = results[b]
      /\ DOMAIN processed' \subseteq DOMAIN processed
  BY <1>1
<1>3. verdicts' = [b \in DOMAIN results' |-> verdicts[b]] /\ DOMAIN verdicts' = DOMAIN results'
      /\ DOMAIN verdicts = DOMAIN results
  BY <1>2 DEF verdicts
<1>4. ASSUME NEW b \in DOMAIN processed \ DOMAIN processed' PROVE b \notin DOMAIN results'
  <2>1. Retention # 0 /\ ~(processed[b] >= clock - Retention)
    BY <1>1, <1>4 DEF MarkKept
  <2>2. b \in DOMAIN results
          => results[b].at <= processed[b] /\ results[b].at \in Int
    BY <1>4 DEF Inv, Past, TypeOK, IsTable, Rows
  <2>3. processed[b] \in Int /\ clock \in Int /\ Retention \in Int
    BY <1>4, PolicyAssumption DEF Inv, TypeOK, IsTable
  <2>4. b \in DOMAIN results => ~(results[b].at >= clock - Retention)
    BY <2>1, <2>2, <2>3
  <2> QED BY <1>1, <2>1, <2>4 DEF RowKept
<1> QED BY <1>2, <1>3, <1>4 DEF Book!Expire, verdicts

LEMMA ReviseStep == ASSUME Inv, Save PROVE Book!Revise
<1>1. /\ results' = Updated(results, existing) /\ processed' = processed
  BY DEF Save
<1>2. /\ DOMAIN results' = DOMAIN results \cup DOMAIN existing
      /\ \A b \in DOMAIN existing : results'[b] = existing[b]
      /\ \A b \in DOMAIN results \ DOMAIN existing : results'[b] = results[b]
  BY <1>1 DEF Updated
<1>3. /\ DOMAIN results' \in SUBSET Bets
      /\ \A b \in DOMAIN results' : results'[b].verdict \in {"MATCH", "MISS", "PENDING"}
  BY <1>2 DEF Inv, TypeOK, IsTable, Rows
<1>4. verdicts' \in [DOMAIN results' -> {"MATCH", "MISS", "PENDING"}]
  BY <1>3 DEF verdicts
<1>5. ASSUME NEW b \in DOMAIN processed \cap DOMAIN results'
      PROVE  b \in DOMAIN results /\ results'[b] = results[b]
  BY <1>2, <1>5 DEF Inv, TypeOK, CycleInv
<1>6. /\ DOMAIN verdicts = DOMAIN results /\ DOMAIN verdicts' = DOMAIN results'
      /\ \A b \in DOMAIN results : verdicts[b] = results[b].verdict
      /\ \A b \in DOMAIN results' : verdicts'[b] = results'[b].verdict
  BY DEF verdicts
<1>7. \E D \in SUBSET Bets : verdicts' \in [D -> {"MATCH", "MISS", "PENDING"}]
  BY <1>3, <1>4
<1> QED BY <1>1, <1>2, <1>5, <1>6, <1>7 DEF Book!Revise, Book!Verdicts, verdicts

LEMMA CloseStep == ASSUME Inv, Mark PROVE Book!Close
<1>1. /\ processed' = Updated(processed, [b \in done |-> clock]) /\ results' = results
      /\ pc = "mark"
  BY DEF Mark
<1>2. DOMAIN processed' = DOMAIN processed \cup done
  BY <1>1 DEF Updated
<1>3. \A b \in done : b \in DOMAIN results /\ results[b].verdict # "PENDING"
  BY <1>1 DEF Inv, CycleInv
<1>4. verdicts' = verdicts
  BY <1>1 DEF verdicts
<1> QED BY <1>2, <1>3, <1>4 DEF Book!Close, verdicts

LEMMA OtherSteps ==
    ASSUME [Next]_vars
    PROVE  \/ \E readFails \in BOOLEAN : Begin(readFails)
           \/ Save \/ Mark
           \/ UNCHANGED <<results, processed>>
<1>1. UNCHANGED vars => UNCHANGED <<results, processed>>
  BY DEF vars, database
<1>2. World => UNCHANGED <<results, processed>>
  BY DEF World, Tick, Arrive, Drift, LogPrediction, database
<1>3. \A a : Fetch(a) => UNCHANGED <<results, processed>>
  BY DEF Fetch, database
<1>4. \A S, a : Judge(S, a) => UNCHANGED <<results, processed>>
  BY DEF Judge, database
<1>5. \A s, S, a, f : Retry(s, S, a, f) => UNCHANGED <<results, processed>>
  BY DEF Retry, database
<1>6. Settle \/ Raise \/ Crash => UNCHANGED <<results, processed>>
  BY DEF Settle, Raise, Crash, database
<1> QED BY <1>1, <1>2, <1>3, <1>4, <1>5, <1>6 DEF Next, Phase, Faults

\* The tables keep the promises of PredictionBook, whatever fails, and through the
\* retention.
THEOREM BookImplemented == Spec => ImplementsBook
<1>1. Init => Book!Init
  <2>1. Init => DOMAIN results = {} /\ DOMAIN processed = {}
    BY DEF Init, Empty
  <2> QED BY <2>1 DEF Book!Init
<1>2. Inv /\ [Next]_vars => [Book!Revise \/ Book!Close \/ Book!Expire]_<<verdicts, DOMAIN processed>>
  <2> SUFFICES ASSUME Inv, [Next]_vars
               PROVE  [Book!Revise \/ Book!Close \/ Book!Expire]_<<verdicts, DOMAIN processed>>
    OBVIOUS
  <2>1. CASE UNCHANGED <<results, processed>>
    BY <2>1 DEF verdicts
  <2> QED BY <2>1, OtherSteps, ExpireStep, ReviseStep, CloseStep
<1> QED BY <1>1, <1>2, Invariance, PTL DEF Spec, ImplementsBook, Book!Spec, verdicts
-----------------------------------------------------------------------------
(* With a look-ahead of at least the horizon and the gap, the configured     *)
(* one, a verdict is never PENDING: the last bet inside the horizon begins a *)
(* gap, or a late bet contradicts it.                                        *)

WideLookahead == Horizon + Gap <= Lookahead

\* A set of naturals that is not empty has a least element.
LEMMA LeastNatural ==
    ASSUME NEW S, S \subseteq Nat, S # {}
    PROVE  \E m \in S : \A x \in S : m <= x
<1>1. IsWellFoundedOn(OpToRel(<, Nat), Nat)
  BY NatLessThanWellFounded
<1>2. PICK m \in S : \A x \in S : <<x, m>> \notin OpToRel(<, Nat)
  BY <1>1, WFMin
<1>3. \A x \in S : ~(x < m)
  BY <1>2 DEF OpToRel
<1> QED BY <1>3

LEMMA GapOrReturn ==
    ASSUME WideLookahead, NEW T \in SUBSET Int, NEW ts \in Int, LateBets(T, ts) = {}
    PROVE  HasGap(T, ts)
<1> DEFINE N == {n \in 0 .. Horizon : ts + Horizon - n \in T \cup {ts}}
<1>1. Horizon \in Nat /\ Gap \in Nat /\ Lookahead \in Nat
  BY RulesAssumption
<1>2. PICK m \in N : \A n \in N : m <= n
  <2>1. N \subseteq Nat /\ Horizon \in N
    BY <1>1
  <2> HIDE DEF N
  <2> QED BY <2>1, LeastNatural
<1>3. PICK s \in Int : s = ts + Horizon - m
  BY <1>1
<1>4. /\ s \in T \cup {ts} /\ ts <= s /\ s <= ts + Horizon
      /\ s + Gap <= ts + Lookahead
  BY <1>1, <1>3 DEF WideLookahead
<1>5. ASSUME NEW x \in T, s < x PROVE s + Gap <= x
  <2>1. CASE x <= ts + Horizon
    <3>1. ts + Horizon - x \in N
      BY <1>1, <1>4, <1>5, <2>1
    <3>2. m <= ts + Horizon - x
      BY <1>2, <3>1
    <3> QED BY <1>1, <1>3, <1>5, <3>2
  <2>2. CASE ts + Horizon < x
    <3>1. ~(x <= ts + Lookahead)
      BY <2>2 DEF LateBets
    <3> QED BY <1>1, <1>4, <3>1
  <2> QED BY <1>1, <2>1, <2>2
<1>6. \A x \in T : x <= s \/ x >= s + Gap
  BY <1>1, <1>5
<1> QED BY <1>4, <1>6 DEF HasGap

LEMMA NeverPending ==
    ASSUME Inv, WideLookahead, NEW T \in PlayerTimes, NEW b \in DOMAIN log
    PROVE  V(b, T) # "PENDING"
<1>1. T[log[b].player] \in SUBSET Int /\ log[b].ts \in Int
  BY DEF Inv, TypeOK, IsTable, PlayerTimes
<1>2. HasGap(T[log[b].player], log[b].ts) \/ LateBets(T[log[b].player], log[b].ts) # {}
  BY <1>1, GapOrReturn
<1> QED BY <1>2 DEF V, Verdict

\* No row of the table R is PENDING.
NonePending(R) == \A b \in DOMAIN R : R[b].verdict # "PENDING"

LEMMA UpdatedNotPending ==
    ASSUME NEW old, NEW new, NonePending(old), NonePending(new)
    PROVE  NonePending(Updated(old, new))
<1>1. /\ DOMAIN Updated(old, new) = DOMAIN old \cup DOMAIN new
      /\ \A b \in DOMAIN new : Updated(old, new)[b] = new[b]
      /\ \A b \in DOMAIN old \ DOMAIN new : Updated(old, new)[b] = old[b]
  BY UpdatedTable
<1>2. \A b \in DOMAIN old \cup DOMAIN new : Updated(old, new)[b].verdict # "PENDING"
  BY <1>1 DEF NonePending
<1> QED BY <1>1, <1>2 DEF NonePending

LEMMA JudgedNotPending ==
    ASSUME Inv, WideLookahead, NonePending(existing),
           NEW S \in SUBSET pending, NEW T \in PlayerTimes
    PROVE  NonePending(Applied(existing, S, T))
<1>1. /\ DOMAIN Applied(existing, S, T) = DOMAIN existing \cup Judged(S, T)
      /\ \A b \in Judged(S, T) : Applied(existing, S, T)[b] = StoredRow(existing, b, V(b, T))
      /\ \A b \in DOMAIN existing \ Judged(S, T) : Applied(existing, S, T)[b] = existing[b]
  BY AppliedTable
<1>2. ASSUME NEW b \in Judged(S, T) PROVE StoredRow(existing, b, V(b, T)).verdict # "PENDING"
  <2>1. b \in DOMAIN log /\ Decided(V(b, T))
    BY DEF Judged, Inv, TypeOK
  <2>2. V(b, T) # "PENDING"
    BY <2>1, NeverPending
  <2>3. PICK v \in {"MATCH", "MISS"} : v = V(b, T)
    BY <2>1, <2>2 DEF Decided
  <2>4. \/ b \in DOMAIN existing /\ StoredRow(existing, b, v) = existing[b]
        \/ StoredRow(existing, b, v) = Row("MISS")
        \/ StoredRow(existing, b, v) = Row(v)
    BY Stored
  <2>5. Row("MISS").verdict = "MISS" /\ Row(v).verdict = v
    BY DEF Row
  <2> QED BY <2>3, <2>4, <2>5 DEF NonePending
<1> QED BY <1>1, <1>2 DEF NonePending

LEMMA StepNotPending ==
    ASSUME Inv, WideLookahead, NonePending(existing), NonePending(results), [Next]_vars
    PROVE  NonePending(existing)' /\ NonePending(results)'
<1>1. betCache \in PlayerTimes
  BY DEF Inv, TypeOK
<1>2. NonePending(Empty)
  BY DEF NonePending, Empty
<1>3. CASE UNCHANGED <<results, existing>>
  BY <1>3 DEF NonePending
<1>4. ASSUME NEW readFails, Begin(readFails)
      PROVE  NonePending(existing)' /\ NonePending(results)'
  <2>1. NonePending(results')
    BY <1>4 DEF Begin, NonePending
  <2>2. existing' = existing \/ existing' = Empty \/ existing' = results'
    BY <1>4 DEF Begin, cycle
  <2> QED BY <1>2, <2>1, <2>2 DEF NonePending
<1>5. ASSUME NEW S \in SUBSET pending, NEW inTime, Judge(S, inTime)
      PROVE  NonePending(existing)' /\ NonePending(results)'
  <2>1. existing' = Applied(existing, S, betCache) /\ results' = results
    BY <1>5 DEF Judge, database
  <2>2. NonePending(Applied(existing, S, betCache))
    BY <1>1, JudgedNotPending
  <2> QED BY <2>1, <2>2 DEF NonePending
<1>6. ASSUME NEW slice \in SUBSET noBet, NEW S \in SUBSET slice, NEW answered, NEW found,
             Retry(slice, S, answered, found)
      PROVE  NonePending(existing)' /\ NonePending(results)'
  <2>1. existing' = Applied(existing, S, betCache') /\ results' = results
    BY <1>6 DEF Retry, database
  <2>2. betCache' \in PlayerTimes /\ S \in SUBSET pending
    <3>1. slice \in SUBSET pending
      BY DEF Inv, TypeOK
    <3>2. betCache' = [p \in Players |-> betCache[p] \cup InWindow(slice, p, answered)
                                                  \cup OwnBets(slice, p, found)]
      BY <1>6 DEF Retry
    <3> QED BY <3>1, <3>2, RetryCaches
  <2>3. NonePending(Applied(existing, S, betCache'))
    BY <2>2, JudgedNotPending
  <2> QED BY <2>1, <2>3 DEF NonePending
<1>7. CASE Settle
  <2> DEFINE new == [b \in Waiting |-> Row(V(b, betCache))]
  <2>1. existing' = Updated(existing, new) /\ results' = results
    BY <1>7 DEF Settle, database
  <2>2. NonePending(new)
    BY DEF Waiting, Row, NonePending
  <2> HIDE DEF new
  <2>3. NonePending(Updated(existing, new))
    BY <2>2, UpdatedNotPending
  <2> QED BY <2>1, <2>3 DEF NonePending
<1>8. CASE Save
  <2>1. existing' = existing /\ results' = Updated(results, existing)
    BY <1>8 DEF Save, cycle
  <2>2. NonePending(Updated(results, existing))
    BY UpdatedNotPending
  <2> QED BY <2>1, <2>2 DEF NonePending
<1>9. CASE Mark \/ Raise \/ Crash
  <2>1. existing' = Empty /\ results' = results
    BY <1>9 DEF Mark, Raise, Crash, CycleOver, database
  <2> QED BY <1>2, <2>1 DEF NonePending
<1>10. ASSUME NEW answered, Fetch(answered) PROVE UNCHANGED <<results, existing>>
  BY <1>10 DEF Fetch, database
<1>11. World => UNCHANGED <<results, existing>>
  BY DEF World, Tick, Arrive, Drift, LogPrediction, database, cycle
<1>12. UNCHANGED vars => UNCHANGED <<results, existing>>
  BY DEF vars, database, cycle
<1>13. CASE Phase
  <2>1. \A slice \in Oldest(noBet, RetryLimit) : slice \in SUBSET noBet
    BY OldestOf
  <2> QED BY <1>3, <1>4, <1>5, <1>6, <1>7, <1>8, <1>9, <1>10, <1>13, <2>1 DEF Phase
<1>14. CASE Faults
  <2>1. \A S, n : \A R \in Oldest(S, n) : R \in SUBSET S
    BY OldestOf
  <2> QED BY <1>3, <1>4, <1>5, <1>6, <1>9, <1>10, <1>14, <2>1 DEF Faults
<1> QED BY <1>3, <1>11, <1>12, <1>13, <1>14 DEF Next

\* With the configured look-ahead no verdict of the phase is PENDING: the pass over the
\* stored PENDING rows has nothing to judge, whatever is late, fails or dies.
THEOREM NoPendingVerdict == ASSUME WideLookahead PROVE Spec => []NonePending(results)
<1>1. Init => NonePending(existing) /\ NonePending(results)
  BY DEF Init, Empty, NonePending
<1>2. Inv /\ NonePending(existing) /\ NonePending(results) /\ [Next]_vars
        => (NonePending(existing) /\ NonePending(results))'
  BY StepNotPending
<1> QED BY <1>1, <1>2, Invariance, PTL DEF Spec
===============================================================================
