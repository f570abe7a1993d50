-------------------------- MODULE ValidatorProofs --------------------------
(***************************************************************************)
(* Proofs about Validator for every value of its constants: types, what a  *)
(* saved MISS and a saved MATCH rest on, the marks behind the results, and *)
(* the refinement of VerdictBook.  Each theorem names the environment it   *)
(* assumes: reads of state.db that do not fail, bets that keep their       *)
(* player.                                                                 *)
(***************************************************************************)
EXTENDS Validator, FiniteSetTheorems, TLAPS

-----------------------------------------------------------------------------
(* Tables and verdicts.                                                    *)

LEMMA UpdatedTable ==
    ASSUME NEW R, NEW f, NEW g, IsTable(f, R), IsTable(g, R)
    PROVE  IsTable(Updated(f, g), R)
  BY DEF IsTable, Updated

LEMMA UpdatedRows ==
    ASSUME NEW f, NEW g
    PROVE  /\ DOMAIN Updated(f, g) = DOMAIN f \cup DOMAIN g
           /\ \A b \in DOMAIN g : Updated(f, g)[b] = g[b]
           /\ \A b \in DOMAIN f \ DOMAIN g : Updated(f, g)[b] = f[b]
  BY DEF Updated

\* What a verdict says about the payouts it was made from.
LEMMA VerdictMeaning ==
    ASSUME NEW b, NEW T
    PROVE  /\ Verdict(b, T) = "MATCH" => ~Contradicted(T, alerts[b].ts)
           /\ Verdict(b, T) = "MISS" => Contradicted(T, alerts[b].ts)
           /\ Verdict(b, T) = "PENDING" => ~FinalizeOnHorizon
  BY DEF Verdict

\* The row of a judged alert is the one it had, the verdict, or a final MISS.
LEMMA StoredRowCases ==
    ASSUME NEW old, NEW b, NEW v, v \in {"MATCH", "MISS", "PENDING"}
    PROVE  \/ b \in DOMAIN old /\ StoredRow(old, b, v) = old[b]
           \/ StoredRow(old, b, v) = [verdict |-> v, asof |-> fetchedAt]
           \/ v # "MATCH" /\ StoredRow(old, b, v) = [verdict |-> "MISS", asof |-> fetchedAt]
  BY DEF StoredRow

LEMMA AppliedTable ==
    ASSUME NEW old, IsTable(old, Rows), NEW S \in SUBSET Bets, NEW T, fetchedAt \in Int
    PROVE  /\ IsTable(Applied(old, S, T), Rows)
           /\ DOMAIN Applied(old, S, T) = DOMAIN old \cup Judged(S, T)
<1>. DEFINE new == [b \in Judged(S, T) |-> StoredRow(old, b, V(b, T))]
<1>1. ASSUME NEW b \in Judged(S, T)  PROVE StoredRow(old, b, V(b, T)) \in Rows
  <2>1. V(b, T) \in {"MATCH", "MISS", "PENDING"}
    BY DEF Judged, Decided
  <2>. QED
    BY <2>1, StoredRowCases DEF Rows, IsTable
<1>2. /\ Judged(S, T) \subseteq Bets
      /\ new \in [Judged(S, T) -> Rows]
  BY <1>1 DEF Judged
<1>3. DOMAIN new = Judged(S, T)
  OBVIOUS
<1>. HIDE DEF new
<1>4. Applied(old, S, T) = Updated(old, new)
  BY DEF Applied, new
<1>5. IsTable(new, Rows)
  BY <1>2, <1>3 DEF IsTable
<1>6. IsTable(Updated(old, new), Rows)
  BY <1>5, UpdatedTable
<1>7. DOMAIN Updated(old, new) = DOMAIN old \cup DOMAIN new
  BY UpdatedRows
<1>. QED
  BY <1>3, <1>4, <1>6, <1>7

\* The rows that are judged anew outright.
LEMMA FreshTable ==
    ASSUME NEW S \in SUBSET Bets, NEW T, fetchedAt \in Int
    PROVE  IsTable([b \in Judged(S, T) |-> Fresh(b, T)], Rows)
  BY DEF IsTable, Judged, Decided, Fresh, Rows

LEMMA SettledTable ==
    ASSUME TypeOK
    PROVE  /\ IsTable(Settled, Rows)
           /\ DOMAIN Settled \subseteq DOMAIN existing \cup marked
<1>. DEFINE gone == [b \in Judged(marked \ DOMAIN existing, betCache) |-> Fresh(b, betCache)]
            again == [b \in Waiting |-> Fresh(b, betCache)]
<1>0. /\ IsTable(existing, Rows) /\ fetchedAt \in Int
      /\ marked \subseteq Bets
  BY DEF TypeOK, IsTable
<1>1. IsTable(gone, Rows) /\ DOMAIN gone \subseteq marked
  BY <1>0, FreshTable DEF Judged
<1>. HIDE DEF gone
<1>2. IsTable(Refilled, Rows) /\ DOMAIN Refilled = DOMAIN existing \cup DOMAIN gone
  <2>1. Refilled = Updated(existing, gone)
    BY DEF Refilled, gone
  <2>. QED
    BY <1>0, <1>1, <2>1, UpdatedTable, UpdatedRows
<1>3. Waiting = Judged(Waiting, betCache) /\ Waiting \subseteq DOMAIN Refilled
  BY DEF Waiting, Judged, Decided
<1>4. Waiting \subseteq Bets
  BY <1>2, <1>3 DEF IsTable
<1>5. IsTable([b \in Judged(Waiting, betCache) |-> Fresh(b, betCache)], Rows)
  BY <1>0, <1>4, FreshTable
<1>6. IsTable(again, Rows) /\ DOMAIN again = Waiting
  BY <1>3, <1>5
<1>. HIDE DEF again
<1>7. IsTable(Settled, Rows) /\ DOMAIN Settled = DOMAIN Refilled \cup DOMAIN again
  <2>1. Settled = Updated(Refilled, again)
    BY DEF Settled, again
  <2>. QED
    BY <1>2, <1>6, <2>1, UpdatedTable, UpdatedRows
<1>. QED
  BY <1>1, <1>2, <1>3, <1>6, <1>7

-----------------------------------------------------------------------------
(* Types.                                                                  *)

\* The control of a cycle: the retry has rows, and what will be marked is in
\* the rows, with a verdict, and then in the table.
Control ==
    /\ pc = "retry" => noBet # {}
    /\ pc \in {"idle", "fetch", "judge"} => noBet = {} /\ done = {}
    /\ processed \subseteq DOMAIN results
    /\ \A b \in done : existing[b].verdict # "PENDING"
    /\ pc = "mark" => \A b \in DOMAIN existing :
                          b \in DOMAIN results /\ results[b] = existing[b]

TypeInv == TypeOK /\ Control

LEMMA TypeInit == Init => TypeInv
  BY EnvironmentAssumption
     DEF Init, TypeInv, TypeOK, Control, IsTable, Empty, Rows, PlayerTimes

\* A finished alert, and one that had a verdict already, has one afterwards.
LEMMA FinishedRow ==
    ASSUME NEW old, NEW S, NEW T, NEW b,
           \/ b \in Finished(S, T)
           \/ b \in DOMAIN old /\ old[b].verdict # "PENDING"
    PROVE  b \in DOMAIN Applied(old, S, T) /\ Applied(old, S, T)[b].verdict # "PENDING"
<1>. DEFINE new == [c \in Judged(S, T) |-> StoredRow(old, c, V(c, T))]
<1>1. /\ DOMAIN Applied(old, S, T) = DOMAIN old \cup Judged(S, T)
      /\ \A c \in Judged(S, T) : Applied(old, S, T)[c] = StoredRow(old, c, V(c, T))
      /\ \A c \in DOMAIN old \ Judged(S, T) : Applied(old, S, T)[c] = old[c]
  BY UpdatedRows DEF Applied, Updated
<1>2. CASE b \notin Judged(S, T)
  BY <1>1, <1>2 DEF Finished
<1>3. CASE b \in Judged(S, T)
  <2>1. V(b, T) \in {"MATCH", "MISS", "PENDING"}
    BY <1>3 DEF Judged, Decided
  <2>2. \/ Final(b, V(b, T))
        \/ b \in DOMAIN old /\ old[b].verdict # "PENDING"
    BY DEF Finished
  <2>3. StoredRow(old, b, V(b, T)).verdict # "PENDING"
    BY <2>1, <2>2 DEF StoredRow, Final
  <2>. QED
    BY <1>1, <1>3, <2>3
<1>. QED
  BY <1>2, <1>3

LEMMA CycleOverTypes ==
    ASSUME CycleOver
    PROVE  /\ now' \in Int /\ fetchedAt' \in Int
           /\ marked' = {} /\ pending' = {} /\ noBet' = {} /\ done' = {}
           /\ betCache' \in PlayerTimes
           /\ IsTable(existing', Rows) /\ DOMAIN existing' = {}
           /\ pc' = "idle"
  BY DEF CycleOver, PlayerTimes, IsTable, Empty

LEMMA WorldTypes ==
    ASSUME TypeInv, World
    PROVE  TypeInv'
<1>. USE DEF TypeInv, TypeOK, Control
<1>1. CASE Tick
  BY <1>1 DEF Tick, vars, environment, database, process, cycle, IsTable
<1>2. ASSUME NEW b \in Bets, NEW p \in Players \cup {Placeholder}, Drift(b, p)
      PROVE  TypeInv'
  <2>1. IsTable(bets', [player : Players \cup {Placeholder}, ts : Int, at : Int]) /\ DOMAIN bets' = DOMAIN bets
    BY <1>2 DEF Drift, IsTable
  <2>. QED
    BY <1>2, <2>1 DEF Drift, database, process, cycle, IsTable
<1>3. ASSUME NEW b \in Bets, NEW p \in Players, NEW lag \in Lags, Arrive(b, p, lag)
      PROVE  TypeInv'
  <2>1. [player |-> p, ts |-> clock - lag, at |-> clock] \in
            [player : Players \cup {Placeholder}, ts : Int, at : Int]
    BY EnvironmentAssumption
  <2>2. /\ IsTable(bets', [player : Players \cup {Placeholder}, ts : Int, at : Int])
        /\ DOMAIN bets \subseteq DOMAIN bets'
    BY <1>3, <2>1 DEF Arrive, IsTable
  <2>. QED
    BY <1>3, <2>2 DEF Arrive, database, process, cycle, IsTable
<1>4. ASSUME NEW b \in Bets, RaiseAlert(b)  PROVE TypeInv'
  <2>1. b \in DOMAIN bets /\ bets[b] \in [player : Players, ts : Int, at : Int]
    BY <1>4 DEF RaiseAlert, Hidden, IsTable
  <2>2. [player |-> bets[b].player, ts |-> bets[b].ts] \in [player : Players, ts : Int]
    BY <2>1
  <2>3. /\ IsTable(alerts', [player : Players, ts : Int])
        /\ DOMAIN alerts' = DOMAIN alerts \cup {b}
    BY <1>4, <2>2 DEF RaiseAlert, IsTable
  <2>. QED
    BY <1>4, <2>1, <2>3 DEF RaiseAlert, database, process, cycle, IsTable
<1>. QED
  BY <1>1, <1>2, <1>3, <1>4 DEF World

LEMMA BeginTypes ==
    ASSUME TypeInv, NEW readProcessed \in SUBSET processed,
           NEW fromDb \in SUBSET DOMAIN results,
           NEW watermark \in SUBSET DOMAIN results,
           Begin(readProcessed, fromDb, watermark)
    PROVE  TypeInv'
<1>. DEFINE rows == [b \in fromDb |-> results[b]]
<1>. USE DEF TypeInv, TypeOK, Control
<1>1. IsTable(rows, Rows) /\ DOMAIN rows = fromDb
  BY DEF IsTable
<1>. HIDE DEF rows
<1>2. existing' = Updated(cache, rows)
  BY DEF Begin, Merged, rows
<1>3. IsTable(existing', Rows) /\ DOMAIN existing' = DOMAIN cache \cup fromDb
  BY <1>1, <1>2, UpdatedTable, UpdatedRows
<1>4. /\ marked' \subseteq DOMAIN alerts /\ pending' \subseteq DOMAIN alerts
      /\ now' \in Int /\ pc' = "fetch" /\ cache' = existing' /\ loaded' = watermark
      /\ UNCHANGED <<clock, bets, alerts, results, processed, resolved, rot, betCache,
                     fetchedAt, noBet, done, failures>>
  BY DEF Begin, Open, environment
<1>5. noBet = {} /\ done = {}
  BY DEF Begin
<1>. QED
  BY <1>3, <1>4, <1>5 DEF IsTable

LEMMA FetchTypes ==
    ASSUME TypeInv, Fetch
    PROVE  TypeInv'
<1>. USE DEF TypeInv, TypeOK, Control
<1>1. ASSUME NEW p \in Players  PROVE Payouts(p) \subseteq Int
  BY DEF Payouts, IsTable
<1>2. betCache' \in PlayerTimes
  BY <1>1 DEF Fetch, PlayerTimes
<1>. QED
  BY <1>2 DEF Fetch, environment, database, process, IsTable

LEMMA JudgeTypes ==
    ASSUME TypeInv, Judge
    PROVE  TypeInv'
<1>. USE DEF TypeInv, TypeOK, Control
<1>1. IsTable(Settled, Rows) /\ DOMAIN Settled \subseteq DOMAIN alerts
  BY SettledTable
<1>2. pending \in SUBSET Bets
  BY DEF IsTable
<1>3. /\ IsTable(existing', Rows)
      /\ DOMAIN existing' = DOMAIN Settled \cup Judged(pending, betCache)
  BY <1>1, <1>2, AppliedTable DEF Judge
<1>4. DOMAIN existing' \subseteq DOMAIN alerts
  BY <1>1, <1>3 DEF Judged
<1>5. \A b \in done' : b \in DOMAIN existing' /\ existing'[b].verdict # "PENDING"
  BY FinishedRow, ZenonT(40) DEF Judge
<1>6. /\ noBet' \subseteq pending
      /\ pc' \in {"save", "retry"} /\ (pc' = "retry" => noBet' # {})
  BY DEF Judge
<1>. QED
  BY <1>3, <1>4, <1>5, <1>6 DEF Judge, environment, database, process, IsTable

\* The offset stays a natural number: there are rows to retry.
LEMMA RotationTypes ==
    ASSUME NEW x \in Nat, NEW y \in Nat, NEW n \in Nat \ {0}
    PROVE  ((x % n) + y) % n \in Nat
  OBVIOUS

LEMMA SliceRows == Slice \subseteq noBet
  BY DEF Slice

\* What a retry adds to the bet cache are payout times.
LEMMA RetryCacheTypes ==
    ASSUME TypeInv, pc = "retry",
           NEW answered \in SUBSET Players, NEW betIdQuery \in BOOLEAN, NEW p \in Players
    PROVE  InWindow(p, answered) \subseteq Int /\ OwnBets(p, betIdQuery) \subseteq Int
<1>. USE DEF TypeInv, TypeOK
<1>1. Slice \subseteq DOMAIN bets
  BY SliceRows
<1>. QED
  BY <1>1 DEF InWindow, OwnBets, Payouts, IsTable

LEMMA RetryTypes ==
    ASSUME TypeInv, NEW answered \in SUBSET Players, NEW betIdQuery \in BOOLEAN,
           Retry(answered, betIdQuery)
    PROVE  TypeInv'
<1>. USE DEF TypeInv, TypeOK, Control
<1>1. pc = "retry" /\ noBet \subseteq Bets /\ Slice \in SUBSET Bets
  BY SliceRows DEF Retry, IsTable
<1>2. /\ resolved' \in PlayerTimes
      /\ betCache' \in PlayerTimes
  BY <1>1, RetryCacheTypes DEF Retry, PlayerTimes
<1>3. rot' \in Nat
  <2>1. IsFiniteSet(noBet) /\ IsFiniteSet(Slice) /\ noBet # {}
    BY <1>1, BetsAssumption, FS_Subset
  <2>2. Cardinality(noBet) \in Nat \ {0} /\ Cardinality(Slice) \in Nat
    BY <2>1, FS_CardinalityType, FS_EmptySet
  <2>. QED
    BY <2>2, RotationTypes DEF Retry, NextOffset
<1>4. /\ IsTable(existing', Rows)
      /\ DOMAIN existing' = DOMAIN existing \cup Judged(Slice, betCache')
  BY <1>1, AppliedTable DEF Retry
<1>5. DOMAIN existing' \subseteq DOMAIN alerts
  BY <1>4, SliceRows DEF Judged
<1>6. \A b \in done' : b \in DOMAIN existing' /\ existing'[b].verdict # "PENDING"
  BY FinishedRow DEF Retry
<1>7. failures' \in Nat
  BY DEF Retry
<1>. QED
  BY <1>2, <1>3, <1>4, <1>5, <1>6, <1>7 DEF Retry, environment, database, IsTable

LEMMA SaveTypes ==
    ASSUME TypeInv, Save
    PROVE  TypeInv'
<1>. USE DEF TypeInv, TypeOK, Control
<1>1. /\ IsTable(results', Rows)
      /\ DOMAIN results' = DOMAIN results \cup DOMAIN existing
      /\ \A b \in DOMAIN existing : results'[b] = existing[b]
  <2>1. results' = Updated(results, existing)
    BY DEF Save, Saved
  <2>2. IsTable(Updated(results, existing), Rows)
    BY UpdatedTable
  <2>. QED
    BY <2>1, <2>2 DEF Updated
<1>. QED
  BY <1>1 DEF Save, environment, process, cycle, IsTable

LEMMA MarkTypes ==
    ASSUME TypeInv, Mark
    PROVE  TypeInv'
<1>. USE DEF TypeInv, TypeOK, Control
<1>1. /\ processed' = processed \cup done
      /\ cache' = existing /\ DOMAIN existing \subseteq DOMAIN results
  BY DEF Mark, KeptRows
<1>. QED
  BY <1>1, CycleOverTypes DEF Mark, environment, IsTable

LEMMA FaultTypes ==
    ASSUME TypeInv, Raise \/ Crash
    PROVE  TypeInv'
<1>. USE DEF TypeInv, TypeOK, Control
<1>1. failures' \in Nat
  BY DEF Raise, Crash
<1>2. CASE Raise
  BY <1>1, <1>2, CycleOverTypes DEF Raise, environment, database, process, IsTable
<1>3. CASE Crash
  <2>1. /\ IsTable(cache', Rows) /\ DOMAIN cache' = {}
        /\ resolved' \in PlayerTimes /\ rot' = 0
    BY <1>3 DEF Crash, IsTable, Empty, PlayerTimes
  <2>. QED
    BY <1>1, <1>3, <2>1, CycleOverTypes DEF Crash, environment, database, IsTable
<1>. QED
  BY <1>2, <1>3

LEMMA ReadSets ==
    /\ \A s \in ReadMarks : s \subseteq processed
    /\ \A l \in Loads : l[1] \subseteq DOMAIN results /\ l[2] \subseteq DOMAIN results
  BY DEF ReadMarks, Loads, Unread

LEMMA TypeStep == TypeInv /\ [Next]_vars => TypeInv'
<1>. SUFFICES ASSUME TypeInv, [Next]_vars  PROVE TypeInv'
  OBVIOUS
<1>1. CASE World
  BY <1>1, WorldTypes
<1>2. CASE Cycle
  BY <1>2, ReadSets, BeginTypes, FetchTypes, JudgeTypes, RetryTypes, SaveTypes, MarkTypes
     DEF Cycle
<1>3. CASE Faults
  BY <1>3, RetryTypes, FaultTypes DEF Faults
<1>4. CASE UNCHANGED vars
  BY <1>4 DEF TypeInv, TypeOK, Control, vars, environment, database, process, cycle, IsTable
<1>. QED
  BY <1>1, <1>2, <1>3, <1>4 DEF Next

\* Type correctness in every reachable state.
THEOREM TypeCorrect == Spec => []TypeOK
<1>1. Spec => []TypeInv
  BY TypeInit, TypeStep, PTL DEF Spec
<1>2. TypeInv => TypeOK
  BY DEF TypeInv
<1>. QED
  BY <1>1, <1>2, PTL

-----------------------------------------------------------------------------
(* Closed alerts, when reads of state.db do not fail.                      *)

\* The rows of the processed alerts are final in the table, in the cache as far
\* as it has them, and in every cycle, which has all of them; nothing pending is
\* processed.
Kept ==
    /\ cache # Empty => loaded \subseteq DOMAIN cache
    /\ \A b \in processed \cap DOMAIN cache : cache[b] = results[b]
    /\ \A b \in processed : results[b].verdict # "PENDING"
    /\ pc # "idle" => /\ loaded \subseteq DOMAIN existing
                      /\ \A b \in processed : b \in DOMAIN existing /\ existing[b] = results[b]
    /\ marked \subseteq processed
    /\ pending \cap processed = {}

KeptInv == TypeInv /\ Kept

LEMMA KeptInit == Init => Kept
  BY DEF Init, Kept, Empty

\* A cycle's judgements leave a row alone that is not among the judged ones.
LEMMA AppliedElsewhere ==
    ASSUME NEW old, NEW S, NEW T, NEW b \in DOMAIN old, b \notin S
    PROVE  b \in DOMAIN Applied(old, S, T) /\ Applied(old, S, T)[b] = old[b]
  BY UpdatedRows DEF Applied, Updated, Judged

LEMMA AppliedGrows ==
    ASSUME NEW old, NEW S, NEW T
    PROVE  DOMAIN old \subseteq DOMAIN Applied(old, S, T)
  BY DEF Applied, Updated

LEMMA SettledElsewhere ==
    ASSUME NEW b \in DOMAIN existing, existing[b].verdict # "PENDING"
    PROVE  b \in DOMAIN Settled /\ Settled[b] = existing[b]
<1>1. b \in DOMAIN Refilled /\ Refilled[b] = existing[b]
  BY DEF Refilled, Updated, Judged
<1>2. b \notin Waiting
  BY <1>1 DEF Waiting
<1>. QED
  BY <1>1, <1>2 DEF Settled, Updated

LEMMA KeptBegin ==
    ASSUME KeptInv, ~ReadMayFail, Begin(processed, Unread, DOMAIN results)
    PROVE  Kept'
<1>. USE DEF KeptInv, TypeInv, TypeOK, Control, Kept
<1>. DEFINE rows == [b \in Unread |-> results[b]]
<1>1. existing' = Updated(cache, rows)
  BY DEF Begin, Merged
<1>2. /\ DOMAIN existing' = DOMAIN cache \cup Unread
      /\ \A b \in Unread : existing'[b] = results[b]
      /\ \A b \in DOMAIN cache \ Unread : existing'[b] = cache[b]
  BY <1>1 DEF Updated
<1>3. DOMAIN results \subseteq DOMAIN existing'
  BY <1>2 DEF Unread
<1>4. \A b \in processed : b \in DOMAIN existing' /\ existing'[b] = results[b]
  BY <1>2, <1>3
<1>5. /\ cache' = existing' /\ loaded' = DOMAIN results
      /\ marked' \subseteq processed /\ pending' \cap processed = {}
      /\ UNCHANGED <<results, processed>>
  BY DEF Begin, Open
<1>. QED
  BY <1>3, <1>4, <1>5

LEMMA KeptJudge ==
    ASSUME KeptInv, Judge
    PROVE  Kept'
<1>. USE DEF KeptInv, TypeInv, TypeOK, Control, Kept
<1>1. pc # "idle"
  BY DEF Judge
<1>2. ASSUME NEW b \in processed
      PROVE  b \in DOMAIN existing' /\ existing'[b] = results[b]
  <2>1. b \in DOMAIN existing /\ existing[b] = results[b] /\ existing[b].verdict # "PENDING"
    BY <1>1
  <2>2. b \in DOMAIN Settled /\ Settled[b] = existing[b] /\ b \notin pending
    BY <2>1, SettledElsewhere
  <2>3. existing' = Applied(Settled, pending, betCache)
    BY DEF Judge
  <2>. QED
    BY <2>1, <2>2, <2>3, AppliedElsewhere
<1>3. DOMAIN existing \subseteq DOMAIN existing'
  <2>1. DOMAIN existing \subseteq DOMAIN Refilled /\ DOMAIN Refilled \subseteq DOMAIN Settled
    BY DEF Settled, Refilled, Updated
  <2>2. existing' = Applied(Settled, pending, betCache)
    BY DEF Judge
  <2>3. DOMAIN Settled \subseteq DOMAIN Applied(Settled, pending, betCache)
    BY AppliedGrows
  <2>. QED
    BY <2>1, <2>2, <2>3
<1>. QED
  BY <1>1, <1>2, <1>3 DEF Judge, database, process

LEMMA KeptRetry ==
    ASSUME KeptInv, NEW answered, NEW betIdQuery, Retry(answered, betIdQuery)
    PROVE  Kept'
<1>. USE DEF KeptInv, TypeInv, TypeOK, Control, Kept
<1>1. pc # "idle"
  BY DEF Retry
<1>2. existing' = Applied(existing, Slice, betCache')
  BY DEF Retry
<1>3. ASSUME NEW b \in processed
      PROVE  b \in DOMAIN existing' /\ existing'[b] = results[b]
  <2>1. b \in DOMAIN existing /\ existing[b] = results[b] /\ b \notin Slice
    BY <1>1, SliceRows
  <2>. QED
    BY <1>2, <2>1, AppliedElsewhere
<1>4. DOMAIN existing \subseteq DOMAIN existing'
  BY <1>2, AppliedGrows
<1>. QED
  BY <1>1, <1>3, <1>4 DEF Retry, database

LEMMA KeptSave ==
    ASSUME KeptInv, Save
    PROVE  Kept'
<1>. USE DEF KeptInv, TypeInv, TypeOK, Control, Kept
<1>1. /\ DOMAIN results' = DOMAIN results \cup DOMAIN existing
      /\ \A b \in DOMAIN existing : results'[b] = existing[b]
      /\ \A b \in DOMAIN results \ DOMAIN existing : results'[b] = results[b]
  BY DEF Save, Saved, Updated
<1>2. \A b \in processed : results'[b] = results[b]
  BY <1>1 DEF Save
<1>. QED
  BY <1>1, <1>2 DEF Save, process, cycle

LEMMA KeptMark ==
    ASSUME KeptInv, Mark
    PROVE  Kept'
<1>. USE DEF KeptInv, TypeInv, TypeOK, Control, Kept
<1>1. /\ cache' = existing /\ processed' = processed \cup done
      /\ \A b \in DOMAIN existing : existing[b] = results[b]
  BY DEF Mark, KeptRows
<1>. QED
  BY <1>1, CycleOverTypes DEF Mark

LEMMA KeptOther ==
    ASSUME KeptInv, World \/ Fetch \/ Raise \/ Crash \/ UNCHANGED vars
    PROVE  Kept'
<1>. USE DEF KeptInv, Kept
<1>1. CASE World
  <2>1. UNCHANGED <<database, process, pc, cycle>>
    BY <1>1 DEF World, Tick, Drift, Arrive, RaiseAlert
  <2>. QED
    BY <2>1 DEF database, process, cycle
<1>2. CASE Fetch
  BY <1>2 DEF Fetch, database, process
<1>3. CASE Raise
  BY <1>3, CycleOverTypes DEF Raise, database, process
<1>4. CASE Crash
  BY <1>4, CycleOverTypes DEF Crash, database, Empty
<1>5. CASE UNCHANGED vars
  BY <1>5 DEF vars, database, process, cycle
<1>. QED
  BY <1>1, <1>2, <1>3, <1>4, <1>5

LEMMA KeptStep == ASSUME ~ReadMayFail PROVE KeptInv /\ [Next]_vars => KeptInv'
<1>. SUFFICES ASSUME KeptInv, [Next]_vars  PROVE Kept'
  BY TypeStep DEF KeptInv
<1>1. ASSUME NEW r \in ReadMarks, NEW l \in Loads, Begin(r, l[1], l[2])
      PROVE  Kept'
  <2>1. r = processed /\ l[1] = Unread /\ l[2] = DOMAIN results
    BY DEF ReadMarks, Loads
  <2>. QED
    BY <1>1, <2>1, KeptBegin
<1>2. CASE Cycle
  BY <1>1, <1>2, KeptOther, KeptJudge, KeptRetry, KeptSave, KeptMark DEF Cycle
<1>3. CASE Faults
  BY <1>3, KeptRetry, KeptOther DEF Faults
<1>. QED
  BY <1>2, <1>3, KeptOther DEF Next

LEMMA KeptAlways == ASSUME ~ReadMayFail PROVE Spec => []KeptInv
<1>1. Init => KeptInv
  BY TypeInit, KeptInit DEF KeptInv
<1>2. KeptInv /\ [Next]_vars => KeptInv'
  BY KeptStep
<1>. QED
  BY <1>1, <1>2, PTL DEF Spec

-----------------------------------------------------------------------------
(* The refinement of VerdictBook.                                          *)

LEMMA BookInit == Init => Book!Init
  BY DEF Init, Book!Init, Empty

\* A step that leaves the results and the marks alone is a stutter.
LEMMA BookStutter ==
    ASSUME UNCHANGED <<results, processed>>
    PROVE  UNCHANGED <<[b \in DOMAIN results |-> results[b].verdict], processed>>
  OBVIOUS

\* Save revises verdicts, never one that is closed.
LEMMA BookSave ==
    ASSUME KeptInv, Save
    PROVE  Book!Revise
<1>. DEFINE old == [b \in DOMAIN results |-> results[b].verdict]
            new == [b \in DOMAIN results' |-> results'[b].verdict]
<1>1. TypeInv' /\ KeptInv
  BY SaveTypes DEF KeptInv
<1>2. IsTable(results', Rows)
  BY <1>1 DEF TypeInv, TypeOK
<1>3. DOMAIN results' \in SUBSET Bets /\ new \in [DOMAIN results' -> Book!Verdicts]
  BY <1>2 DEF IsTable, Rows, Book!Verdicts
<1>4. DOMAIN results \subseteq DOMAIN results'
  BY DEF Save, Saved, Updated
<1>5. ASSUME NEW b \in processed
      PROVE  b \in DOMAIN results /\ results'[b] = results[b]
  BY DEF KeptInv, TypeInv, Control, Kept, Save, Saved, Updated
<1>6. UNCHANGED processed
  BY DEF Save
<1>. QED
  BY <1>3, <1>4, <1>5, <1>6 DEF Book!Revise

\* Mark closes alerts that have a verdict in the table.
LEMMA BookMark ==
    ASSUME KeptInv, Mark
    PROVE  Book!Close
<1>. USE DEF KeptInv, TypeInv, TypeOK, Control, Kept
<1>1. processed' = processed \cup done /\ UNCHANGED results
  BY DEF Mark
<1>2. \A b \in processed' : b \in DOMAIN results /\ results[b].verdict # "PENDING"
  BY <1>1 DEF Mark
<1>. QED
  BY <1>1, <1>2 DEF Book!Close

LEMMA BookStep ==
    ASSUME KeptInv, [Next]_vars
    PROVE  [Book!Revise \/ Book!Close]_<<[b \in DOMAIN results |-> results[b].verdict],
                                         processed>>
<1>1. CASE Save
  BY <1>1, BookSave
<1>2. CASE Mark
  BY <1>2, BookMark
<1>3. CASE UNCHANGED <<results, processed>>
  BY <1>3, BookStutter
<1>4. CASE World
  <2>1. UNCHANGED database
    BY <1>4 DEF World, Tick, Drift, Arrive, RaiseAlert
  <2>. QED
    BY <1>3, <2>1 DEF database
<1>5. CASE Cycle
  BY <1>1, <1>2, <1>3, <1>5 DEF Cycle, Begin, Fetch, Judge, Retry, database
<1>6. CASE Faults
  BY <1>3, <1>6 DEF Faults, Retry, Raise, Crash, database
<1>. QED
  BY <1>3, <1>4, <1>5, <1>6 DEF Next, vars, database

\* The validator implements VerdictBook: a verdict an alert was closed on stays.
THEOREM BookImplemented == ASSUME ~ReadMayFail PROVE Spec => ImplementsBook
<1>1. Spec => []KeptInv
  BY KeptAlways
<1>2. KeptInv /\ [Next]_vars =>
          [Book!Revise \/ Book!Close]_<<[b \in DOMAIN results |-> results[b].verdict],
                                        processed>>
  BY BookStep
<1>. QED
  BY <1>1, <1>2, BookInit, PTL DEF Spec, ImplementsBook, Book!Spec

-----------------------------------------------------------------------------
(* What the saved verdicts rest on, with VALIDATOR_FINALIZE_ON_HORIZON set. *)

\* A row of alert b: decided, from the past, and with the evidence the verdict
\* needs.
RowOk(b, r) ==
    /\ r.verdict # "PENDING"
    /\ r.asof <= clock
    /\ ~PlayerMayDrift /\ r.verdict = "MISS" => Returns(b) # {}
    /\ ~PlayerMayDrift /\ ~ReadMayFail /\ r.verdict = "MATCH"
           /\ r.asof - MaxLookback <= alerts[b].ts + Horizon
       => \A c \in Returns(b) : bets[c].at >= r.asof

RowsOk(t) == \A b \in DOMAIN t : RowOk(b, t[b])

\* The alerts and the bets in memory are the warehouse's.
Recorded ==
    ~PlayerMayDrift =>
        /\ \A b \in DOMAIN alerts : /\ bets[b].ts = alerts[b].ts
                                    /\ bets[b].player = alerts[b].player
        /\ \A p \in Players : betCache[p] \subseteq Payouts(p) /\ resolved[p] \subseteq Payouts(p)

\* While rows are judged, the bet cache has every bet of the fetch window that
\* had arrived before the fetch, and every pending alert is past its look-ahead.
Fetched ==
    /\ pc \in {"fetch", "judge", "retry"} =>
           now <= clock /\ \A b \in pending : alerts[b].ts <= now - Wait
    /\ pc \in {"judge", "retry"} =>
           /\ now <= fetchedAt
           /\ ~PlayerMayDrift =>
                  \A p \in Players, c \in DOMAIN bets :
                      bets[c].player = p /\ bets[c].at < fetchedAt /\ FetchWindow(bets[c].ts)
                          => bets[c].ts \in betCache[p]

Evidence ==
    /\ 0 <= clock /\ fetchedAt <= clock
    /\ RowsOk(results) /\ RowsOk(cache) /\ RowsOk(existing)
    /\ Recorded
    /\ Fetched

EvidenceInv == TypeInv /\ (~ReadMayFail => Kept) /\ Evidence

LEMMA EvidenceInit == Init => Evidence
  BY DEF Init, Evidence, RowsOk, Recorded, Fetched, Empty

LEMMA Policy ==
    /\ Horizon \in Nat /\ Lookahead \in Nat /\ Wait \in Nat /\ PreContext \in Nat
    /\ MaxLookback \in Nat /\ Lookahead <= Wait
  BY PolicyAssumption, WindowAssumption DEF Wait

\* A verdict from a bet cache T that has what was fetched, and nothing that is
\* not in the warehouse, has its evidence.
LEMMA FreshOk ==
    ASSUME EvidenceInv, FinalizeOnHorizon, pc \in {"judge", "retry"}, NEW T,
           \A p \in Players : betCache[p] \subseteq T[p],
           ~PlayerMayDrift => \A p \in Players : T[p] \subseteq Payouts(p),
           NEW b \in DOMAIN alerts, Decided(V(b, T)), ~ReadMayFail => b \in pending
    PROVE  RowOk(b, Fresh(b, T))
<1>. USE DEF EvidenceInv, Evidence, TypeInv, TypeOK
<1>. DEFINE ts == alerts[b].ts  p == alerts[b].player
<1>1. ts \in Int /\ p \in Players
  BY DEF IsTable
<1>2. /\ V(b, T) = "MATCH" => ~Contradicted(T[p], ts)
      /\ V(b, T) = "MISS" => Contradicted(T[p], ts)
      /\ V(b, T) # "PENDING"
  BY VerdictMeaning DEF V
<1>3. ASSUME ~PlayerMayDrift, V(b, T) = "MISS"  PROVE Returns(b) # {}
  <2>1. PICK x \in T[p] : ts + Horizon < x /\ x <= ts + Lookahead
    BY <1>2, <1>3 DEF Contradicted, LateBets
  <2>2. PICK c \in DOMAIN bets : bets[c].player = p /\ bets[c].ts = x
    BY <1>1, <1>3, <2>1 DEF Payouts
  <2>. QED
    BY <2>1, <2>2 DEF Returns
<1>4. ASSUME ~PlayerMayDrift, ~ReadMayFail, V(b, T) = "MATCH",
             fetchedAt - MaxLookback <= ts + Horizon,
             NEW c \in Returns(b)
      PROVE  bets[c].at >= fetchedAt
  <2>1. SUFFICES ASSUME bets[c].at < fetchedAt  PROVE FALSE
    BY DEF Returns, IsTable
  <2>2. /\ c \in DOMAIN bets /\ bets[c].player = p
        /\ bets[c].ts \in Int /\ ts + Horizon < bets[c].ts /\ bets[c].ts <= ts + Lookahead
    BY DEF Returns, IsTable
  <2>3. b \in pending /\ ts <= now - Wait /\ now <= fetchedAt
    BY <1>4 DEF Fetched
  <2>4. FetchWindow(bets[c].ts)
    BY <1>1, <1>4, <2>2, <2>3, Policy DEF FetchWindow
  <2>5. bets[c].ts \in T[p]
    BY <1>1, <1>4, <2>1, <2>2, <2>4 DEF Fetched
  <2>. QED
    BY <1>2, <1>4, <2>2, <2>5 DEF Contradicted, LateBets
<1>5. Fresh(b, T).verdict = V(b, T) /\ Fresh(b, T).asof = fetchedAt
  BY DEF Fresh
<1>. HIDE DEF ts, p
<1>. QED
  BY <1>2, <1>3, <1>4, <1>5 DEF RowOk, ts

\* With the horizon final, a stored row is the one there was or the fresh one.
LEMMA StoredFresh ==
    ASSUME FinalizeOnHorizon, NEW old, NEW b, NEW T, Decided(V(b, T)),
           b \in DOMAIN old => old[b].verdict # "PENDING"
    PROVE  \/ b \in DOMAIN old /\ StoredRow(old, b, V(b, T)) = old[b]
           \/ StoredRow(old, b, V(b, T)) = Fresh(b, T)
<1>1. V(b, T) \in {"MATCH", "MISS"}
  BY VerdictMeaning DEF V, Decided
<1>. QED
  BY <1>1 DEF StoredRow, Fresh

\* Applying verdicts keeps a table of rows with evidence that way.
LEMMA AppliedOk ==
    ASSUME EvidenceInv, FinalizeOnHorizon, pc \in {"judge", "retry"}, NEW T,
           \A p \in Players : betCache[p] \subseteq T[p],
           ~PlayerMayDrift => \A p \in Players : T[p] \subseteq Payouts(p),
           NEW old, RowsOk(old), NEW S \in SUBSET pending
    PROVE  RowsOk(Applied(old, S, T))
<1>. SUFFICES ASSUME NEW b \in DOMAIN Applied(old, S, T)
              PROVE  RowOk(b, Applied(old, S, T)[b])
  BY DEF RowsOk
<1>1. CASE b \notin Judged(S, T)
  <2>1. b \in DOMAIN old /\ Applied(old, S, T)[b] = old[b]
    BY <1>1 DEF Applied, Updated
  <2>. QED
    BY <2>1 DEF RowsOk
<1>2. CASE b \in Judged(S, T)
  <2>1. Applied(old, S, T)[b] = StoredRow(old, b, V(b, T))
    BY <1>2 DEF Applied, Updated
  <2>2. Decided(V(b, T)) /\ b \in pending /\ b \in DOMAIN alerts
    BY <1>2 DEF Judged, EvidenceInv, TypeInv, TypeOK
  <2>3. RowOk(b, Fresh(b, T))
    BY <2>2, FreshOk
  <2>4. b \in DOMAIN old => old[b].verdict # "PENDING" /\ RowOk(b, old[b])
    BY DEF RowsOk, RowOk
  <2>. QED
    BY <2>1, <2>2, <2>3, <2>4, StoredFresh
<1>. QED
  BY <1>1, <1>2

LEMMA SettledOk ==
    ASSUME EvidenceInv, FinalizeOnHorizon, pc = "judge"
    PROVE  RowsOk(Settled)
<1>. DEFINE gone == Judged(marked \ DOMAIN existing, betCache)
<1>1. ASSUME ~ReadMayFail  PROVE gone = {}
  BY <1>1 DEF EvidenceInv, Kept, Judged
<1>2. ASSUME NEW b \in gone  PROVE RowOk(b, Fresh(b, betCache))
  <2>1. b \in DOMAIN alerts /\ Decided(V(b, betCache)) /\ (~ReadMayFail => b \in pending)
    BY <1>1, <1>2 DEF Judged, EvidenceInv, TypeInv, TypeOK
  <2>2. ~PlayerMayDrift => \A p \in Players : betCache[p] \subseteq Payouts(p)
    BY DEF EvidenceInv, Evidence, Recorded
  <2>. QED
    BY <2>1, <2>2, FreshOk
<1>3. RowsOk(Refilled)
  <2>. SUFFICES ASSUME NEW b \in DOMAIN Refilled  PROVE RowOk(b, Refilled[b])
    BY DEF RowsOk
  <2>1. CASE b \in gone
    BY <1>2, <2>1 DEF Refilled, Updated
  <2>2. CASE b \notin gone
    BY <2>2 DEF Refilled, Updated, EvidenceInv, Evidence, RowsOk
  <2>. QED
    BY <2>1, <2>2
<1>4. Waiting = {}
  BY <1>3 DEF RowsOk, RowOk, Waiting
<1>. QED
  BY <1>3, <1>4 DEF RowsOk, Settled, Updated

\* A step of the process leaves the clock, the warehouse and the alerts alone,
\* so a row is as good after it as before.
LEMMA RowsOkAfter ==
    ASSUME UNCHANGED environment
    PROVE  /\ (\A b \in DOMAIN existing' : RowOk(b, existing'[b])) => RowsOk(existing)'
           /\ (\A b \in DOMAIN results' : RowOk(b, results'[b])) => RowsOk(results)'
           /\ (\A b \in DOMAIN cache' : RowOk(b, cache'[b])) => RowsOk(cache)'
<1>1. clock' = clock /\ bets' = bets /\ alerts' = alerts
  BY DEF environment
<1>2. \A b : Returns(b)' = Returns(b)
  BY <1>1 DEF Returns
<1>3. ASSUME \A b \in DOMAIN existing' : RowOk(b, existing'[b])  PROVE RowsOk(existing)'
  BY <1>1, <1>2, <1>3 DEF RowsOk, RowOk
<1>4. ASSUME \A b \in DOMAIN results' : RowOk(b, results'[b])  PROVE RowsOk(results)'
  BY <1>1, <1>2, <1>4 DEF RowsOk, RowOk
<1>5. ASSUME \A b \in DOMAIN cache' : RowOk(b, cache'[b])  PROVE RowsOk(cache)'
  BY <1>1, <1>2, <1>5 DEF RowsOk, RowOk
<1>. QED
  BY <1>3, <1>4, <1>5

LEMMA EvidenceTick ==
    ASSUME EvidenceInv, Tick
    PROVE  Evidence'
<1>. USE DEF EvidenceInv, Evidence, TypeInv, TypeOK
<1>1. clock' = clock + 1 /\ UNCHANGED <<bets, alerts, database, process, pc, cycle>>
  BY DEF Tick
<1>2. ASSUME NEW b, NEW r \in Rows, RowOk(b, r)
      PROVE  /\ r.asof <= clock'
             /\ ~PlayerMayDrift /\ r.verdict = "MISS" => Returns(b)' # {}
             /\ ~PlayerMayDrift /\ ~ReadMayFail /\ r.verdict = "MATCH"
                    /\ r.asof - MaxLookback <= alerts'[b].ts + Horizon
                => \A c \in Returns(b)' : bets'[c].at >= r.asof
  BY <1>1, <1>2 DEF RowOk, Returns, Rows
<1>3. RowsOk(results)' /\ RowsOk(cache)' /\ RowsOk(existing)'
  BY <1>1, <1>2, ZenonT(40) DEF RowsOk, RowOk, IsTable, database, process, cycle
<1>4. Recorded' /\ Fetched'
  BY <1>1 DEF Recorded, Fetched, Payouts, FetchWindow, database, process, cycle
<1>. QED
  BY <1>1, <1>3, <1>4 DEF cycle

LEMMA EvidenceDrift ==
    ASSUME EvidenceInv, NEW b \in Bets, NEW p \in Players \cup {Placeholder}, Drift(b, p)
    PROVE  Evidence'
<1>. USE DEF EvidenceInv, Evidence
<1>1. PlayerMayDrift /\ UNCHANGED <<clock, alerts, database, process, pc, cycle>>
  BY DEF Drift
<1>2. RowsOk(results)' /\ RowsOk(cache)' /\ RowsOk(existing)'
  BY <1>1 DEF RowsOk, RowOk, database, process, cycle
<1>. QED
  BY <1>1, <1>2 DEF Recorded, Fetched, cycle

LEMMA EvidenceArrive ==
    ASSUME EvidenceInv, NEW b \in Bets, NEW p \in Players, NEW lag \in Lags,
           Arrive(b, p, lag)
    PROVE  Evidence'
<1>. USE DEF EvidenceInv, Evidence, TypeInv, TypeOK
<1>1. /\ UNCHANGED <<clock, alerts, database, process, pc, cycle>>
      /\ DOMAIN bets' = DOMAIN bets \cup {b} /\ b \notin DOMAIN bets
      /\ bets'[b].at = clock
      /\ \A c \in DOMAIN bets : bets'[c] = bets[c]
  BY DEF Arrive
<1>2. ASSUME NEW a \in DOMAIN alerts, NEW r \in Rows, RowOk(a, r)
      PROVE  /\ ~PlayerMayDrift /\ r.verdict = "MISS" => Returns(a)' # {}
             /\ ~PlayerMayDrift /\ ~ReadMayFail /\ r.verdict = "MATCH"
                    /\ r.asof - MaxLookback <= alerts'[a].ts + Horizon
                => \A c \in Returns(a)' : bets'[c].at >= r.asof
  <2>1. Returns(a) \subseteq Returns(a)' /\ Returns(a)' \subseteq Returns(a) \cup {b}
    BY <1>1 DEF Returns
  <2>2. r.asof <= clock /\ r.asof \in Int
    BY <1>2 DEF RowOk, Rows
  <2>3. \A c \in Returns(a) : c \in DOMAIN bets
    BY DEF Returns
  <2>. QED
    BY <1>1, <1>2, <2>1, <2>2, <2>3 DEF RowOk
<1>3. RowsOk(results)' /\ RowsOk(cache)' /\ RowsOk(existing)'
  BY <1>1, <1>2 DEF RowsOk, RowOk, IsTable, database, process, cycle
<1>4. Recorded'
  <2>1. \A q \in Players : Payouts(q) \subseteq Payouts(q)'
    BY <1>1 DEF Payouts
  <2>. QED
    BY <1>1, <2>1 DEF Recorded, process, cycle
<1>5. Fetched'
  BY <1>1 DEF Fetched, FetchWindow, cycle
<1>. QED
  BY <1>1, <1>3, <1>4, <1>5 DEF cycle

LEMMA EvidenceRaiseAlert ==
    ASSUME EvidenceInv, NEW b \in Bets, RaiseAlert(b)
    PROVE  Evidence'
<1>. USE DEF EvidenceInv, Evidence, TypeInv, TypeOK
<1>1. /\ UNCHANGED <<clock, bets, database, process, pc, cycle>>
      /\ DOMAIN alerts' = DOMAIN alerts \cup {b} /\ b \notin DOMAIN alerts
      /\ alerts'[b].ts = bets[b].ts /\ alerts'[b].player = bets[b].player
      /\ \A c \in DOMAIN alerts : alerts'[c] = alerts[c]
  BY DEF RaiseAlert
<1>2. RowsOk(results)' /\ RowsOk(cache)' /\ RowsOk(existing)'
  <2>1. ASSUME NEW a \in DOMAIN alerts
        PROVE  Returns(a)' = Returns(a) /\ alerts'[a] = alerts[a]
    BY <1>1 DEF Returns
  <2>2. ASSUME NEW a \in DOMAIN alerts, NEW r, RowOk(a, r)
        PROVE  /\ r.verdict # "PENDING" /\ r.asof <= clock'
               /\ ~PlayerMayDrift /\ r.verdict = "MISS" => Returns(a)' # {}
               /\ ~PlayerMayDrift /\ ~ReadMayFail /\ r.verdict = "MATCH"
                      /\ r.asof - MaxLookback <= alerts'[a].ts + Horizon
                  => \A c \in Returns(a)' : bets'[c].at >= r.asof
    BY <1>1, <2>1, <2>2 DEF RowOk
  <2>3. results' = results /\ cache' = cache /\ existing' = existing
    BY <1>1 DEF database, process, cycle
  <2>. QED
    BY <2>2, <2>3 DEF RowsOk, RowOk
<1>3. Recorded'
  BY <1>1 DEF Recorded, Payouts, process, cycle
<1>4. Fetched'
  BY <1>1 DEF Fetched, FetchWindow, cycle
<1>. QED
  BY <1>1, <1>2, <1>3, <1>4 DEF cycle

LEMMA EvidenceBegin ==
    ASSUME EvidenceInv, NEW readProcessed, NEW fromDb \in SUBSET DOMAIN results,
           NEW watermark, Begin(readProcessed, fromDb, watermark)
    PROVE  Evidence'
<1>. USE DEF EvidenceInv, Evidence, TypeInv, TypeOK
<1>1. /\ UNCHANGED <<environment, results, resolved, betCache, fetchedAt>>
      /\ pc' = "fetch" /\ now' = clock /\ cache' = existing'
      /\ \A b \in pending' : b \in DOMAIN alerts /\ alerts[b].ts <= clock - Wait
      /\ existing' = Updated(cache, [b \in fromDb |-> results[b]])
  BY DEF Begin, Due, Open, Merged
<1>2. \A b \in DOMAIN existing' : RowOk(b, existing'[b])
  BY <1>1 DEF RowsOk, Updated
<1>3. RowsOk(results)' /\ RowsOk(cache)' /\ RowsOk(existing)'
  <2>1. \A b \in DOMAIN results' : RowOk(b, results'[b])
    BY <1>1 DEF RowsOk
  <2>2. \A b \in DOMAIN cache' : RowOk(b, cache'[b])
    BY <1>1, <1>2
  <2>3. UNCHANGED environment
    BY <1>1
  <2>4. RowsOk(results)'
    BY ONLY <2>1, <2>3, RowsOkAfter
  <2>5. RowsOk(existing)'
    BY ONLY <1>2, <2>3, RowsOkAfter
  <2>6. RowsOk(cache)'
    BY ONLY <2>2, <2>3, RowsOkAfter
  <2>. QED
    BY ONLY <2>4, <2>5, <2>6
<1>4. Recorded'
  BY <1>1 DEF Recorded, Payouts, environment
<1>5. Fetched'
  BY <1>1 DEF Fetched, environment
<1>. QED
  BY <1>1, <1>3, <1>4, <1>5 DEF environment

LEMMA EvidenceFetch ==
    ASSUME EvidenceInv, Fetch
    PROVE  Evidence'
<1>. USE DEF EvidenceInv, Evidence, TypeInv, TypeOK
<1>1. /\ UNCHANGED <<environment, database, process, now, pending, existing>>
      /\ pc = "fetch" /\ pc' = "judge" /\ fetchedAt' = clock
      /\ betCache' = [p \in Players |->
                        IF {x \in Payouts(p) : FetchWindow(x)} # {}
                        THEN {x \in Payouts(p) : FetchWindow(x)} ELSE resolved[p]]
  BY DEF Fetch
<1>2. RowsOk(results)' /\ RowsOk(cache)' /\ RowsOk(existing)'
  <2>1. results' = results /\ cache' = cache /\ existing' = existing
    BY <1>1 DEF database, process
  <2>. QED
    BY <1>1, <2>1, RowsOkAfter DEF RowsOk
<1>3. Recorded'
  <2>1. \A p \in Players : Payouts(p)' = Payouts(p)
    BY <1>1 DEF Payouts, environment
  <2>2. ASSUME ~PlayerMayDrift, NEW p \in Players  PROVE betCache'[p] \subseteq Payouts(p)
    BY <1>1, <2>2 DEF Recorded
  <2>. QED
    BY <1>1, <2>1, <2>2 DEF Recorded, environment, process
<1>4. Fetched'
  <2>1. ASSUME NEW p \in Players, NEW c \in DOMAIN bets, bets[c].player = p,
               FetchWindow(bets[c].ts)
        PROVE  bets[c].ts \in betCache'[p]
    <3>1. bets[c].ts \in Payouts(p)
      BY <2>1 DEF Payouts
    <3>. QED
      BY <1>1, <2>1, <3>1
  <2>2. \A x : FetchWindow(x)' <=> FetchWindow(x)
    BY <1>1 DEF FetchWindow, environment
  <2>. QED
    BY <1>1, <2>1, <2>2 DEF Fetched, environment
<1>. QED
  BY <1>1, <1>2, <1>3, <1>4 DEF environment

LEMMA EvidenceJudge ==
    ASSUME EvidenceInv, FinalizeOnHorizon, Judge
    PROVE  Evidence'
<1>. USE DEF EvidenceInv, Evidence, TypeInv, TypeOK
<1>1. /\ UNCHANGED <<environment, database, process, now, pending, betCache, fetchedAt>>
      /\ pc = "judge" /\ pc' \in {"save", "retry"}
      /\ existing' = Applied(Settled, pending, betCache)
  BY DEF Judge
<1>2. ~PlayerMayDrift => \A p \in Players : betCache[p] \subseteq Payouts(p)
  BY DEF Recorded
<1>3. RowsOk(Applied(Settled, pending, betCache))
  BY <1>1, <1>2, SettledOk, AppliedOk
<1>4. RowsOk(results)' /\ RowsOk(cache)' /\ RowsOk(existing)'
  <2>1. results' = results /\ cache' = cache
    BY <1>1 DEF database, process
  <2>2. \A b \in DOMAIN existing' : RowOk(b, existing'[b])
    BY <1>1, <1>3 DEF RowsOk
  <2>. QED
    BY <1>1, <2>1, <2>2, RowsOkAfter DEF RowsOk
<1>5. Recorded' /\ Fetched'
  BY <1>1 DEF Recorded, Fetched, Payouts, FetchWindow, environment, process
<1>. QED
  BY <1>1, <1>4, <1>5 DEF environment

LEMMA EvidenceRetry ==
    ASSUME EvidenceInv, FinalizeOnHorizon, NEW answered, NEW betIdQuery,
           Retry(answered, betIdQuery)
    PROVE  Evidence'
<1>. USE DEF EvidenceInv, Evidence, TypeInv, TypeOK
<1>1. /\ UNCHANGED <<environment, database, cache, now, pending, fetchedAt>>
      /\ pc = "retry" /\ pc' = "save"
      /\ existing' = Applied(existing, Slice, betCache')
      /\ resolved' = [p \in Players |-> resolved[p] \cup OwnBets(p, betIdQuery)]
      /\ betCache' = [p \in Players |-> betCache[p] \cup InWindow(p, answered)
                                                    \cup OwnBets(p, betIdQuery)]
  BY DEF Retry
<1>2. Slice \in SUBSET pending
  BY SliceRows
<1>3. ASSUME ~PlayerMayDrift, NEW p \in Players
      PROVE  InWindow(p, answered) \subseteq Payouts(p) /\ OwnBets(p, betIdQuery) \subseteq Payouts(p)
  <2>1. ASSUME NEW c \in Slice, alerts[c].player = p  PROVE bets[c].ts \in Payouts(p)
    BY <1>2, <1>3, <2>1 DEF Recorded, Payouts
  <2>. QED
    BY <2>1 DEF InWindow, OwnBets
<1>4. /\ \A p \in Players : betCache[p] \subseteq betCache'[p]
      /\ ~PlayerMayDrift => \A p \in Players : /\ betCache'[p] \subseteq Payouts(p)
                                               /\ resolved'[p] \subseteq Payouts(p)
  BY <1>1, <1>3 DEF Recorded
<1>5. RowsOk(Applied(existing, Slice, betCache'))
  BY <1>1, <1>2, <1>4, AppliedOk
<1>6. RowsOk(results)' /\ RowsOk(cache)' /\ RowsOk(existing)'
  <2>1. results' = results /\ cache' = cache
    BY <1>1 DEF database
  <2>2. \A b \in DOMAIN existing' : RowOk(b, existing'[b])
    BY <1>1, <1>5 DEF RowsOk
  <2>. QED
    BY <1>1, <2>1, <2>2, RowsOkAfter DEF RowsOk
<1>7. Recorded'
  <2>1. \A p \in Players : Payouts(p)' = Payouts(p)
    BY <1>1 DEF Payouts, environment
  <2>. QED
    BY <1>1, <1>4, <2>1 DEF Recorded, environment
<1>8. Fetched'
  BY <1>1 DEF Fetched
<1>. QED
  BY <1>1, <1>6, <1>7, <1>8 DEF environment

LEMMA EvidenceSave ==
    ASSUME EvidenceInv, Save
    PROVE  Evidence'
<1>. USE DEF EvidenceInv, Evidence
<1>1. /\ UNCHANGED <<environment, process, cycle>>
      /\ pc' = "mark" /\ results' = Updated(results, existing)
  BY DEF Save, Saved
<1>2. \A b \in DOMAIN results' : RowOk(b, results'[b])
  BY <1>1 DEF RowsOk, Updated
<1>3. RowsOk(results)' /\ RowsOk(cache)' /\ RowsOk(existing)'
  <2>1. cache' = cache /\ existing' = existing
    BY <1>1 DEF process, cycle
  <2>. QED
    BY <1>1, <1>2, <2>1, RowsOkAfter DEF RowsOk
<1>4. Recorded' /\ Fetched'
  BY <1>1 DEF Recorded, Fetched, Payouts, environment, process, cycle
<1>. QED
  BY <1>1, <1>3, <1>4 DEF environment, cycle

\* A cycle that ends, however it does, leaves rows with evidence.
LEMMA EvidenceEnd ==
    ASSUME EvidenceInv, Mark \/ Raise \/ Crash
    PROVE  Evidence'
<1>. USE DEF EvidenceInv, Evidence
<1>1. /\ UNCHANGED <<environment, results>>
      /\ cache' \in {existing, cache, Empty}
      /\ CycleOver
  BY DEF Mark, Raise, Crash, KeptRows, database, process
<1>2. RowsOk(results)' /\ RowsOk(cache)' /\ RowsOk(existing)'
  <2>1. \A b \in DOMAIN cache' : RowOk(b, cache'[b])
    BY <1>1 DEF RowsOk, Empty
  <2>2. \A b \in DOMAIN existing' : RowOk(b, existing'[b])
    BY <1>1, CycleOverTypes
  <2>. QED
    BY <1>1, <2>1, <2>2, RowsOkAfter DEF RowsOk
<1>3. Recorded'
  <2>1. \A p \in Players : betCache'[p] = {} /\ resolved'[p] \in {resolved[p], {}}
    BY DEF Mark, Raise, Crash, CycleOver, process
  <2>. QED
    BY <1>1, <2>1 DEF Recorded, Payouts, environment
<1>4. Fetched'
  BY <1>1 DEF Fetched, CycleOver
<1>. QED
  BY <1>1, <1>2, <1>3, <1>4 DEF environment, CycleOver

LEMMA EvidenceStep ==
    ASSUME FinalizeOnHorizon
    PROVE  EvidenceInv /\ [Next]_vars => EvidenceInv'
<1>. SUFFICES ASSUME EvidenceInv, [Next]_vars  PROVE Evidence'
  <2>1. EvidenceInv /\ [Next]_vars => TypeInv' /\ (~ReadMayFail => Kept')
    BY TypeStep, KeptStep DEF EvidenceInv, KeptInv
  <2>. QED
    BY <2>1 DEF EvidenceInv
<1>1. CASE World
  BY <1>1, EvidenceTick, EvidenceDrift, EvidenceArrive, EvidenceRaiseAlert DEF World
<1>2. CASE Cycle
  BY <1>2, ReadSets, EvidenceBegin, EvidenceFetch, EvidenceJudge, EvidenceRetry,
     EvidenceSave, EvidenceEnd DEF Cycle
<1>3. CASE Faults
  BY <1>3, EvidenceRetry, EvidenceEnd DEF Faults
<1>4. CASE UNCHANGED vars
  BY <1>4 DEF EvidenceInv, Evidence, RowsOk, RowOk, Returns, Recorded, Fetched, Payouts,
              FetchWindow, vars, environment, database, process, cycle
<1>. QED
  BY <1>1, <1>2, <1>3, <1>4 DEF Next

LEMMA EvidenceAlways == ASSUME FinalizeOnHorizon PROVE Spec => []EvidenceInv
<1>1. Init => EvidenceInv
  BY TypeInit, KeptInit, EvidenceInit DEF EvidenceInv
<1>2. EvidenceInv /\ [Next]_vars => EvidenceInv'
  BY EvidenceStep
<1>. QED
  BY <1>1, <1>2, PTL DEF Spec

\* A processed alert has its verdict in the table, even when reads fail.
THEOREM VerdictsSaved == ASSUME FinalizeOnHorizon PROVE Spec => []ProcessedHasVerdict
<1>1. EvidenceInv => ProcessedHasVerdict
  BY DEF EvidenceInv, TypeInv, Control, Evidence, RowsOk, RowOk, ProcessedHasVerdict
<1>. QED
  BY <1>1, EvidenceAlways, PTL

\* A saved MISS rests on a bet in the warehouse, if bets keep their player.
THEOREM MissesJustified == ASSUME ~PlayerMayDrift PROVE Spec => []MissHasReturn
<1>1. CASE FinalizeOnHorizon
  <2>1. EvidenceInv => MissHasReturn
    BY DEF EvidenceInv, Evidence, RowsOk, RowOk, MissHasReturn
  <2>. QED
    BY <1>1, <2>1, EvidenceAlways, PTL
<1>2. CASE ~FinalizeOnHorizon
  <2>1. MissHasReturn
    BY <1>2 DEF MissHasReturn
  <2>. QED
    BY <2>1, PTL
<1>. QED
  BY <1>1, <1>2

\* A saved MATCH within the look-back rests on a fetch that found no return, if
\* bets keep their player and reads of state.db do not fail.
THEOREM MatchesJustified ==
    ASSUME FinalizeOnHorizon, ~PlayerMayDrift, ~ReadMayFail
    PROVE  Spec => []MatchSawNoReturn
<1>1. EvidenceInv => MatchSawNoReturn
  BY DEF EvidenceInv, Evidence, RowsOk, RowOk, MatchSawNoReturn
<1>. QED
  BY <1>1, EvidenceAlways, PTL
=============================================================================
