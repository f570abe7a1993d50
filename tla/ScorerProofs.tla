---------------------------- MODULE ScorerProofs ----------------------------
(***************************************************************************)
(* Proofs about Scorer for every value of its constants: type correctness, *)
(* the watermark, the cooldown on delivered alerts, the justification of   *)
(* muted ones, at most one committed scoring per ingest, and the refinement*)
(* of AlertLedger; with a prediction log that takes its writes, what is in *)
(* it; and, on a warehouse whose stamps follow the payouts, that the       *)
(* watermark passes nothing over.                                          *)
(***************************************************************************)
EXTENDS Scorer, FiniteSetTheorems, WellFoundedInduction, TLAPS

\* The constants' assumptions, under one name.
LEMMA Constants ==
    /\ Bets \subseteq Nat
    /\ Owner \in [Bets -> Players]
    /\ Cooldown \in Nat \ {0}
    /\ PayoutLags \subseteq Nat
  BY BetsAssumption, OwnerAssumption, TimingAssumption

\* Whatever the limit does, fetched rows are eligible and newer than the watermark.
LEMMA FetchedRows ==
    ASSUME NEW b \in FetchRows
    PROVE  b \in Bets /\ Eligible(b) /\ Newer(b)
  BY DEF FetchRows, TopK

LEMMA ProbedRows ==
    ASSUME NEW b \in ProbeRows
    PROVE  b \in Bets /\ Eligible(b) /\ Newer(b)
  BY DEF ProbeRows, TopK

LEMMA NoticesTyped ==
    ASSUME NEW S \in SUBSET Bets, scoredAt \in Nat
    PROVE  Notices(S) \subseteq NoticeRows
<1>. SUFFICES ASSUME NEW n \in Notices(S) PROVE n \in NoticeRows
  OBVIOUS
<1>1. PICK b \in S : n = [player |-> Owner[b], bet |-> b, at |-> scoredAt]
  BY DEF Notices
<1>2. Owner[b] \in Players
  BY OwnerAssumption
<1>. QED
  BY <1>1, <1>2 DEF NoticeRows

\* A set of naturals that is not empty has a least element.
LEMMA LeastNatural ==
    ASSUME NEW S, S \subseteq Nat, S # {}
    PROVE  \E m \in S : \A x \in S : m <= x
<1>1. IsWellFoundedOn(OpToRel(<, Nat), Nat)
  BY NatLessThanWellFounded
<1>2. PICK m \in S : \A x \in S : <<x, m>> \notin OpToRel(<, Nat)
  BY <1>1, WFMin
<1>3. \A x \in S : ~(x < m)
  BY <1>2 DEF OpToRel
<1>. QED
  BY <1>3

-----------------------------------------------------------------------------
LEMMA TypeStep == TypeOK /\ [Next]_vars => TypeOK'
<1>. USE Constants DEF Absent
<1>. SUFFICES ASSUME TypeOK, [Next]_vars PROVE TypeOK'
  OBVIOUS
<1>. USE DEF TypeOK
<1>1. CASE Tick
  BY <1>1 DEF Tick, warehouse, stateDb, memory, history
<1>2. ASSUME NEW b \in Bets, NEW lag \in PayoutLags, Ingest(b, lag) PROVE TypeOK'
  BY <1>2 DEF Ingest, stateDb, memory, history
<1>3. ASSUME NEW b \in Bets, Reingest(b) PROVE TypeOK'
  BY <1>3 DEF Reingest, stateDb, memory, history
<1>4. CASE Start
  BY <1>4 DEF Start, warehouse, stateDb, memory, history
<1>5. CASE Probe
  <2>1. probeMax' \in Int
    BY <1>5, ProbedRows DEF Probe, Largest
  <2>. QED
    BY <2>1, <1>5 DEF Probe, warehouse, stateDb, history
<1>6. CASE Fetch
  <2>1. batch' \subseteq Bets /\ cursor' \in [Bets -> Int]
    BY <1>6, FetchedRows DEF Fetch
  <2>. QED
    BY <2>1, <1>6 DEF Fetch, warehouse, stateDb, history
<1>7. CASE FetchNothing
  BY <1>7 DEF FetchNothing, ForgetCycle, warehouse, history
<1>8. ASSUME NEW skipped \in SkippedChoices, AttachFails(skipped) PROVE TypeOK'
  BY <1>8 DEF AttachFails, ForgetCycle, warehouse, stateDb, history
<1>9. ASSUME NEW skipped \in SkippedChoices, NEW logged \in LogOutcomes,
             Attach(skipped, logged)
      PROVE  TypeOK'
  <2>1. skipped \subseteq Bets
    BY DEF SkippedChoices
  <2>2. SkipRows(skipped) \subseteq LogRows
    BY <2>1 DEF SkipRows, LogRows
  <2>. QED
    BY <2>2, <1>9 DEF Attach, warehouse, stateDb, history
<1>10. ASSUME NEW logged \in LogOutcomes, AttachNothing(logged) PROVE TypeOK'
  <2>1. SkipRows(batch) \subseteq LogRows
    BY DEF SkipRows, LogRows
  <2>2. watermark' \in Int
    BY <1>10 DEF AttachNothing, Largest
  <2>. QED
    BY <2>1, <2>2, <1>10 DEF AttachNothing, ForgetCycle, warehouse, history
<1>11. ASSUME NEW C \in SUBSET Representatives, NEW logged \in LogOutcomes,
              NEW R \in AllowedRaises(C), Decide(C, R, logged)
       PROVE  TypeOK'
  <2>1. C \subseteq Bets /\ R \subseteq C
    BY DEF Representatives, AllowedRaises
  <2>2. ScoredLogRows(C, R) \subseteq LogRows
    BY DEF ScoredLogRows, LogRow, Decision, LogRows
  <2>. QED
    BY <2>1, <2>2, <1>11 DEF Decide, warehouse, stateDb, history
<1>12. CASE Commit
  <2>1. watermark' \in Int
    BY <1>12 DEF Commit, Largest, ScoredCursors
  <2>2. Notices(raised) \subseteq NoticeRows /\ Notices(suppressed) \subseteq NoticeRows
    BY NoticesTyped
  <2>3. alerts' \in [Bets -> Int] /\ scoreCount' \in [Bets -> Nat]
    BY <1>12 DEF Commit
  <2>. QED
    BY <2>1, <2>2, <2>3, <1>12 DEF Commit, ForgetCycle, warehouse
<1>13. CASE Crash
  BY <1>13 DEF Crash, ForgetCycle, warehouse, stateDb
<1>14. CASE UNCHANGED vars
  BY <1>14 DEF vars, warehouse, stateDb, memory, history
<1>. QED
  BY <1>1, <1>2, <1>3, <1>4, <1>5, <1>6, <1>7, <1>8, <1>9, <1>10, <1>11,
     <1>12, <1>13, <1>14 DEF Next, Cycle

\* Type correctness of the scorer's databases, memory and histories.
THEOREM TypeCorrect == Spec => []TypeOK
<1>1. Init => TypeOK
  BY Constants DEF Init, TypeOK, Absent
<1>. QED
  BY <1>1, TypeStep, PTL DEF Spec

-----------------------------------------------------------------------------
(* The inductive invariant.  A committed alert outlives its row's ts only by *)
(* a later alert for the same bet, so the alerts table bounds the history;   *)
(* a decided cycle remembers that its players were out of cooldown, and no   *)
(* other step writes the table before it commits.  For the scoring counts,   *)
(* an ingest newer than the watermark is still to be scored.                 *)

\* Stamps never lie in the future; the probe is ahead of the watermark.
TimeInv ==
    /\ \A b \in Bets : etl[b] <= clock /\ alerts[b] <= clock /\ Absent <= alerts[b]
    /\ scoredAt <= clock
    /\ pc \in {"decide", "commit"} => \A b \in Bets : alerts[b] <= scoredAt
    /\ pc = "fetch" => watermark < probeMax

\* Nothing is scorable before the lookup of a cycle.
IdleInv == pc \in {"down", "idle", "fetch", "attach"} => scorable = {}

\* The fetched rows are newer than the watermark, and scoring them spends the
\* ingest the cursor was read from.
BatchInv ==
    /\ scorable \subseteq batch
    /\ \A b \in batch :
        /\ watermark < cursor[b]
        /\ cursor[b] <= etl[b]
        /\ scoreCount[b] < versions[b]
        /\ cursor[b] < etl[b] => scoreCount[b] + 1 < versions[b]

\* An ingest above the watermark has not been scored.
CountInv ==
    \A b \in Bets :
        /\ scoreCount[b] <= versions[b]
        /\ watermark < etl[b] => scoreCount[b] < versions[b]
        /\ etl[b] = Absent => versions[b] = 0

\* The alerts table holds the last alert sent for each bet.
SentInv ==
    /\ \A s \in sent : /\ s.player = Owner[s.bet]
                       /\ s.at <= alerts[s.bet]
    /\ \A b \in Bets : alerts[b] # Absent =>
          \E s \in sent : s.bet = b /\ s.at = alerts[b]

\* What a decided cycle is about to commit.
DecisionInv ==
    pc = "commit" =>
        /\ \A b \in raised : ~InCooldown(Owner[b])
        /\ \A b, c \in raised : Owner[b] = Owner[c] => b = c
        /\ \A b \in suppressed :
              InCooldown(Owner[b]) \/ \E c \in raised : Owner[c] = Owner[b]

IInv == TypeOK /\ TimeInv /\ IdleInv /\ BatchInv /\ CountInv /\ SentInv /\ DecisionInv
             /\ CooldownSpacing /\ MutedOnlyAfterDelivery

\* No other step than Commit writes the alerts table or delivers anything.
LEMMA OnlyCommitDelivers ==
    [Next]_vars => Commit \/ UNCHANGED <<alerts, sent, muted>>
BY DEF Next, Cycle, vars, warehouse, stateDb, memory, history, Tick, Ingest, Reingest,
       Start, Probe, Fetch, FetchNothing, AttachFails, Attach, AttachNothing, Decide, Crash

\* Only Decide enters pc = "commit", and only time moves while it lasts.
LEMMA UntilCommit ==
    ASSUME [Next]_vars, pc' = "commit"
    PROVE  \/ \E C \in SUBSET Representatives, logged \in LogOutcomes :
                 \E R \in AllowedRaises(C) : Decide(C, R, logged)
           \/ pc = "commit" /\ UNCHANGED <<alerts, raised, suppressed, scoredAt>>
BY DEF Next, Cycle, vars, warehouse, stateDb, memory, history, Tick, Ingest, Reingest,
       Start, Probe, Fetch, FetchNothing, AttachFails, Attach, AttachNothing, Decide,
       Commit, Crash

LEMMA TimeStep == ASSUME IInv, TypeOK', [Next]_vars PROVE TimeInv'
<1>. USE Constants DEF Absent, IInv, TypeOK, TimeInv
<1>1. CASE Tick
  BY <1>1 DEF Tick, warehouse, stateDb, memory, history
<1>2. ASSUME NEW b \in Bets, NEW lag \in PayoutLags, Ingest(b, lag) PROVE TimeInv'
  BY <1>2 DEF Ingest, stateDb, memory, history
<1>3. ASSUME NEW b \in Bets, Reingest(b) PROVE TimeInv'
  BY <1>3 DEF Reingest, stateDb, memory, history
<1>4. CASE Start
  BY <1>4 DEF Start, warehouse, stateDb, memory, history
<1>5. CASE Probe
  <2>1. PICK b \in ProbeRows : etl[b] <= probeMax'
    BY <1>5 DEF Probe, Largest
  <2>2. b \in Bets /\ watermark < etl[b]
    BY ProbedRows DEF Newer
  <2>3. watermark < probeMax'
    BY <2>1, <2>2
  <2>. QED
    BY <2>3, <1>5 DEF Probe, warehouse, stateDb, history
<1>6. CASE Fetch
  BY <1>6 DEF Fetch, warehouse, stateDb, history
<1>7. CASE FetchNothing
  BY <1>7 DEF FetchNothing, ForgetCycle, warehouse, history
<1>8. ASSUME NEW skipped, AttachFails(skipped) PROVE TimeInv'
  BY <1>8 DEF AttachFails, ForgetCycle, warehouse, stateDb, history
<1>9. ASSUME NEW skipped, NEW logged, Attach(skipped, logged) PROVE TimeInv'
  BY <1>9 DEF Attach, warehouse, stateDb, history
<1>10. ASSUME NEW logged, AttachNothing(logged) PROVE TimeInv'
  BY <1>10 DEF AttachNothing, ForgetCycle, warehouse, history
<1>11. ASSUME NEW C, NEW R, NEW logged, Decide(C, R, logged) PROVE TimeInv'
  BY <1>11 DEF Decide, warehouse, stateDb, history
<1>12. CASE Commit
  BY <1>12 DEF Commit, ForgetCycle, warehouse
<1>13. CASE Crash
  BY <1>13 DEF Crash, ForgetCycle, warehouse, stateDb
<1>14. CASE UNCHANGED vars
  BY <1>14 DEF vars, warehouse, stateDb, memory, history
<1>. QED
  BY <1>1, <1>2, <1>3, <1>4, <1>5, <1>6, <1>7, <1>8, <1>9, <1>10, <1>11,
     <1>12, <1>13, <1>14 DEF Next, Cycle

LEMMA BatchStep == ASSUME IInv, TypeOK', [Next]_vars PROVE BatchInv'
<1>. USE Constants DEF Absent, IInv, TypeOK, BatchInv
<1>1. CASE Tick
  BY <1>1 DEF Tick, warehouse, stateDb, memory, history
<1>2. ASSUME NEW b \in Bets, NEW lag \in PayoutLags, Ingest(b, lag) PROVE BatchInv'
  <2>1. b \notin batch
    BY <1>2 DEF Ingest, Arrived, CountInv
  <2>. QED
    BY <2>1, <1>2 DEF Ingest, stateDb, memory, history
<1>3. ASSUME NEW b \in Bets, Reingest(b) PROVE BatchInv'
  BY <1>3 DEF Reingest, stateDb, memory, history
<1>4. CASE Start
  BY <1>4 DEF Start, warehouse, stateDb, memory, history
<1>5. CASE Probe
  BY <1>5 DEF Probe, warehouse, stateDb, history
<1>6. CASE Fetch
  <2>1. \A b \in batch' : b \in Bets /\ watermark < etl[b] /\ cursor'[b] = etl[b]
    BY <1>6, FetchedRows DEF Fetch, Newer
  <2>2. scorable' = scorable /\ scorable = {}
    BY <1>6 DEF Fetch, ReadyToFetch, IdleInv
  <2>. QED
    BY <2>1, <2>2, <1>6 DEF Fetch, warehouse, stateDb, history, CountInv
<1>7. CASE FetchNothing
  BY <1>7 DEF FetchNothing, ForgetCycle
<1>8. ASSUME NEW skipped, AttachFails(skipped) PROVE BatchInv'
  BY <1>8 DEF AttachFails, ForgetCycle
<1>9. ASSUME NEW skipped, NEW logged, Attach(skipped, logged) PROVE BatchInv'
  BY <1>9 DEF Attach, warehouse, stateDb, history
<1>10. ASSUME NEW logged, AttachNothing(logged) PROVE BatchInv'
  BY <1>10 DEF AttachNothing, ForgetCycle
<1>11. ASSUME NEW C, NEW R, NEW logged, Decide(C, R, logged) PROVE BatchInv'
  BY <1>11 DEF Decide, warehouse, stateDb, history
<1>12. CASE Commit
  BY <1>12 DEF Commit, ForgetCycle
<1>13. CASE Crash
  BY <1>13 DEF Crash, ForgetCycle
<1>14. CASE UNCHANGED vars
  BY <1>14 DEF vars, warehouse, stateDb, memory, history
<1>. QED
  BY <1>1, <1>2, <1>3, <1>4, <1>5, <1>6, <1>7, <1>8, <1>9, <1>10, <1>11,
     <1>12, <1>13, <1>14 DEF Next, Cycle

LEMMA IdleStep == ASSUME IInv, TypeOK', [Next]_vars PROVE IdleInv'
BY DEF IInv, IdleInv, ForgetCycle, ReadyToFetch,
       Next, Cycle, vars, warehouse, stateDb, memory, history, Tick, Ingest, Reingest,
       Start, Probe, Fetch, FetchNothing, AttachFails, Attach, AttachNothing, Decide,
       Commit, Crash

\* What a step that moves the watermark may assume about its target.
LEMMA WatermarkStep == ASSUME IInv, TypeOK', [Next]_vars PROVE watermark <= watermark'
<1>. USE DEF IInv, TypeOK
<1>1. CASE FetchNothing
  BY <1>1 DEF FetchNothing, TimeInv
<1>2. ASSUME NEW logged, AttachNothing(logged) PROVE watermark <= watermark'
  BY <1>2 DEF AttachNothing, Largest, BatchInv
<1>3. CASE Commit
  BY <1>3 DEF Commit, Largest, ScoredCursors, BatchInv
<1>4. CASE UNCHANGED watermark
  BY <1>4
<1>. QED
  BY <1>1, <1>2, <1>3, <1>4
     DEF Next, Cycle, vars, warehouse, stateDb, Tick, Ingest, Reingest, Start, Probe,
         Fetch, AttachFails, Attach, Decide, Crash

LEMMA CountStep == ASSUME IInv, TypeOK', [Next]_vars PROVE CountInv'
<1>. USE DEF Absent, IInv, TypeOK, CountInv
<1>1. ASSUME NEW b \in Bets, NEW lag \in PayoutLags, Ingest(b, lag) PROVE CountInv'
  BY <1>1 DEF Ingest, Arrived, stateDb, history
<1>2. ASSUME NEW b \in Bets, Reingest(b) PROVE CountInv'
  BY <1>2 DEF Reingest, Arrived, stateDb, history
<1>3. CASE Commit
  <2>1. \A b \in scorable : cursor[b] <= watermark'
    BY <1>3 DEF Commit, Largest, ScoredCursors
  <2>2. ASSUME NEW b \in Bets PROVE CountInv!(b)'
    <3>1. CASE b \in scorable
      BY <3>1, <2>1, <1>3 DEF Commit, BatchInv, warehouse
    <3>2. CASE b \notin scorable
      BY <3>2, WatermarkStep, <1>3 DEF Commit, warehouse
    <3>. QED
      BY <3>1, <3>2
  <2>. QED
    BY <2>2
<1>4. CASE UNCHANGED <<etl, versions, scoreCount>>
  BY <1>4, WatermarkStep
<1>. QED
  BY <1>1, <1>2, <1>3, <1>4
     DEF Next, Cycle, vars, warehouse, history, Tick, Start, Probe,
         Fetch, FetchNothing, AttachFails, Attach, AttachNothing, Decide, Crash

LEMMA SentStep == ASSUME IInv, TypeOK', [Next]_vars PROVE SentInv'
<1>. USE DEF Absent, IInv, TypeOK, SentInv
<1>1. CASE Commit
  <2>1. \A b \in Bets : alerts[b] <= scoredAt
    BY <1>1 DEF Commit, TimeInv
  <2>2. ASSUME NEW s \in sent' PROVE s.player = Owner[s.bet] /\ s.at <= alerts'[s.bet]
    <3>1. CASE s \in sent
      BY <3>1, <2>1, <1>1 DEF Commit, NoticeRows
    <3>2. CASE s \in Notices(raised)
      BY <3>2, <1>1 DEF Commit, Notices
    <3>. QED
      BY <3>1, <3>2, <1>1 DEF Commit
  <2>3. ASSUME NEW b \in Bets, alerts'[b] # Absent
        PROVE  \E s \in sent' : s.bet = b /\ s.at = alerts'[b]
    <3>1. CASE b \in raised
      <4>. DEFINE n == [player |-> Owner[b], bet |-> b, at |-> scoredAt]
      <4>1. n \in sent'
        BY <3>1, <1>1 DEF Commit, Notices
      <4>2. n.bet = b /\ n.at = alerts'[b]
        BY <3>1, <1>1 DEF Commit
      <4>. QED
        BY <4>1, <4>2
    <3>2. CASE b \notin raised
      BY <3>2, <2>3, <1>1 DEF Commit
    <3>. QED
      BY <3>1, <3>2
  <2>. QED
    BY <2>2, <2>3
<1>2. CASE UNCHANGED <<alerts, sent>>
  BY <1>2
<1>. QED
  BY <1>1, <1>2, OnlyCommitDelivers

LEMMA DecisionStep == ASSUME IInv, TypeOK', [Next]_vars PROVE DecisionInv'
<1>. SUFFICES ASSUME pc' = "commit"
              PROVE  /\ \A b \in raised' : ~InCooldown(Owner[b])'
                     /\ \A b, c \in raised' : Owner[b] = Owner[c] => b = c
                     /\ \A b \in suppressed' :
                           InCooldown(Owner[b])' \/ \E c \in raised' : Owner[c] = Owner[b]
  BY DEF DecisionInv
<1>1. ASSUME NEW C \in SUBSET Representatives, NEW logged \in LogOutcomes,
             NEW R \in AllowedRaises(C), Decide(C, R, logged)
      PROVE  DecisionInv'
  <2>1. alerts' = alerts /\ scoredAt' = scoredAt /\ raised' = R /\ suppressed' = C \ R
    BY <1>1 DEF Decide, stateDb
  <2>2. \A b \in R : ~InCooldown(Owner[b])
    BY DEF AllowedRaises
  <2>3. \A b, c \in R : Owner[b] = Owner[c] => b = c
    BY DEF AllowedRaises
  <2>4. \A b \in C : InCooldown(Owner[b]) \/ \E c \in R : Owner[c] = Owner[b]
    BY DEF AllowedRaises
  <2>. QED
    BY <2>1, <2>2, <2>3, <2>4 DEF DecisionInv, InCooldown
<1>2. CASE pc = "commit" /\ UNCHANGED <<alerts, raised, suppressed, scoredAt>>
  BY <1>2 DEF IInv, DecisionInv, InCooldown
<1>. QED
  BY <1>1, <1>2, UntilCommit DEF DecisionInv

\* What a commit is about to deliver comes a cooldown after everything its
\* player was sent, and at most one of it goes to each player.
LEMMA NewAfterOld ==
    ASSUME IInv, pc = "commit",
           NEW s \in Notices(raised), NEW t \in sent, s.player = t.player
    PROVE  s.at - t.at >= Cooldown
<1>. USE Constants DEF IInv, TypeOK
<1>1. PICK b \in raised : s = [player |-> Owner[b], bet |-> b, at |-> scoredAt]
  BY DEF Notices
<1>2. ~InCooldown(Owner[b])
  BY DEF DecisionInv
<1>3. t.bet \in Bets /\ t.at \in Nat
  BY DEF NoticeRows
<1>4. Owner[t.bet] = Owner[b] /\ t.at <= alerts[t.bet]
  BY <1>1 DEF SentInv
<1>5. alerts[t.bet] \in Int
  BY <1>3
<1>6. alerts[t.bet] # Absent
  BY <1>3, <1>4, <1>5, SMT DEF Absent
<1>7. Cooldown \in Int
  BY TimingAssumption
<1>8. ~(scoredAt - alerts[t.bet] < Cooldown)
  BY <1>2, <1>3, <1>4, <1>5, <1>6 DEF InCooldown
<1>. QED
  BY <1>1, <1>3, <1>4, <1>5, <1>7, <1>8

LEMMA OneNewPerPlayer ==
    ASSUME IInv, pc = "commit",
           NEW s \in Notices(raised), NEW t \in Notices(raised), s.player = t.player
    PROVE  s = t
<1>1. PICK b \in raised : s = [player |-> Owner[b], bet |-> b, at |-> scoredAt]
  BY DEF Notices
<1>2. PICK c \in raised : t = [player |-> Owner[c], bet |-> c, at |-> scoredAt]
  BY DEF Notices
<1>3. b = c
  BY <1>1, <1>2 DEF IInv, DecisionInv
<1>. QED
  BY <1>1, <1>2, <1>3

LEMMA SpacingStep == ASSUME IInv, TypeOK', [Next]_vars PROVE CooldownSpacing'
<1>1. CASE Commit
  <2>1. sent' = sent \cup Notices(raised) /\ pc = "commit"
    BY <1>1 DEF Commit
  <2>. QED
    BY <2>1, NewAfterOld, OneNewPerPlayer DEF CooldownSpacing, IInv
<1>2. CASE UNCHANGED sent
  BY <1>2 DEF CooldownSpacing, IInv
<1>. QED
  BY <1>1, <1>2, OnlyCommitDelivers

LEMMA MutedStep == ASSUME IInv, TypeOK', [Next]_vars PROVE MutedOnlyAfterDelivery'
<1>. USE Constants DEF IInv, TypeOK
<1>1. CASE Commit
  <2>. DEFINE Justifies(s, m) ==
                s.player = m.player /\ s.at <= m.at /\ m.at - s.at < Cooldown
  <2>1. sent' = sent \cup Notices(raised) /\ muted' = muted \cup Notices(suppressed)
    BY <1>1 DEF Commit
  <2>2. ASSUME NEW m_ \in muted PROVE \E s \in sent' : Justifies(s, m_)
    BY <2>1 DEF MutedOnlyAfterDelivery
  <2>3. ASSUME NEW m_ \in Notices(suppressed) PROVE \E s \in sent' : Justifies(s, m_)
    <3>1. PICK b \in suppressed : m_ = [player |-> Owner[b], bet |-> b, at |-> scoredAt]
      BY DEF Notices
    <3>2. CASE InCooldown(Owner[b])
      <4>1. PICK c \in Bets : /\ alerts[c] # Absent /\ Owner[c] = Owner[b]
                              /\ scoredAt - alerts[c] < Cooldown
        BY <3>2 DEF InCooldown
      <4>2. PICK s \in sent : s.bet = c /\ s.at = alerts[c]
        BY <4>1 DEF SentInv
      <4>3. alerts[c] <= scoredAt /\ s.player = Owner[c]
        BY <4>2, <1>1 DEF Commit, TimeInv, SentInv
      <4>. QED
        BY <2>1, <3>1, <4>1, <4>2, <4>3
    <3>3. CASE \E c \in raised : Owner[c] = Owner[b]
      <4>1. PICK c \in raised : Owner[c] = Owner[b]
        BY <3>3
      <4>. DEFINE n == [player |-> Owner[c], bet |-> c, at |-> scoredAt]
      <4>2. n \in sent'
        BY <2>1 DEF Notices
      <4>3. Justifies(n, m_)
        BY <3>1, <4>1
      <4>. QED
        BY <4>2, <4>3
    <3>. QED
      BY <3>2, <3>3, <1>1 DEF Commit, DecisionInv
  <2>. QED
    BY <2>1, <2>2, <2>3 DEF MutedOnlyAfterDelivery
<1>2. CASE UNCHANGED <<sent, muted>>
  BY <1>2 DEF MutedOnlyAfterDelivery
<1>. QED
  BY <1>1, <1>2, OnlyCommitDelivers

-----------------------------------------------------------------------------
LEMMA Inductive == Spec => []IInv
<1>1. Init => IInv
  BY Constants
     DEF Init, IInv, TypeOK, TimeInv, IdleInv, BatchInv, CountInv, SentInv, DecisionInv,
         CooldownSpacing, MutedOnlyAfterDelivery, Absent
<1>2. IInv /\ [Next]_vars => IInv'
  <2>. SUFFICES ASSUME IInv, [Next]_vars PROVE IInv'
    OBVIOUS
  <2>1. TypeOK'
    BY TypeStep DEF IInv
  <2>. QED
    BY <2>1, TimeStep, IdleStep, BatchStep, CountStep, SentStep, DecisionStep,
       SpacingStep, MutedStep DEF IInv
<1>. QED
  BY <1>1, <1>2, PTL DEF Spec

\* Two alerts delivered for one player are at least a cooldown apart.
THEOREM CooldownKept == Spec => []CooldownSpacing
<1>1. IInv => CooldownSpacing
  BY DEF IInv
<1>. QED
  BY <1>1, Inductive, PTL

\* A candidate muted for good had an alert of its player delivered inside the
\* cooldown before it.
THEOREM MutingJustified == Spec => []MutedOnlyAfterDelivery
<1>1. IInv => MutedOnlyAfterDelivery
  BY DEF IInv
<1>. QED
  BY <1>1, Inductive, PTL

\* No ingest of a bet is scored by two committed cycles.
THEOREM ScoredOnce == Spec => []ScoredOncePerIngest
<1>1. IInv => ScoredOncePerIngest
  BY DEF IInv, CountInv, ScoredOncePerIngest
<1>. QED
  BY <1>1, Inductive, PTL

\* The ETL watermark never moves back.
THEOREM WatermarkOnlyAdvances == Spec => WatermarkMonotone
<1>1. IInv /\ [Next]_vars => [watermark <= watermark']_vars
  BY TypeStep, WatermarkStep DEF IInv
<1>. QED
  BY <1>1, Inductive, PTL DEF Spec, WatermarkMonotone

\* A cycle that reads something and ends without dying leaves the watermark higher.
CyclesAdvance ==
    [][pc \notin {"down", "idle"} /\ pc' = "idle" => watermark < watermark']_vars

\* No loop of the daemon fetches the same rows for ever: whether it scored them, set
\* them all aside or found none in scope, a finished cycle has moved the watermark.
THEOREM EveryCycleAdvances == Spec => CyclesAdvance
<1>1. IInv /\ [Next]_vars
        => [pc \notin {"down", "idle"} /\ pc' = "idle" => watermark < watermark']_vars
  <2>. SUFFICES ASSUME IInv, Next, pc \notin {"down", "idle"}, pc' = "idle"
                PROVE  watermark < watermark'
    OBVIOUS
  <2>1. CASE FetchNothing
    BY <2>1 DEF FetchNothing, IInv, TimeInv
  <2>2. CASE \E logged \in LogOutcomes : AttachNothing(logged)
    <3>1. PICK x \in batch : watermark' = cursor[x]
      BY <2>2 DEF AttachNothing, Largest
    <3>. QED
      BY <3>1 DEF IInv, BatchInv
  <2>3. CASE Commit
    <3>1. PICK x \in scorable : watermark' = cursor[x]
      BY <2>3 DEF Commit, Largest, ScoredCursors
    <3>. QED
      BY <3>1 DEF IInv, BatchInv
  <2>. QED
    BY <2>1, <2>2, <2>3
       DEF Next, Cycle, Tick, Ingest, Reingest, Start, Probe, Fetch, AttachFails, Attach,
           Decide, Crash
<1>. QED
  BY <1>1, Inductive, PTL DEF Spec, CyclesAdvance
-----------------------------------------------------------------------------
\* A commit delivers a batch the ledger accepts; a time step lets time pass;
\* every other step leaves the ledger alone.
LEMMA LedgerStep == ASSUME IInv, [Next]_vars PROVE [Ledger!Next]_<<clock, sent>>
<1>. USE DEF Ledger!Next, Ledger!Advance, Ledger!Deliver, Ledger!Notice
<1>1. CASE Commit
  <2>. DEFINE S == sent' \ sent
  <2>1. /\ pc = "commit"
        /\ sent' = sent \cup Notices(raised)
        /\ clock' = clock
    BY <1>1 DEF Commit
  <2>2. S \subseteq Notices(raised) /\ sent' = sent \cup S
    BY <2>1
  <2>3. Notices(raised) \subseteq [player : Players, bet : Bets, at : Nat]
    BY Constants DEF Notices, IInv, TypeOK
  <2>4. scoredAt \in 0..clock /\ \A s \in S : s.at = scoredAt
    <3>1. scoredAt \in 0..clock
      BY DEF IInv, TypeOK, TimeInv
    <3>2. \A s \in Notices(raised) : s.at = scoredAt
      BY DEF Notices
    <3>. QED
      BY <3>1, <3>2, <2>2
  <2>5. \A s, t \in S : s.player = t.player => s = t
    BY <2>1, <2>2, OneNewPerPlayer
  <2>6. \A s \in S, t \in sent : s.player = t.player => s.at - t.at >= Cooldown
    BY <2>1, <2>2, NewAfterOld
  <2>. QED
    BY <2>1, <2>2, <2>3, <2>4, <2>5, <2>6
<1>2. CASE Tick
  BY <1>2 DEF Tick, history, IInv, TypeOK
<1>3. CASE UNCHANGED <<clock, sent>>
  BY <1>3
<1>4. Commit \/ Tick \/ UNCHANGED <<clock, sent>>
  BY DEF Next, Cycle, Ingest, Reingest, Start, Probe, Fetch, FetchNothing, AttachFails,
         Attach, AttachNothing, Decide, Crash, history, vars
<1>. QED
  BY <1>1, <1>2, <1>3, <1>4

\* The scorer implements the alert ledger.
THEOREM LedgerImplemented == Spec => ImplementsLedger
<1>1. Init => Ledger!Init
  BY DEF Init, Ledger!Init
<1>2. IInv /\ [Next]_vars => [Ledger!Next]_<<clock, sent>>
  BY LedgerStep
<1>. QED
  BY <1>1, <1>2, Inductive, PTL DEF Spec, ImplementsLedger, Ledger!Spec

-----------------------------------------------------------------------------
(* Nothing is passed over.  The watermark is a single number, so everything  *)
(* below it must be settled: that takes a warehouse whose stamps order the   *)
(* bets as their payouts do, and a log that accepts the skipped rows.        *)

\* The stamps follow the payouts: one insert at a time, no row replaced, and no
\* two inserts delayed so differently that a later stamp has an earlier payout.
OrderedWarehouse ==
    /\ InOrder
    /\ MaxVersions <= 1
    /\ \A l, m \in PayoutLags : l <= m + 1

Logged(b, status) == \E r \in plog : r.bet = b /\ r.status = status
OutOfLookback(b) == payout[b] < clock - Lookback

\* Stamps are distinct and trail the payout by one of the lags.
ArrivalInv ==
    /\ \A b \in Bets : Arrived(b) =>
          /\ 0 <= etl[b] /\ 1 <= versions[b]
          /\ \E lag \in PayoutLags : payout[b] = etl[b] - lag
    /\ \A b, c \in Bets : Arrived(b) /\ etl[c] = etl[b] => b = c

\* The probe stops at a bet old enough to be fetched.
ProbeInv ==
    pc = "fetch" =>
        \E p \in Bets : Arrived(p) /\ etl[p] = probeMax /\ payout[p] <= clock - AvailDelay

\* The watermark is above no stamp to come.
MarkInv == watermark < 0 \/ \E c \in Bets : watermark <= etl[c]

\* The batch leaves no hole: what is in scope, above the watermark and not above
\* a fetched row is in the batch as well, or too old.
FetchInv ==
    \A x \in batch, b \in Bets :
        Arrived(b) /\ InScope(b) /\ watermark < etl[b] /\ etl[b] <= cursor[x]
            => b \in batch \/ OutOfLookback(b)

\* What a cycle set aside is in the log, and before the commit what it scored.
LogInv ==
    /\ pc \in {"decide", "commit"} => \A b \in batch \ scorable : Logged(b, "skipped")
    /\ pc = "commit" => \A b \in scorable : Logged(b, "scored")

LogGrows == plog \subseteq plog'

LEMMA LogOnlyGrows == ASSUME [Next]_vars PROVE LogGrows
BY DEF LogGrows, Next, Cycle, vars, warehouse, stateDb, memory, history, Tick, Ingest,
       Reingest, Start, Probe, Fetch, FetchNothing, AttachFails, Attach, AttachNothing,
       Decide, Commit, Crash

LEMMA LoggedStays ==
    ASSUME LogGrows, NEW b, NEW status, Logged(b, status)
    PROVE  Logged(b, status)'
BY DEF LogGrows, Logged

\* A written skip is a row of its bet.
LEMMA SkipsLogged ==
    ASSUME NEW S, NEW b \in S, SkipRows(S) \subseteq plog'
    PROVE  Logged(b, "skipped")'
<1>. DEFINE r == [bet |-> b, at |-> clock, status |-> "skipped", decision |-> "none"]
<1>1. r \in plog'
  BY DEF SkipRows
<1>2. r.bet = b /\ r.status = "skipped"
  OBVIOUS
<1>. QED
  BY <1>1, <1>2 DEF Logged

LEMMA ScoresLogged ==
    ASSUME NEW C, NEW R, NEW b \in scorable, ScoredLogRows(C, R) \subseteq plog'
    PROVE  Logged(b, "scored")'
<1>. DEFINE r == LogRow(b, "scored", Decision(b, R, C \ R))
<1>1. r \in plog'
  BY DEF ScoredLogRows
<1>2. r.bet = b /\ r.status = "scored"
  BY DEF LogRow
<1>. QED
  BY <1>1, <1>2 DEF Logged

LEMMA LogStep == ASSUME IInv, LogInv, ~LogMayFail, [Next]_vars PROVE LogInv'
<1>. USE DEF LogInv
<1>0. LogGrows
  BY LogOnlyGrows
<1>. LogOutcomes = {TRUE}
  BY DEF LogOutcomes
<1>1. ASSUME NEW skipped \in SkippedChoices, NEW logged \in LogOutcomes,
             Attach(skipped, logged)
      PROVE  LogInv'
  <2>1. SkipRows(skipped) \subseteq plog' /\ pc' = "decide"
        /\ batch' = batch /\ scorable' = batch \ skipped
    BY <1>1 DEF Attach
  <2>. QED
    BY <2>1, SkipsLogged
<1>2. ASSUME NEW C \in SUBSET Representatives, NEW logged \in LogOutcomes,
             NEW R \in AllowedRaises(C), Decide(C, R, logged)
      PROVE  LogInv'
  <2>1. ScoredLogRows(C, R) \subseteq plog' /\ pc = "decide"
        /\ batch' = batch /\ scorable' = scorable
    BY <1>2 DEF Decide
  <2>. QED
    BY <2>1, <1>0, ScoresLogged, LoggedStays
<1>3. CASE pc' \notin {"decide", "commit"}
  BY <1>3
<1>4. CASE UNCHANGED <<pc, batch, scorable>>
  BY <1>4, <1>0, LoggedStays
<1>5. QED
  BY <1>1, <1>2, <1>3, <1>4
     DEF Next, Cycle, vars, warehouse, stateDb, memory, history, Tick, Ingest, Reingest,
         Start, Probe, Fetch, FetchNothing, AttachFails, AttachNothing, Commit, Crash

LEMMA ScoredLoggedStep ==
    ASSUME IInv, LogInv, ScoredRowsAreLogged, [Next]_vars
    PROVE  ScoredRowsAreLogged'
<1>0. LogGrows
  BY LogOnlyGrows
<1>1. CASE Commit
  <2>1. plog' = plog /\ pc = "commit"
    BY <1>1 DEF Commit
  <2>2. \A b \in Bets : scoreCount'[b] = scoreCount[b] + IF b \in scorable THEN 1 ELSE 0
    BY <1>1 DEF Commit
  <2>3. \A b \in Bets : scoreCount'[b] > 0 => scoreCount[b] > 0 \/ b \in scorable
    BY <2>2 DEF IInv, TypeOK
  <2>. QED
    BY <2>1, <2>3 DEF ScoredRowsAreLogged, LogInv, Logged
<1>2. CASE UNCHANGED scoreCount
  BY <1>2, <1>0 DEF ScoredRowsAreLogged, LogGrows
<1>. QED
  BY <1>1, <1>2
     DEF Next, Cycle, vars, warehouse, stateDb, memory, history, Tick, Ingest, Reingest,
         Start, Probe, Fetch, FetchNothing, AttachFails, Attach, AttachNothing, Decide,
         Crash

\* When the prediction log accepts its writes, every scored row is in it before
\* the watermark passes it.
THEOREM ScoredLogged == ASSUME ~LogMayFail PROVE Spec => []ScoredRowsAreLogged
<1>. DEFINE Inv == LogInv /\ ScoredRowsAreLogged
<1>1. Init => Inv
  BY DEF Init, LogInv, ScoredRowsAreLogged
<1>2. IInv /\ Inv /\ [Next]_vars => Inv'
  BY LogStep, ScoredLoggedStep
<1>. QED
  BY <1>1, <1>2, Inductive, PTL DEF Spec
-----------------------------------------------------------------------------
\* What a host was told, or spared, is in the prediction log under the same time.
DecisionsAreLogged ==
    /\ \A n \in sent :
          [bet |-> n.bet, at |-> n.at, status |-> "scored", decision |-> "raised"] \in plog
    /\ \A n \in muted :
          [bet |-> n.bet, at |-> n.at, status |-> "scored", decision |-> "suppressed"] \in plog

DecisionLogInv ==
    pc = "commit" =>
        /\ \A b \in raised : LogRow(b, "scored", "raised") \in plog
        /\ \A b \in suppressed : LogRow(b, "scored", "suppressed") \in plog

LEMMA DecisionLogStep ==
    ASSUME IInv, DecisionLogInv, ~LogMayFail, [Next]_vars
    PROVE  DecisionLogInv'
<1>. SUFFICES ASSUME pc' = "commit" PROVE DecisionLogInv'
  BY DEF DecisionLogInv
<1>1. LogGrows
  BY LogOnlyGrows
<1>2. CASE pc = "commit" /\ UNCHANGED <<alerts, raised, suppressed, scoredAt>>
  BY <1>1, <1>2 DEF DecisionLogInv, LogRow, LogGrows
<1>3. ASSUME NEW C \in SUBSET Representatives, NEW logged \in LogOutcomes,
             NEW R \in AllowedRaises(C), Decide(C, R, logged)
      PROVE  DecisionLogInv'
  <2>1. C \subseteq scorable /\ R \subseteq C
    BY DEF Representatives, AllowedRaises
  <2>2. /\ ScoredLogRows(C, R) \subseteq plog' /\ scoredAt' = scoredAt
        /\ raised' = R /\ suppressed' = C \ R
    BY <1>3 DEF Decide, LogOutcomes
  <2>3. ASSUME NEW b \in R PROVE LogRow(b, "scored", "raised") \in plog'
    <3>1. LogRow(b, "scored", Decision(b, R, C \ R)) \in ScoredLogRows(C, R)
      BY <2>1 DEF ScoredLogRows
    <3>. QED
      BY <2>2, <3>1 DEF Decision
  <2>4. ASSUME NEW b \in C \ R PROVE LogRow(b, "scored", "suppressed") \in plog'
    <3>1. LogRow(b, "scored", Decision(b, R, C \ R)) \in ScoredLogRows(C, R)
      BY <2>1 DEF ScoredLogRows
    <3>. QED
      BY <2>2, <3>1 DEF Decision
  <2>. QED
    BY <2>2, <2>3, <2>4 DEF DecisionLogInv, LogRow
<1>. QED
  BY <1>2, <1>3, UntilCommit

LEMMA DecisionsLoggedStep ==
    ASSUME DecisionLogInv, DecisionsAreLogged, [Next]_vars
    PROVE  DecisionsAreLogged'
<1>1. LogGrows
  BY LogOnlyGrows
<1>2. CASE Commit
  <2>1. /\ pc = "commit" /\ plog' = plog
        /\ sent' = sent \cup Notices(raised) /\ muted' = muted \cup Notices(suppressed)
    BY <1>2 DEF Commit
  <2>2. \A n \in Notices(raised) :
            [bet |-> n.bet, at |-> n.at, status |-> "scored", decision |-> "raised"] \in plog
    BY <2>1 DEF Notices, DecisionLogInv, LogRow
  <2>3. \A n \in Notices(suppressed) :
            [bet |-> n.bet, at |-> n.at, status |-> "scored", decision |-> "suppressed"] \in plog
    BY <2>1 DEF Notices, DecisionLogInv, LogRow
  <2>. QED
    BY <2>1, <2>2, <2>3 DEF DecisionsAreLogged
<1>3. CASE UNCHANGED <<alerts, sent, muted>>
  BY <1>1, <1>3 DEF DecisionsAreLogged, LogGrows
<1>. QED
  BY <1>2, <1>3, OnlyCommitDelivers

\* When the prediction log accepts its writes, every alert that was delivered or muted
\* is in it with its decision and its time, though the two databases commit apart; the
\* converse is false, a death between the commits leaves rows of alerts nobody got.
THEOREM DecisionsLogged == ASSUME ~LogMayFail PROVE Spec => []DecisionsAreLogged
<1>1. Init => DecisionLogInv /\ DecisionsAreLogged
  BY DEF Init, DecisionLogInv, DecisionsAreLogged
<1>2. IInv /\ DecisionLogInv /\ DecisionsAreLogged /\ [Next]_vars
        => (DecisionLogInv /\ DecisionsAreLogged)'
  BY DecisionLogStep, DecisionsLoggedStep
<1>. QED
  BY <1>1, <1>2, Inductive, PTL DEF Spec
-----------------------------------------------------------------------------
\* Bets stamped earlier were paid out no later.
LEMMA StampsFollowPayouts ==
    ASSUME TypeOK, ArrivalInv, OrderedWarehouse,
           NEW b \in Bets, NEW c \in Bets, Arrived(b), Arrived(c), etl[c] <= etl[b]
    PROVE  payout[c] <= payout[b]
<1>1. CASE b = c
  BY <1>1 DEF TypeOK
<1>2. CASE b # c
  <2>1. etl[c] < etl[b]
    BY <1>2 DEF TypeOK, ArrivalInv
  <2>2. PICK l \in PayoutLags : payout[b] = etl[b] - l
    BY DEF ArrivalInv
  <2>3. PICK m \in PayoutLags : payout[c] = etl[c] - m
    BY DEF ArrivalInv
  <2>4. l <= m + 1 /\ l \in Int /\ m \in Int
    BY Constants DEF OrderedWarehouse
  <2>. QED
    BY <2>1, <2>2, <2>3, <2>4 DEF TypeOK
<1>. QED
  BY <1>1, <1>2

\* No row is replaced in an ordered warehouse.
LEMMA NoReingest ==
    ASSUME TypeOK, ArrivalInv, OrderedWarehouse, NEW b \in Bets
    PROVE  ~Reingest(b)
BY BoundAssumption DEF OrderedWarehouse, Reingest, ArrivalInv, TypeOK

LEMMA ArrivalStep ==
    ASSUME IInv, ArrivalInv, OrderedWarehouse, [Next]_vars
    PROVE  ArrivalInv'
<1>. USE DEF IInv, TypeOK
<1>1. ASSUME NEW b \in Bets, NEW lag \in PayoutLags, Ingest(b, lag) PROVE ArrivalInv'
  <2>1. /\ \A c \in Bets : etl[c] < clock
        /\ \A c \in Bets : etl'[c] = IF c = b THEN clock ELSE etl[c]
        /\ \A c \in Bets : payout'[c] = IF c = b THEN clock - lag ELSE payout[c]
        /\ \A c \in Bets : versions'[c] = IF c = b THEN 1 ELSE versions[c]
    BY <1>1 DEF Ingest, OrderedWarehouse
  <2>2. ASSUME NEW c \in Bets, etl'[c] # Absent
        PROVE  /\ 0 <= etl'[c] /\ 1 <= versions'[c]
               /\ \E l \in PayoutLags : payout'[c] = etl'[c] - l
    BY <2>1, <2>2 DEF ArrivalInv, Arrived
  <2>3. ASSUME NEW c \in Bets, NEW d \in Bets, etl'[c] # Absent, etl'[d] = etl'[c]
        PROVE  c = d
    BY <2>1, <2>3 DEF ArrivalInv, Arrived
  <2>. QED
    BY <2>2, <2>3 DEF ArrivalInv, Arrived
<1>2. CASE UNCHANGED <<payout, etl, versions>>
  BY <1>2 DEF ArrivalInv, Arrived
<1>. QED
  BY <1>1, <1>2, NoReingest
     DEF Next, Cycle, vars, warehouse, stateDb, memory, history, Tick,
         Start, Probe, Fetch, FetchNothing, AttachFails, Attach, AttachNothing, Decide,
         Commit, Crash

\* A bet that is here stays as it is, and what is too old stays too old.
LEMMA SettledStays ==
    ASSUME IInv, ArrivalInv, OrderedWarehouse, [Next]_vars, NEW b \in Bets, Arrived(b)
    PROVE  /\ payout'[b] = payout[b] /\ etl'[b] = etl[b] /\ clock <= clock'
           /\ OutOfLookback(b) => OutOfLookback(b)'
<1>. USE DEF IInv, TypeOK
<1>1. clock <= clock' /\ clock' \in Nat
  <2>1. Tick \/ clock' = clock
    BY DEF Next, Cycle, vars, warehouse, stateDb, memory, history, Ingest, Reingest,
           Start, Probe, Fetch, FetchNothing, AttachFails, Attach, AttachNothing, Decide,
           Commit, Crash
  <2>. QED
    BY <2>1 DEF Tick
<1>2. ASSUME NEW c \in Bets, NEW lag \in PayoutLags, Ingest(c, lag)
      PROVE  payout'[b] = payout[b] /\ etl'[b] = etl[b]
  BY <1>2 DEF Ingest, Arrived
<1>3. payout'[b] = payout[b] /\ etl'[b] = etl[b]
  BY <1>2, NoReingest
     DEF Next, Cycle, vars, warehouse, stateDb, memory, history, Tick,
         Start, Probe, Fetch, FetchNothing, AttachFails, Attach, AttachNothing, Decide,
         Commit, Crash
<1>4. payout[b] \in Int /\ Lookback \in Int
  BY TimingAssumption
<1>. QED
  BY <1>1, <1>3, <1>4 DEF OutOfLookback

\* A bet that comes in during a step is stamped after everything that was here.
LEMMA NewcomersLast ==
    ASSUME IInv, ArrivalInv, OrderedWarehouse, [Next]_vars,
           NEW b \in Bets, ~Arrived(b), Arrived(b)'
    PROVE  /\ UNCHANGED <<clock, stateDb, plog, pc, memory, history>>
           /\ \A c \in Bets : etl[c] < etl'[b]
<1>1. PICK c \in Bets, lag \in PayoutLags : Ingest(c, lag)
  BY NoReingest
     DEF Arrived, Next, Cycle, vars, warehouse, stateDb, memory, history, Tick,
         Start, Probe, Fetch, FetchNothing, AttachFails, Attach, AttachNothing, Decide,
         Commit, Crash, IInv
<1>2. b = c /\ etl'[b] = clock
  BY <1>1 DEF Ingest, IInv, TypeOK, Arrived
<1>. QED
  BY <1>1, <1>2 DEF Ingest, OrderedWarehouse

LEMMA ProbeStep ==
    ASSUME IInv, ArrivalInv, ProbeInv, OrderedWarehouse, [Next]_vars
    PROVE  ProbeInv'
<1>. USE Constants DEF IInv, TypeOK
<1>1. CASE Probe
  <2>1. PICK p \in ProbeRows : etl[p] = probeMax'
    BY <1>1 DEF Probe, Largest
  <2>2. p \in Bets /\ Arrived(p) /\ payout[p] <= clock - AvailDelay
    BY ProbedRows DEF Eligible
  <2>3. UNCHANGED <<clock, payout, etl>>
    BY <1>1 DEF Probe, warehouse
  <2>. QED
    BY <2>1, <2>2, <2>3 DEF ProbeInv, Arrived
<1>2. CASE pc = "fetch" /\ UNCHANGED probeMax
  <2>1. PICK p \in Bets : Arrived(p) /\ etl[p] = probeMax /\ payout[p] <= clock - AvailDelay
    BY <1>2 DEF ProbeInv
  <2>2. payout'[p] = payout[p] /\ etl'[p] = etl[p] /\ clock <= clock'
    BY <2>1, SettledStays
  <2>3. clock' \in Nat
    BY TypeStep
  <2>4. payout'[p] <= clock' - AvailDelay
    BY <2>1, <2>2, <2>3, TimingAssumption
  <2>. QED
    BY <1>2, <2>1, <2>2, <2>4 DEF ProbeInv, Arrived
<1>3. CASE pc' # "fetch"
  BY <1>3 DEF ProbeInv
<1>. QED
  BY <1>1, <1>2, <1>3
     DEF Next, Cycle, vars, warehouse, stateDb, memory, history, Tick, Ingest, Reingest,
         Start, Fetch, FetchNothing, AttachFails, Attach, AttachNothing, Decide,
         Commit, Crash

\* A row waiting before a fetched one is fetched as well.
LEMMA FetchIsPrefix ==
    ASSUME TypeOK, ArrivalInv,
           NEW x \in FetchRows, NEW b \in Bets,
           Eligible(b), Newer(b), InScope(b), etl[b] <= etl[x]
    PROVE  b \in FetchRows
<1>. USE DEF TypeOK
<1>. DEFINE S == {c \in Bets : Eligible(c) /\ Newer(c) /\ InScope(c)}
            Ahead(y) == {c \in S : FetchOrder(c, y)}
<1>1. b \in S /\ x \in S /\ Cardinality(Ahead(x)) < Cap
  BY DEF FetchRows, TopK
<1>2. CASE b = x
  BY <1>2
<1>3. CASE b # x
  <2>1. etl[b] < etl[x]
    BY <1>1, <1>3 DEF ArrivalInv, Eligible
  <2>2. Ahead(b) \subseteq Ahead(x)
    BY <1>1, <2>1 DEF FetchOrder
  <2>3. IsFiniteSet(Ahead(x)) /\ IsFiniteSet(Ahead(b))
    BY BetsAssumption, FS_Subset
  <2>4. Cardinality(Ahead(b)) <= Cardinality(Ahead(x))
    BY <2>2, <2>3, FS_Subset
  <2>5. Cardinality(Ahead(b)) \in Nat /\ Cardinality(Ahead(x)) \in Nat
    BY <2>3, FS_CardinalityType
  <2>6. Cardinality(Ahead(b)) < Cap
    BY <1>1, <2>4, <2>5, BoundAssumption
  <2>. QED
    BY <1>1, <2>6 DEF FetchRows, TopK
<1>. QED
  BY <1>2, <1>3

\* A row in scope stamped no later than an available one is fetched, too old, or
\* below the watermark.
LEMMA OlderIsEligible ==
    ASSUME TypeOK, ArrivalInv, OrderedWarehouse,
           NEW b \in Bets, NEW x \in Bets, Arrived(b), Arrived(x), etl[b] <= etl[x],
           payout[x] <= clock - AvailDelay
    PROVE  Eligible(b) \/ OutOfLookback(b)
<1>1. payout[b] <= payout[x]
  BY StampsFollowPayouts
<1>2. /\ payout[b] \in Int /\ payout[x] \in Int /\ clock \in Int
      /\ Lookback \in Int /\ AvailDelay \in Int
  BY TimingAssumption DEF TypeOK
<1>. QED
  BY <1>1, <1>2 DEF Eligible, OutOfLookback

LEMMA FetchStep ==
    ASSUME IInv, ArrivalInv, FetchInv, OrderedWarehouse, [Next]_vars
    PROVE  FetchInv'
<1>. USE DEF IInv, TypeOK
<1>1. CASE Fetch
  <2>. SUFFICES ASSUME NEW x \in batch', NEW b \in Bets, Arrived(b)', InScope(b),
                       watermark' < etl'[b], etl'[b] <= cursor'[x]
                PROVE  b \in batch' \/ OutOfLookback(b)'
    BY DEF FetchInv, InScope
  <2>1. UNCHANGED <<clock, payout, etl, watermark>> /\ batch' = FetchRows
        /\ x \in FetchRows /\ cursor'[x] = etl[x]
    BY <1>1, FetchedRows DEF Fetch, warehouse, stateDb
  <2>2. x \in Bets /\ Eligible(x)
    BY <2>1, FetchedRows
  <2>3. Arrived(b) /\ Newer(b) /\ etl[b] <= etl[x]
    BY <2>1 DEF Arrived, Newer
  <2>4. Eligible(b) \/ OutOfLookback(b)
    BY <2>2, <2>3, OlderIsEligible DEF Eligible
  <2>5. Eligible(b) => b \in FetchRows
    BY <2>1, <2>3, FetchIsPrefix
  <2>. QED
    BY <2>1, <2>4, <2>5 DEF OutOfLookback
<1>2. CASE UNCHANGED <<batch, cursor, watermark>>
  <2>. SUFFICES ASSUME NEW x \in batch, NEW b \in Bets, Arrived(b)', InScope(b),
                       watermark < etl'[b], etl'[b] <= cursor[x]
                PROVE  b \in batch \/ OutOfLookback(b)'
    BY <1>2 DEF FetchInv, InScope
  <2>1. CASE Arrived(b)
    BY <2>1, SettledStays DEF FetchInv
  <2>2. CASE ~Arrived(b)
    <3>1. etl[x] < etl'[b]
      BY <2>2, NewcomersLast
    <3>2. cursor[x] <= etl[x]
      BY DEF BatchInv
    <3>3. etl'[b] \in Int
      BY TypeStep
    <3>. QED
      BY <3>1, <3>2, <3>3
  <2>. QED
    BY <2>1, <2>2
<1>3. CASE batch' = {}
  BY <1>3 DEF FetchInv
<1>. QED
  BY <1>1, <1>2, <1>3
     DEF Next, Cycle, vars, warehouse, stateDb, memory, history, Tick, Ingest, Reingest,
         Start, Probe, FetchNothing, AttachFails, Attach, AttachNothing, Decide,
         Commit, Crash, ForgetCycle

-----------------------------------------------------------------------------
Settled(b) == scoreCount[b] > 0 \/ Logged(b, "skipped") \/ OutOfLookback(b)

PassInv == ArrivalInv /\ ProbeInv /\ MarkInv /\ FetchInv /\ LogInv /\ NothingPassedOver

LEMMA SettledForGood ==
    ASSUME IInv, ArrivalInv, OrderedWarehouse, [Next]_vars,
           NEW b \in Bets, Arrived(b), Settled(b)
    PROVE  Settled(b)'
<1>1. LogGrows
  BY LogOnlyGrows
<1>2. scoreCount[b] > 0 => scoreCount'[b] > 0
  <2>1. CASE Commit
    BY <2>1 DEF Commit, IInv, TypeOK
  <2>2. CASE UNCHANGED scoreCount
    BY <2>2
  <2>. QED
    BY <2>1, <2>2
       DEF Next, Cycle, vars, warehouse, stateDb, memory, history, Tick, Ingest, Reingest,
           Start, Probe, Fetch, FetchNothing, AttachFails, Attach, AttachNothing, Decide,
           Crash
<1>. QED
  BY <1>1, <1>2, LoggedStays, SettledStays DEF Settled

\* An empty fetch means that nothing waits: the limit never leaves out everything.
LEMMA EmptyFetch ==
    ASSUME TypeOK, ArrivalInv, FetchRows = {}, NEW b \in Bets
    PROVE  ~(Eligible(b) /\ Newer(b) /\ InScope(b))
<1>. DEFINE S == {c \in Bets : Eligible(c) /\ Newer(c) /\ InScope(c)}
            Ahead(y) == {c \in S : FetchOrder(c, y)}
            Stamps == {etl[c] : c \in S}
<1>. SUFFICES ASSUME b \in S PROVE FALSE
  OBVIOUS
<1>1. \A c \in S : Arrived(c) /\ etl[c] \in Nat
  BY DEF Eligible, ArrivalInv, TypeOK
<1>2. PICK least \in Stamps : \A t \in Stamps : least <= t
  <2>1. Stamps \subseteq Nat /\ Stamps # {}
    BY <1>1
  <2>. HIDE DEF Stamps
  <2>. QED
    BY <2>1, LeastNatural
<1>3. PICK first \in S : etl[first] = least
  OBVIOUS
<1>4. \A c \in S : etl[first] <= etl[c]
  BY <1>2, <1>3
<1>5. ASSUME NEW c \in Ahead(first) PROVE FALSE
  <2>1. etl[c] = etl[first] /\ c < first
    BY <1>1, <1>4 DEF FetchOrder
  <2>2. c = first
    BY <2>1, <1>1 DEF ArrivalInv
  <2>. QED
    BY <2>1, <2>2, Constants
<1>6. Ahead(first) = {}
  BY <1>5
<1>7. Cardinality(Ahead(first)) < Cap
  <2>1. Cardinality(Ahead(first)) = 0
    BY <1>6, FS_EmptySet
  <2>. QED
    BY <2>1, BoundAssumption
<1>. QED
  BY <1>7 DEF FetchRows, TopK

\* The watermark of an empty allowlisted fetch passes only what is too old.
LEMMA ProbePassesSettled ==
    ASSUME IInv, PassInv, OrderedWarehouse, FetchNothing,
           NEW b \in Bets, Arrived(b), InScope(b), watermark < etl[b], etl[b] <= watermark'
    PROVE  OutOfLookback(b)
<1>1. pc = "fetch" /\ FetchRows = {} /\ watermark' = probeMax
  BY DEF FetchNothing
<1>2. PICK p \in Bets : Arrived(p) /\ etl[p] = probeMax /\ payout[p] <= clock - AvailDelay
  BY <1>1 DEF PassInv, ProbeInv
<1>3. Eligible(b) \/ OutOfLookback(b)
  BY <1>1, <1>2, OlderIsEligible DEF PassInv, IInv
<1>4. Newer(b)
  BY DEF Newer
<1>. QED
  BY <1>1, <1>3, <1>4, EmptyFetch DEF PassInv, IInv

LEMMA MarkStep ==
    ASSUME IInv, PassInv, OrderedWarehouse, [Next]_vars
    PROVE  MarkInv'
<1>. USE DEF IInv, TypeOK, PassInv
<1>1. TypeOK'
  BY TypeStep
<1>2. \A c \in Bets : etl[c] <= etl'[c]
  <2>. SUFFICES ASSUME NEW c \in Bets PROVE etl[c] <= etl'[c]
    OBVIOUS
  <2>1. CASE Arrived(c)
    BY <2>1, SettledStays
  <2>2. CASE ~Arrived(c) /\ Arrived(c)'
    <3>1. etl[c] < etl'[c]
      BY <2>2, NewcomersLast
    <3>2. etl[c] \in Int /\ etl'[c] \in Int
      BY <1>1
    <3>. QED
      BY <3>1, <3>2
  <2>3. CASE ~Arrived(c) /\ ~Arrived(c)'
    BY <2>3 DEF Arrived
  <2>. QED
    BY <2>1, <2>2, <2>3
<1>3. watermark' < 0 \/ \E c \in Bets : watermark' <= etl[c]
  <2>1. CASE FetchNothing
    BY <2>1 DEF FetchNothing, ProbeInv
  <2>2. ASSUME NEW logged, AttachNothing(logged)
        PROVE  \E c \in Bets : watermark' <= etl[c]
    <3>1. PICK c \in batch : watermark' = cursor[c]
      BY <2>2 DEF AttachNothing, Largest
    <3>. QED
      BY <3>1 DEF BatchInv
  <2>3. CASE Commit
    <3>1. PICK c \in scorable : watermark' = cursor[c]
      BY <2>3 DEF Commit, Largest, ScoredCursors
    <3>. QED
      BY <3>1 DEF BatchInv
  <2>4. CASE UNCHANGED watermark
    BY <2>4 DEF MarkInv
  <2>. QED
    BY <2>1, <2>2, <2>3, <2>4
       DEF Next, Cycle, vars, warehouse, stateDb, Tick, Ingest, Reingest, Start, Probe,
           Fetch, AttachFails, Attach, Decide, Crash
<1>4. CASE watermark' < 0
  BY <1>4 DEF MarkInv
<1>5. ASSUME NEW c \in Bets, watermark' <= etl[c] PROVE MarkInv'
  <2>1. watermark' <= etl'[c]
    BY <1>1, <1>2, <1>5
  <2>. QED
    BY <2>1 DEF MarkInv
<1>. QED
  BY <1>3, <1>4, <1>5

LEMMA PassedStep ==
    ASSUME IInv, PassInv, OrderedWarehouse, ~LogMayFail, [Next]_vars
    PROVE  NothingPassedOver'
<1>. USE DEF IInv, TypeOK, PassInv
<1>0. \A c \in Bets : Arrived(c) /\ InScope(c) /\ etl[c] <= watermark => Settled(c)
  BY DEF NothingPassedOver, Settled, Logged, OutOfLookback
<1>. SUFFICES ASSUME NEW b \in Bets, Arrived(b)', InScope(b), etl'[b] <= watermark'
              PROVE  Settled(b)'
  BY DEF NothingPassedOver, Settled, Logged, OutOfLookback, InScope
<1>1. TypeOK'
  BY TypeStep
<1>2. CASE ~Arrived(b)
  <2>1. watermark' = watermark /\ \A c \in Bets : etl[c] < etl'[b]
    BY <1>2, NewcomersLast DEF stateDb
  <2>2. 0 <= etl'[b]
    BY <1>1, ArrivalStep DEF ArrivalInv
  <2>3. etl'[b] \in Int /\ watermark \in Int
    BY <1>1
  <2>4. CASE watermark < 0
    BY <2>1, <2>2, <2>3, <2>4
  <2>5. ASSUME NEW c \in Bets, watermark <= etl[c] PROVE FALSE
    BY <2>1, <2>3, <2>5
  <2>. QED
    BY <2>4, <2>5 DEF MarkInv
<1>3. CASE Arrived(b) /\ etl[b] <= watermark
  BY <1>0, <1>3, SettledForGood
<1>4. CASE Arrived(b) /\ watermark < etl[b]
  <2>1. etl'[b] = etl[b] /\ (OutOfLookback(b) => OutOfLookback(b)')
    BY <1>4, SettledStays
  <2>2. ASSUME NEW x \in batch, watermark' = cursor[x]
        PROVE  b \in batch \/ OutOfLookback(b)'
    BY <1>4, <2>1, <2>2 DEF FetchInv
  <2>3. CASE FetchNothing
    BY <1>4, <2>1, <2>3, ProbePassesSettled DEF Settled
  <2>4. ASSUME NEW logged \in LogOutcomes, AttachNothing(logged) PROVE Settled(b)'
    <3>1. PICK x \in batch : watermark' = cursor[x]
      BY <2>4 DEF AttachNothing, Largest
    <3>2. SkipRows(batch) \subseteq plog'
      BY <2>4 DEF AttachNothing, LogOutcomes
    <3>3. CASE b \in batch
      BY <3>2, <3>3, SkipsLogged DEF Settled
    <3>. QED
      BY <2>2, <3>1, <3>3 DEF Settled
  <2>5. CASE Commit
    <3>1. PICK x \in scorable : watermark' = cursor[x]
      BY <2>5 DEF Commit, Largest, ScoredCursors
    <3>2. b \in batch \/ OutOfLookback(b)'
      BY <2>2, <3>1 DEF BatchInv
    <3>3. CASE b \in scorable
      <4>1. scoreCount'[b] = scoreCount[b] + 1
        BY <2>5, <3>3 DEF Commit
      <4>. QED
        BY <4>1 DEF Settled
    <3>4. CASE b \in batch \ scorable
      <4>1. Logged(b, "skipped")
        BY <2>5, <3>4 DEF Commit, LogInv
      <4>. QED
        BY <4>1, LogOnlyGrows, LoggedStays DEF Settled
    <3>. QED
      BY <3>2, <3>3, <3>4 DEF Settled
  <2>6. CASE watermark' = watermark
    BY <1>4, <2>1, <2>6
  <2>. QED
    BY <2>3, <2>4, <2>5, <2>6
       DEF Next, Cycle, vars, warehouse, stateDb, Tick, Ingest, Reingest, Start, Probe,
           Fetch, AttachFails, Attach, Decide, Crash
<1>. QED
  BY <1>2, <1>3, <1>4

\* When the stamps of the warehouse follow the payouts and the prediction log
\* accepts its writes, the watermark passes no bet in scope that was neither
\* scored, nor logged as skipped, nor out of the lookback.
THEOREM NonePassedOver ==
    ASSUME OrderedWarehouse, ~LogMayFail
    PROVE  Spec => []NothingPassedOver
<1>1. Init => PassInv
  BY DEF Init, PassInv, ArrivalInv, ProbeInv, MarkInv, FetchInv, LogInv, NothingPassedOver,
         Arrived, Absent
<1>2. IInv /\ PassInv /\ [Next]_vars => PassInv'
  <2>. SUFFICES ASSUME IInv, PassInv, [Next]_vars PROVE PassInv'
    OBVIOUS
  <2>1. ArrivalInv' /\ ProbeInv' /\ FetchInv' /\ LogInv'
    BY ArrivalStep, ProbeStep, FetchStep, LogStep DEF PassInv
  <2>. QED
    BY <2>1, MarkStep, PassedStep DEF PassInv
<1>3. PassInv => NothingPassedOver
  BY DEF PassInv
<1>. QED
  BY <1>1, <1>2, <1>3, Inductive, PTL DEF Spec
=============================================================================
