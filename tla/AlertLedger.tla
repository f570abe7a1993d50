---------------------------- MODULE AlertLedger ----------------------------
(***************************************************************************)
(* What the scorer promises to the hosts: a ledger of delivered alerts in  *)
(* which no player is alerted twice within the cooldown.  Alerts may be    *)
(* delivered some time after they were decided, several at once, and they  *)
(* are never taken back.                                                   *)
(***************************************************************************)
EXTENDS Integers

CONSTANTS Players, Bets, Cooldown

VARIABLES now, ledger

Notice == [player : Players, bet : Bets, at : Nat]

Init == now = 0 /\ ledger = {}

Advance == now' > now /\ now' \in Nat /\ UNCHANGED ledger

\* A batch S of alerts decided at one time t, at most one per player, each a
\* whole cooldown after everything its player was sent before.
Deliver(S) ==
    /\ S \subseteq Notice
    /\ \E t \in 0..now : \A s \in S : s.at = t
    /\ \A s, t \in S : s.player = t.player => s = t
    /\ \A s \in S, t \in ledger : s.player = t.player => s.at - t.at >= Cooldown
    /\ ledger' = ledger \cup S
    /\ UNCHANGED now

Next == Advance \/ Deliver(ledger' \ ledger)

Spec == Init /\ [][Next]_<<now, ledger>>
=============================================================================
