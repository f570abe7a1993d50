--------------------------- MODULE GameLifecycle ---------------------------
(***************************************************************************)
(* What the ready queue promises about player-games: each goes from unseen *)
(* to pending to completed and never back, and a game one of whose bets    *)
(* the ETL cursor has passed is never forgotten.                           *)
(***************************************************************************)
CONSTANT Games

VARIABLES stage, passed   \* passed: games with a bet behind the cursor

Init == stage = [g \in Games |-> "unseen"] /\ passed = {}

Later(s) == CASE s = "unseen"    -> {"unseen", "pending", "completed"}
              [] s = "pending"   -> {"pending", "completed"}
              [] s = "completed" -> {"completed"}

\* One transaction moves any number of games forward together with the cursor.
Next ==
    /\ stage' \in [Games -> {"unseen", "pending", "completed"}]
    /\ \A g \in Games : stage'[g] \in Later(stage[g])
    /\ passed \subseteq passed'
    /\ \A g \in passed' : stage'[g] # "unseen"

Spec == Init /\ [][Next]_<<stage, passed>>
=============================================================================
