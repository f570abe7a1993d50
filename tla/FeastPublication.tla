-------------------------- MODULE FeastPublication --------------------------
(***************************************************************************)
(* What Feast refreshes promise to the scorer: the readiness document names*)
(* for each layer the newest gaming day of the features that are online,   *)
(* it is only changed by announcing what has been put online, and what it  *)
(* announces never gets older.                                             *)
(***************************************************************************)
EXTENDS Integers

CONSTANTS Layers, NoAnchor

VARIABLES online, announced   \* the anchor of each layer

Init ==
    /\ online = [l \in Layers |-> NoAnchor]
    /\ announced = [l \in Layers |-> NoAnchor]

\* A layer is materialised for some day, not an earlier one than before.
PutOnline(l) ==
    /\ online'[l] \in Int
    /\ online[l] <= online'[l]
    /\ online' = [online EXCEPT ![l] = online'[l]]
    /\ UNCHANGED announced

\* The online store is reset.
Wipe ==
    /\ online' = [l \in Layers |-> NoAnchor]
    /\ UNCHANGED announced

\* The refreshed layers are announced together.
Announce(S) ==
    /\ \A l \in S : online[l] # NoAnchor /\ announced[l] <= online[l]
    /\ announced' = [l \in Layers |-> IF l \in S THEN online[l] ELSE announced[l]]
    /\ UNCHANGED online

Next ==
    \/ \E l \in Layers : PutOnline(l)
    \/ Wipe
    \/ \E S \in SUBSET Layers : Announce(S)

Spec == Init /\ [][Next]_<<online, announced>>
=============================================================================
