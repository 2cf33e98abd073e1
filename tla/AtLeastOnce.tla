---------------------------- MODULE AtLeastOnce ----------------------------
(***************************************************************************)
(* What the outbox promises about each notification, whoever delivers it   *)
(* and whatever fails on the way: once announced it is pending or given    *)
(* up on until its receiver has taken it, it may be taken again, and once  *)
(* settled it never comes back.                                            *)
(***************************************************************************)
CONSTANT Ids

VARIABLES
  ledger,  \* where each notification stands
  taken    \* the notifications their receivers have taken at least once

States == {"unannounced", "pending", "givenUp", "settled"}

Init ==
  /\ ledger = [i \in Ids |-> "unannounced"]
  /\ taken = {}

Move(S, from, to) ==
  /\ \A i \in S : ledger[i] \in from
  /\ ledger' = [i \in Ids |-> IF i \in S THEN to ELSE ledger[i]]
  /\ UNCHANGED taken

\* A change announces itself to all its recipients at once.
Announce(S) == Move(S, {"unannounced"}, "pending")

\* A receiver may take what was announced, and take it again later.
Take(i) ==
  /\ ledger[i] # "unannounced"
  /\ taken' = taken \cup {i}
  /\ UNCHANGED ledger

Settle(i) == i \in taken /\ Move({i}, {"pending", "givenUp"}, "settled")

GiveUp(i) == Move({i}, {"pending"}, "givenUp")

Revive(S) == Move(S, {"givenUp"}, "pending")

Next ==
  \/ \E S \in SUBSET Ids : Announce(S) \/ Revive(S)
  \/ \E i \in Ids : Take(i) \/ Settle(i) \/ GiveUp(i)

Spec == Init /\ [][Next]_<<ledger, taken>>
=============================================================================
