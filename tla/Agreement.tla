------------------------------ MODULE Agreement ------------------------------
(***************************************************************************)
(* What the life cycle of a project promises its two sides: they propose   *)
(* terms in turns, the provider's side accepts the terms that are on the   *)
(* table when it is its turn, and from then on nobody changes them; they   *)
(* are deployed once, and what is deployed is not withdrawn.               *)
(***************************************************************************)
EXTENDS Naturals

CONSTANTS purchaser, Providers

VARIABLES stage,   \* how far the agreement is
          turn,    \* whose turn it is
          terms    \* the terms on the table, numbered from 1; 0 before the first

vars == <<stage, turn, terms>>

Open ==
  /\ stage = "none"
  /\ stage' = "open" /\ turn' = purchaser /\ terms' = 0

\* The turn passes from one side to the other.
Propose ==
  /\ stage = "open"
  /\ terms' = terms + 1
  /\ IF turn = purchaser THEN turn' \in Providers ELSE turn' = purchaser
  /\ UNCHANGED stage

Accept ==
  /\ stage = "open" /\ terms > 0 /\ turn \in Providers
  /\ stage' = "accepted"
  /\ UNCHANGED <<turn, terms>>

Deploy ==
  /\ stage = "accepted"
  /\ stage' = "deployed"
  /\ UNCHANGED <<turn, terms>>

Withdraw ==
  /\ stage \in {"open", "accepted"}
  /\ stage' = "withdrawn"
  /\ UNCHANGED <<turn, terms>>

Init == stage = "none" /\ turn = purchaser /\ terms = 0
Next == Open \/ Propose \/ Accept \/ Deploy \/ Withdraw
Spec == Init /\ [][Next]_vars
=============================================================================
