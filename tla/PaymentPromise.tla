--------------------------- MODULE PaymentPromise ---------------------------
(***************************************************************************)
(* What an escrow promises its parties, without saying how: a milestone is *)
(* paid at most once and its royalty settled at most once, after it; money *)
(* leaves the pot of the milestones only by paying milestones, the pot of  *)
(* the royalties only by settling one, and what was paid in excess only    *)
(* when every milestone has been paid.                                     *)
(***************************************************************************)
EXTENDS Integers

CONSTANT Milestones

VARIABLES
  agreed,       \* milestones the parties agreed on so far
  paid,         \* milestones that were paid
  settled,      \* milestones whose royalty was paid or given back
  pot,          \* money held for milestones
  royaltyPot,   \* money held for royalties
  freePot       \* money paid in excess

promiseVars == <<agreed, paid, settled, pot, royaltyPot, freePot>>

Agree == /\ agreed \subseteq agreed'
         /\ UNCHANGED <<paid, settled, pot, royaltyPot, freePot>>

Deposit == /\ pot' >= pot /\ royaltyPot' >= royaltyPot /\ freePot' >= freePot
           /\ UNCHANGED <<agreed, paid, settled>>

\* Nothing to pay is fine only when nothing is open.
Pay(ms) == /\ ms \subseteq agreed \ paid
           /\ ms = {} => agreed = {}
           /\ paid' = paid \cup ms
           /\ pot' \in 0 .. pot
           /\ UNCHANGED <<agreed, settled, royaltyPot, freePot>>

SettleRoyalty(m) == /\ m \in paid \ settled
                    /\ settled' = settled \cup {m}
                    /\ royaltyPot' \in 0 .. royaltyPot
                    /\ UNCHANGED <<agreed, paid, pot, freePot>>

ReturnExcess == /\ agreed \subseteq paid
                /\ freePot' = 0
                /\ UNCHANGED <<agreed, paid, settled, pot, royaltyPot>>

Init == /\ agreed = {} /\ paid = {} /\ settled = {}
        /\ pot = 0 /\ royaltyPot = 0 /\ freePot = 0

Next == \/ Agree
        \/ Deposit
        \/ \E ms \in SUBSET Milestones : Pay(ms)
        \/ \E m \in Milestones : SettleRoyalty(m)
        \/ ReturnExcess

Spec == Init /\ [][Next]_promiseVars
=============================================================================
