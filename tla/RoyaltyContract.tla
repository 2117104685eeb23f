--------------------------- MODULE RoyaltyContract ---------------------------
(***************************************************************************)
(* src/smart-contract/Royalty.sol: the royalty of every milestone, paid to *)
(* the provider or, when it depends on a KPI that was not met, returned to *)
(* the purchaser.  Only the Escrow contract calls it.                      *)
(***************************************************************************)
EXTENDS EscrowPlan, Ledger

VARIABLE royalties   \* RoyaltyStatus, or "NONE" where no royalty was added

RoyaltyStatus == {"INIT", "PAYED_OUT", "FORCE_CLOSED"}

addMilestoneRoyalties(ids) ==
  royalties' = [m \in Milestones |-> IF m \in ids THEN "INIT" ELSE royalties[m]]

\* payMilestoneRoyalty: to the provider, less the fee.
RoyaltyBill(m) ==
  [NoBill EXCEPT !.provider = LessFee(royaltyAmount[m]),
                 !.fee = Fee(royaltyAmount[m])]

payMilestoneRoyalty(m) ==
  /\ royalties[m] = "INIT"
  /\ royalties' = [royalties EXCEPT ![m] = "PAYED_OUT"]

\* forceClosePayout: back to the purchaser, less the fee.
ForceCloseBill(m) ==
  [NoBill EXCEPT !.purchaser = LessFee(royaltyAmount[m]),
                 !.fee = Fee(royaltyAmount[m])]

forceClosePayout(m) ==
  /\ royalties[m] = "INIT"
  /\ royalties' = [royalties EXCEPT ![m] = "FORCE_CLOSED"]

\* A royalty is one transfer to each wallet of its bill.
Unpaid(bill, refused) ==
  [purchaser |-> IF "purchaser" \in refused THEN bill.purchaser ELSE 0,
   provider  |-> IF "provider" \in refused THEN bill.provider ELSE 0,
   ip        |-> 0,
   fee       |-> IF "fee" \in refused THEN bill.fee ELSE 0]

RoyaltyInit == royalties = [m \in Milestones |-> "NONE"]

RoyaltyTypeOK == royalties \in [Milestones -> RoyaltyStatus \cup {"NONE"}]
=============================================================================
