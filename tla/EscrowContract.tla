--------------------------- MODULE EscrowContract ---------------------------
(***************************************************************************)
(* src/smart-contract/Escrow.sol with the Milestone and Royalty contracts  *)
(* it created: the only entry point to the money of a project.  One action *)
(* is one transaction of the wallet it names, with the effects of every    *)
(* call it makes on the other two contracts.                               *)
(***************************************************************************)
EXTENDS EscrowPlan, Ledger

CONSTANTS
  Callers,              \* wallets that send transactions
  fundingType,          \* "PROJECT" or "MILESTONE"
  fundTransferType,     \* "PROJECT_COMPLETE" or "MILESTONE_COMPLETE"
  totalFundAllocated,   \* amount of the project, royalties included
  initialFee,           \* fee the constructor gets, in 1/100 percent
  NewOwners,            \* bound: whom the ownership may go to
  Fees,                 \* bound: fees the owner may change to
  Requests,             \* bound: states the transactions ask for
  EndDates,             \* bound: new deadlines a state change may carry
  Surplus,              \* bound: what msg.value may exceed the price by
  Allowances            \* bound: USDC allowances the purchaser may grant

VARIABLES
  milestoneIds, subMilestoneIds, milestones, subMilestones,   \* Milestone.sol
  royalties,              \* Royalty.sol
  owner,                  \* OWNER_ADDR
  currentFundAllocated,   \* milestones and royalties added so far
  currMilestoneFund,      \* sub-milestones added to each milestone so far
  allowance               \* tokens the purchaser lets this contract move

milestoneContract == INSTANCE MilestoneContract
royaltyContract == INSTANCE RoyaltyContract

ASSUME EscrowAssumption ==
  /\ "mo" \in Callers
  /\ NewOwners \subseteq Callers
  /\ fundingType \in {"PROJECT", "MILESTONE"}
  /\ fundTransferType \in {"PROJECT_COMPLETE", "MILESTONE_COMPLETE"}
  /\ totalFundAllocated \in Nat
  /\ initialFee \in Nat
  /\ Fees \subseteq Nat
  /\ Requests \subseteq milestoneContract!MilestoneStatus
  /\ EndDates \subseteq Dates
  /\ Surplus \subseteq Nat
  /\ Allowances \subseteq Nat

contractVars == <<milestoneIds, subMilestoneIds, milestones, subMilestones,
                  royalties>>
escrowVars == <<owner, currentFundAllocated, currMilestoneFund, allowance>>
vars == <<ledgerVars, contractVars, escrowVars>>

MoneyUnchanged == UNCHANGED ledgerVars
SumOver(amount, ids) == milestoneContract!SumOver(amount, ids)

-----------------------------------------------------------------------------
transferOwnership(c, newOwner) ==
  /\ c = owner
  /\ owner' = newOwner
  /\ UNCHANGED <<ledgerVars, contractVars, currentFundAllocated,
                 currMilestoneFund, allowance>>

updateFeeDetails(c, fee) ==
  /\ c = owner
  /\ moFeePercent' = fee
  /\ UNCHANGED <<ledger, rewarded, now, contractVars, escrowVars>>

FaultyAddWithoutRoyalty(c, ids) ==    \* faulty: royalties are not counted
  /\ c = owner
  /\ \A m \in ids : m \notin milestoneIds /\ royalties[m] = "NONE"
  /\ currentFundAllocated + SumOver(fundAllocated, ids) \in 0 .. totalFundAllocated
  /\ milestoneContract!addMilestones(ids)
  /\ royaltyContract!addMilestoneRoyalties(ids)
  /\ currentFundAllocated' = currentFundAllocated + SumOver(fundAllocated, ids)
  /\ MoneyUnchanged
  /\ UNCHANGED <<owner, currMilestoneFund, allowance>>

addMilestones(c, ids) ==
  LET price == SumOver(fundAllocated, ids) + SumOver(royaltyAmount, ids)
  IN  /\ c = owner
      /\ \A m \in ids : /\ m \notin milestoneIds
                        /\ royalties[m] = "NONE"
                        /\ royaltyAmount[m] > 0
                        /\ plannedEndDate[m] > startDate[m]
      /\ currentFundAllocated + price \in 0 .. totalFundAllocated
      /\ milestoneContract!addMilestones(ids)
      /\ royaltyContract!addMilestoneRoyalties(ids)
      /\ currentFundAllocated' = currentFundAllocated + price
      /\ MoneyUnchanged
      /\ UNCHANGED <<owner, currMilestoneFund, allowance>>

addSubMilestones(c, m, ids) ==
  LET price == SumOver(fundAllocated, ids)
  IN  /\ c = "provider"
      /\ m \in milestoneIds
      /\ milestones[m].state # "COMPLETED"
      /\ \A s \in ids : /\ s \notin subMilestoneIds
                        /\ Parent[s] = m
                        /\ plannedEndDate[s] > startDate[s]
      /\ currMilestoneFund[m] + price \in 0 .. fundAllocated[m]
      /\ milestoneContract!addSubMilestones(m, ids)
      /\ currMilestoneFund' = [currMilestoneFund EXCEPT ![m] = @ + price]
      /\ MoneyUnchanged
      /\ UNCHANGED <<royalties, owner, currentFundAllocated, allowance>>

-----------------------------------------------------------------------------
\* fundProject: all of msg.value that is not for a milestone or a royalty is
\* sent back.
fundProject(c) ==
  LET milestoneFund == SumOver(fundAllocated, milestoneIds)
      royaltyFund == SumOver(royaltyAmount, milestoneIds)
  IN  /\ c = "purchaser"
      /\ fundingType = "PROJECT"
      /\ currencyType = "HBAR"
      /\ ledger["purchaser"] >= totalFundAllocated
      /\ milestoneContract!fund(milestoneIds)
      /\ FundFromPurchaser(milestoneFund, royaltyFund, 0)
      /\ UNCHANGED <<moFeePercent, rewarded, now, royalties, escrowVars>>

\* The USDC way: the contract moves the tokens itself, out of the allowance
\* the purchaser has granted (the token lets it move no more), and does not
\* look at what the token answers.
Spent == ledger["purchaser"] - ledger'["purchaser"]

FundInTokens(milestoneFund, royaltyFund, required) ==
  /\ currencyType = "USDC"
  /\ ledger["purchaser"] >= required
  /\ allowance >= required
  /\ FundFromPurchaser(milestoneFund, royaltyFund, 0)
  /\ Spent <= allowance
  /\ allowance' = allowance - Spent
  /\ UNCHANGED <<moFeePercent, rewarded, now, royalties, owner,
                 currentFundAllocated, currMilestoneFund>>

fundUsdcToProject(c) ==
  /\ c = "purchaser"
  /\ fundingType = "PROJECT"
  /\ milestoneContract!fund(milestoneIds)
  /\ FundInTokens(SumOver(fundAllocated, milestoneIds),
                  SumOver(royaltyAmount, milestoneIds), totalFundAllocated)

\* A milestone can be funded in any state, any number of times.
fundMilestone(c, m, surplus) ==
  /\ c = "purchaser"
  /\ fundingType = "MILESTONE"
  /\ currencyType = "HBAR"
  /\ m \in milestoneIds
  /\ milestoneContract!changeState(m, "FUNDED", 0)
  /\ FundFromPurchaser(fundAllocated[m], royaltyAmount[m], surplus)
  /\ UNCHANGED <<moFeePercent, rewarded, now, royalties, escrowVars>>

fundUsdcToMilestone(c, m) ==
  /\ c = "purchaser"
  /\ fundingType = "MILESTONE"
  /\ m \in milestoneIds
  /\ milestoneContract!changeState(m, "FUNDED", 0)
  /\ FundInTokens(fundAllocated[m], royaltyAmount[m],
                  fundAllocated[m] + royaltyAmount[m])

-----------------------------------------------------------------------------
\* Who may ask for a state: of INIT, FUNDED and FORCE_CLOSED nobody says, so
\* anyone.  A sub-milestone's worker is its own provider, an "ip" wallet, and
\* its client the provider of the milestone.
checkStateChange(c, newState, worker, client) ==
  /\ newState \in {"IN_PROGRESS", "IN_REVIEW"} => c = worker
  /\ newState \in {"REWORK", "COMPLETED", "STOP"} => c = client

changeMilestoneState(c, m, newState, endDate) ==
  /\ checkStateChange(c, newState, "provider", "purchaser")
  /\ milestoneContract!changeState(m, newState, endDate)
  /\ MoneyUnchanged
  /\ UNCHANGED <<royalties, escrowVars>>

changeSubMilestoneState(c, s, newState, endDate) ==
  /\ checkStateChange(c, newState, "ip", "provider")
  /\ milestoneContract!changeSubMilestoneState(s, newState, endDate)
  /\ MoneyUnchanged
  /\ UNCHANGED <<royalties, escrowVars>>

-----------------------------------------------------------------------------
Paid == milestoneContract!Paid

\* The transfers of a payout, of which the token may refuse any.
PayMilestones(ms, bill, releases) ==
  \E refused \in Refusals(milestoneContract!Transfers(ms)) :
    PayFrom("milestone", bill, milestoneContract!Unpaid(ms, refused), releases)

PayRoyalty(bill, releases) ==
  \E refused \in Refusals({"purchaser", "provider", "fee"}) :
    PayFrom("royalty", bill, royaltyContract!Unpaid(bill, refused), releases)

FaultyPayoutCompletedOnly(c) ==       \* faulty: open milestones are skipped
  LET completed == {m \in milestoneIds : milestones[m].state = "COMPLETED"}
  IN  /\ c = "purchaser"
      /\ fundTransferType = "PROJECT_COMPLETE"
      /\ milestoneContract!payout(completed)
      /\ PayMilestones(completed, milestoneContract!PayoutBills(completed), TRUE)
      /\ UNCHANGED <<moFeePercent, rewarded, now, royalties, escrowVars>>

payoutProject(c) ==
  /\ c = "purchaser"
  /\ fundTransferType = "PROJECT_COMPLETE"
  /\ milestoneContract!payout(milestoneIds)
  /\ PayMilestones(milestoneIds, milestoneContract!PayoutBills(milestoneIds), TRUE)
  /\ UNCHANGED <<moFeePercent, rewarded, now, royalties, escrowVars>>

FaultyReleaseEarly(c, m) ==           \* faulty: every payout releases the reward
  /\ c = "purchaser"
  /\ fundTransferType = "MILESTONE_COMPLETE"
  /\ milestoneContract!payout({m})
  /\ PayMilestones({m}, milestoneContract!PayoutBill(m), TRUE)
  /\ UNCHANGED <<moFeePercent, rewarded, now, royalties, escrowVars>>

FaultyPaidIfHonoured(c, m) ==         \* faulty: a refusal leaves it unpaid
  /\ c = "purchaser"
  /\ fundTransferType = "MILESTONE_COMPLETE"
  /\ milestoneContract!Payable(m)
  /\ \E refused \in Refusals(milestoneContract!Transfers({m})) :
       /\ PayFrom("milestone", milestoneContract!PayoutBill(m),
                  milestoneContract!Unpaid({m}, refused), FALSE)
       /\ IF refused = {} THEN milestoneContract!payout({m})
                          ELSE UNCHANGED <<milestoneIds, subMilestoneIds,
                                           milestones, subMilestones>>
  /\ UNCHANGED <<moFeePercent, rewarded, now, royalties, escrowVars>>

\* The payout that leaves nothing unpaid releases the staking reward as well.
payoutMilestone(c, m) ==
  /\ c = "purchaser"
  /\ fundTransferType = "MILESTONE_COMPLETE"
  /\ milestoneContract!payout({m})
  /\ PayMilestones({m}, milestoneContract!PayoutBill(m),
                   milestoneIds \subseteq Paid \cup {m})
  /\ UNCHANGED <<moFeePercent, rewarded, now, royalties, escrowVars>>

FaultyRoyaltyBeforePayout(c, m) ==    \* faulty: the milestone may be unpaid
  /\ c = "purchaser"
  /\ m \in milestoneIds
  /\ royaltyContract!payMilestoneRoyalty(m)
  /\ PayRoyalty(royaltyContract!RoyaltyBill(m), FALSE)
  /\ UNCHANGED <<moFeePercent, rewarded, now, milestoneIds, subMilestoneIds,
                 milestones, subMilestones, escrowVars>>

payoutMilestoneRoyalty(c, m) ==
  /\ c = "purchaser"
  /\ m \in Paid
  /\ royaltyContract!payMilestoneRoyalty(m)
  /\ PayRoyalty(royaltyContract!RoyaltyBill(m),
                \A k \in milestoneIds \ {m} : royalties[k] = "PAYED_OUT")
  /\ UNCHANGED <<moFeePercent, rewarded, now, milestoneIds, subMilestoneIds,
                 milestones, subMilestones, escrowVars>>

releaseMilestoneRoyalty(c, m) ==
  /\ c = "purchaser"
  /\ m \in Paid
  /\ royaltyType[m] = "POST_KPI"
  /\ royaltyContract!forceClosePayout(m)
  /\ PayRoyalty(royaltyContract!ForceCloseBill(m), FALSE)
  /\ UNCHANGED <<moFeePercent, rewarded, now, milestoneIds, subMilestoneIds,
                 milestones, subMilestones, escrowVars>>

FaultyFreeBalanceEarly(c) ==          \* faulty: unpaid milestones not checked
  /\ c = owner
  /\ ledger["escrow"] > 0
  /\ ledger' = [ledger EXCEPT !["purchaser"] = @ + ledger["escrow"],
                              !["escrow"] = 0]
  /\ UNCHANGED <<moFeePercent, rewarded, now, contractVars, escrowVars>>

\* The only transfer whose answer is checked: refused, it reverts.
releaseFreeBalance(c) ==
  /\ c = owner
  /\ milestoneContract!AllMilestonesPaidOut
  /\ ledger["escrow"] > 0
  /\ ledger' = [ledger EXCEPT !["purchaser"] = @ + ledger["escrow"],
                              !["escrow"] = 0]
  /\ UNCHANGED <<moFeePercent, rewarded, now, contractVars, escrowVars>>

\* Outside the contracts: the purchaser's allowance at the token.
Approve(c, amount) ==
  /\ c = "purchaser"
  /\ currencyType = "USDC"
  /\ allowance' = amount
  /\ UNCHANGED <<ledgerVars, contractVars, owner, currentFundAllocated,
                 currMilestoneFund>>

Environment ==
  /\ \/ Tick
     \/ StakingReward("milestone")
     \/ StakingReward("royalty")
  /\ UNCHANGED <<contractVars, escrowVars>>

-----------------------------------------------------------------------------
\* The constructors; the backend deploys, so the first owner is MO.
Init ==
  /\ LedgerInit
  /\ moFeePercent = initialFee
  /\ milestoneContract!MilestoneInit
  /\ royaltyContract!RoyaltyInit
  /\ owner = "mo"
  /\ currentFundAllocated = 0
  /\ currMilestoneFund = [m \in Milestones |-> 0]
  /\ allowance = 0

Manage(c) ==
  \/ \E newOwner \in NewOwners : transferOwnership(c, newOwner)
  \/ \E fee \in Fees : updateFeeDetails(c, fee)
  \/ \E ids \in SUBSET Milestones \ {{}} : addMilestones(c, ids)
  \/ \E m \in Milestones, ids \in SUBSET SubMilestones \ {{}} :
       addSubMilestones(c, m, ids)

Fund(c) ==
  \/ fundProject(c)
  \/ fundUsdcToProject(c)
  \/ \E m \in Milestones, surplus \in Surplus : fundMilestone(c, m, surplus)
  \/ \E m \in Milestones : fundUsdcToMilestone(c, m)
  \/ \E amount \in Allowances : Approve(c, amount)

Work(c) ==
  \E newState \in Requests, endDate \in EndDates :
    \/ \E m \in Milestones : changeMilestoneState(c, m, newState, endDate)
    \/ \E s \in SubMilestones : changeSubMilestoneState(c, s, newState, endDate)

Settle(c) ==
  \/ payoutProject(c)
  \/ \E m \in Milestones : payoutMilestone(c, m)
  \/ \E m \in Milestones : payoutMilestoneRoyalty(c, m)
  \/ \E m \in Milestones : releaseMilestoneRoyalty(c, m)
  \/ releaseFreeBalance(c)

Next ==
  \/ \E c \in Callers : Manage(c) \/ Fund(c) \/ Work(c) \/ Settle(c)
  \/ Environment

Spec == Init /\ [][Next]_vars

-----------------------------------------------------------------------------
\* Types, and the limits the counters are checked against.
TypeOK ==
  /\ LedgerTypeOK
  /\ milestoneContract!MilestoneTypeOK
  /\ royaltyContract!RoyaltyTypeOK
  /\ owner \in Callers
  /\ currentFundAllocated \in 0 .. totalFundAllocated
  /\ currMilestoneFund \in [Milestones -> Nat]
  /\ \A m \in Milestones : currMilestoneFund[m] <= fundAllocated[m]
  /\ allowance \in Nat

Settled == {m \in Milestones : royalties[m] \in {"PAYED_OUT", "FORCE_CLOSED"}}
RoyaltyPaid == {m \in Milestones : royalties[m] = "PAYED_OUT"}

\* No royalty is paid or given back before its milestone has been paid, also
\* when milestones are added, funded again or reopened later
\* (Escrow.payoutMilestoneRoyalty, Escrow.releaseMilestoneRoyalty).
RoyaltyAfterPayout == Settled \subseteq Paid

\* The two running counters the limits are checked against are what the
\* contracts really hold, so milestones never outgrow the project and
\* sub-milestones never outgrow their milestone (Escrow.addMilestones,
\* Escrow.addSubMilestones).
AllocationExact ==
  /\ currentFundAllocated = SumOver(fundAllocated, milestoneIds)
                              + SumOver(royaltyAmount, milestoneIds)
  /\ \A m \in Milestones :
       currMilestoneFund[m] = SumOver(fundAllocated,
                                      milestoneContract!SubMilestonesOf(m))

\* The provider and the individual providers together never receive more
\* than the milestones that were paid and the royalties that were paid out,
\* whatever is penalised, refunded or funded again, and whichever transfers
\* the token refuses (Milestone.payout, Milestone.payoutSubMilestone,
\* Royalty.payMilestoneRoyalty).
IncomeWithinAgreement ==
  ledger["provider"] + ledger["ip"] <= SumOver(fundAllocated, Paid)
                                         + SumOver(royaltyAmount, RoyaltyPaid)

\* A deadline is what the parties planned as long as no revision was used up,
\* and revisions stay within their number (Milestone.changeState and
\* changeSubMilestoneState, whose end date argument any state change carries).
DeadlineMovedByRevision ==
  /\ \A m \in milestoneIds :
       /\ milestones[m].revisionCounter <= noOfRevision[m]
       /\ milestones[m].revisionCounter = 0
            => milestones[m].endDate = plannedEndDate[m]
  /\ \A s \in subMilestoneIds :
       /\ subMilestones[s].revisionCounter <= noOfRevision[s]
       /\ subMilestones[s].revisionCounter = 0
            => subMilestones[s].endDate = plannedEndDate[s]

\* A payout that is not the last one draws at most the milestone's fund and
\* one unit per individual provider (or one, for the penalty) from the
\* common pot, the truncated fees, and leaves the staking reward where it is
\* (Milestone.payout, Escrow.payoutMilestone).
DrawBounded ==
  [][\A m \in Milestones \ Paid :
       (Paid' = Paid \cup {m} /\ ~(milestoneIds \subseteq Paid'))
         => ledger["milestone"] - ledger'["milestone"]
              <= fundAllocated[m]
                   + Max({1, Cardinality(milestoneContract!SubMilestonesOf(m))})
    ]_vars

\* In a project that is paid as a whole the milestones are paid together:
\* there is no step after which some that are on the contract are paid and
\* others are not (Escrow.payoutProject).
ProjectPaidAsAWhole ==
  [][fundTransferType = "PROJECT_COMPLETE" /\ Paid' # Paid
       => Paid = {} /\ Paid' = milestoneIds]_vars

\* MilestoneData says of payoutStatus "Indicates whether the payout for this
\* milestone has been processed"; for a sub-milestone payout sets it on a copy
\* in memory only.
SubMilestonePayoutRecorded ==
  [][\A m \in Milestones \ Paid :
       (Paid' = Paid \cup {m} /\ ledger'["ip"] > ledger["ip"])
         => \E s \in SubMilestones : Parent[s] = m /\ subMilestones'[s].payoutStatus]_vars

\* The contract of PaymentPromise, read off the three contracts.
promise == INSTANCE PaymentPromise WITH
  agreed <- milestoneIds,
  paid <- Paid,
  settled <- Settled,
  pot <- ledger["milestone"],
  royaltyPot <- ledger["royalty"],
  freePot <- ledger["escrow"]

\* The contracts keep the promise: money leaves each of them only with the
\* step that pays for it, once (Escrow.sol against PaymentPromise).
KeepsPromise == promise!Spec
=============================================================================
