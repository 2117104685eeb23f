-------------------------- MODULE MilestoneContract --------------------------
(***************************************************************************)
(* src/smart-contract/Milestone.sol: the milestones and sub-milestones of  *)
(* one escrow, their states, deadlines and revisions, and what a payout    *)
(* pays to whom.  Only the Escrow contract calls it (onlyEscrow), so each  *)
(* function is an operator the actions of EscrowContract use within their  *)
(* own transaction.                                                        *)
(***************************************************************************)
EXTENDS EscrowPlan, Ledger

MilestoneStatus == {"INIT", "FUNDED", "IN_PROGRESS", "IN_REVIEW", "REWORK",
                    "COMPLETED", "STOP", "FORCE_CLOSED"}

VARIABLES
  milestoneIds,      \* milestones added
  subMilestoneIds,   \* sub-milestones added
  milestones,        \* MilestoneData of each milestone
  subMilestones      \* MilestoneData of each sub-milestone

milestoneVars == <<milestoneIds, subMilestoneIds, milestones, subMilestones>>

MilestoneData == [state : MilestoneStatus, revisionCounter : Nat,
                  endDate : Dates, payoutStatus : BOOLEAN]

Added(i, state) == [state |-> state, revisionCounter |-> 0,
                    endDate |-> plannedEndDate[i], payoutStatus |-> FALSE]

SubMilestonesOf(m) == {s \in subMilestoneIds : Parent[s] = m}
SumOver(amount, ids) == MapThenSumSet(LAMBDA i : amount[i], ids)

-----------------------------------------------------------------------------
addMilestones(ids) ==
  /\ milestoneIds' = milestoneIds \cup ids
  /\ milestones' = [m \in Milestones |-> IF m \in ids THEN Added(m, "INIT")
                                                      ELSE milestones[m]]
  /\ UNCHANGED <<subMilestoneIds, subMilestones>>

\* A sub-milestone of a funded milestone is funded from the start.
addSubMilestones(m, ids) ==
  LET state == IF milestones[m].state = "FUNDED" THEN "FUNDED" ELSE "INIT"
  IN  /\ subMilestoneIds' = subMilestoneIds \cup ids
      /\ subMilestones' = [s \in SubMilestones |->
                             IF s \in ids THEN Added(s, state)
                                          ELSE subMilestones[s]]
      /\ UNCHANGED <<milestoneIds, milestones>>

\* INIT, FUNDED, COMPLETED and FORCE_CLOSED are reached
\* from any state (the function returns false and nobody looks at it).
checkStateChange(newState, currentState) ==
  /\ newState = "IN_PROGRESS" => currentState \in {"FUNDED", "REWORK"}
  /\ newState = "IN_REVIEW" => currentState = "IN_PROGRESS"
  /\ newState = "REWORK" => currentState = "IN_REVIEW"
  /\ newState = "STOP" => currentState = "FUNDED"

RevisionLeft(data, i) == data[i].revisionCounter < noOfRevision[i]

FaultyChangedDate(data, newState, endDate) ==   \* faulty: any change sets the date
  IF newState = "REWORK"
  THEN [data EXCEPT !.state = newState, !.endDate = endDate,
                    !.revisionCounter = @ + 1]
  ELSE [data EXCEPT !.state = newState, !.endDate = endDate]

\* The record after a change: a rework uses up a revision and sets the
\* deadline anew.
Changed(data, newState, endDate) ==
  IF newState = "REWORK"
  THEN [data EXCEPT !.state = newState, !.endDate = endDate,
                    !.revisionCounter = @ + 1]
  ELSE [data EXCEPT !.state = newState]

\* Funding reaches the sub-milestones too, except those on hold.
FundSubMilestonesOf(ms) ==
  subMilestones' = [s \in SubMilestones |->
    IF /\ s \in subMilestoneIds
       /\ Parent[s] \in ms
       /\ subMilestones[s].state # "STOP"
    THEN [subMilestones[s] EXCEPT !.state = "FUNDED"]
    ELSE subMilestones[s]]

\* changeState(m, FUNDED, 0) for every milestone of ms.
fund(ms) ==
  /\ milestones' = [m \in Milestones |->
       IF m \in ms THEN Changed(milestones[m], "FUNDED", 0) ELSE milestones[m]]
  /\ FundSubMilestonesOf(ms)
  /\ UNCHANGED <<milestoneIds, subMilestoneIds>>

changeState(m, newState, endDate) ==
  /\ m \in milestoneIds
  /\ checkStateChange(newState, milestones[m].state)
  /\ newState = "REWORK" => RevisionLeft(milestones, m)
  /\ milestones' = [milestones EXCEPT ![m] = Changed(@, newState, endDate)]
  /\ IF newState = "FUNDED" THEN FundSubMilestonesOf({m})
                            ELSE UNCHANGED subMilestones
  /\ UNCHANGED <<milestoneIds, subMilestoneIds>>

changeSubMilestoneState(s, newState, endDate) ==
  /\ s \in subMilestoneIds
  /\ checkStateChange(newState, subMilestones[s].state)
  /\ newState = "REWORK" => RevisionLeft(subMilestones, s)
  /\ subMilestones' = [subMilestones EXCEPT ![s] = Changed(@, newState, endDate)]
  /\ UNCHANGED <<milestoneIds, subMilestoneIds, milestones>>

-----------------------------------------------------------------------------
\* calculatePenalty and calculateSubMilestonePenalty: every penalty whose
\* grace period after the deadline is over.  Dates are uint32 and the sum is
\* checked: one that does not fit reverts the payout.
PenaltyDatesFit(i, endDate) ==
  \A k \in DOMAIN penalties[i] : endDate + penalties[i][k].duration \in Dates

Penalty(i, endDate) ==
  SumOver([k \in DOMAIN penalties[i] |-> penalties[i][k].penaltyValue],
          {k \in DOMAIN penalties[i] : now > endDate + penalties[i][k].duration})

MilestonePenalty(m) == Penalty(m, milestones[m].endDate)
SubMilestonePenalty(s) == Penalty(s, subMilestones[s].endDate)

\* Individual providers are paid, whatever state their sub-milestone is in,
\* unless the milestone itself is penalised.
SubMilestonesPaid(m) ==
  IF MilestonePenalty(m) = 0 THEN SubMilestonesOf(m) ELSE {}

FaultySubPayoutUndocked(s) == LessFee(fundAllocated[s])   \* faulty: no penalty

\* payoutSubMilestone: the transfer to one individual provider.
SubMilestonePayout(s) == LessFee(fundAllocated[s] - SubMilestonePenalty(s))

\* What the individual providers lose, the provider of the milestone gets.
SubMilestonePenalties(m) ==
  SumOver([s \in SubMilestonesPaid(m) |-> SubMilestonePenalty(s)],
          SubMilestonesPaid(m))

FaultyShareUndocked(m) ==             \* faulty: the penalty is not taken off
  fundAllocated[m] - SumOver(fundAllocated, SubMilestonesPaid(m))
    + SubMilestonePenalties(m)

\* payout: amountToPayCP, what is left of the milestone for the provider.
ProviderShare(m) ==
  fundAllocated[m] - SumOver(fundAllocated, SubMilestonesPaid(m))
    - MilestonePenalty(m)
    + SubMilestonePenalties(m)

PayoutBill(m) ==
  [purchaser |-> LessFee(MilestonePenalty(m)),
   provider  |-> LessFee(ProviderShare(m)),
   ip        |-> SumOver([s \in SubMilestonesPaid(m) |-> SubMilestonePayout(s)],
                        SubMilestonesPaid(m)),
   fee       |-> Fee(fundAllocated[m])]

FaultyPayableAgain(m) ==              \* faulty: payoutStatus is not looked at
  /\ m \in milestoneIds
  /\ milestones[m].state = "COMPLETED"
  /\ SumOver(fundAllocated, SubMilestonesPaid(m)) + MilestonePenalty(m)
       <= fundAllocated[m]

\* The requires of payout, and the arithmetic that must not underflow.
Payable(m) ==
  /\ m \in milestoneIds
  /\ milestones[m].state = "COMPLETED"
  /\ ~milestones[m].payoutStatus
  /\ PenaltyDatesFit(m, milestones[m].endDate)
  /\ \A s \in SubMilestonesPaid(m) :
       /\ PenaltyDatesFit(s, subMilestones[s].endDate)
       /\ SubMilestonePenalty(s) <= fundAllocated[s]
  /\ SumOver(fundAllocated, SubMilestonesPaid(m)) + MilestonePenalty(m)
       <= fundAllocated[m]

\* The bill of a payout of every milestone of ms.
PayoutBills(ms) ==
  [purchaser |-> SumOver([m \in ms |-> PayoutBill(m).purchaser], ms),
   provider  |-> SumOver([m \in ms |-> PayoutBill(m).provider], ms),
   ip        |-> SumOver([m \in ms |-> PayoutBill(m).ip], ms),
   fee       |-> SumOver([m \in ms |-> PayoutBill(m).fee], ms)]

\* The transfers of a payout: to the provider, to the purchaser and of the
\* fee for each milestone, and one for each sub-milestone that is paid.
Transfers(ms) ==
  ({"purchaser", "provider", "fee"} \X ms)
    \cup ({"ip"} \X UNION {SubMilestonesPaid(m) : m \in ms})

\* What the refused ones of these transfers add up to.
Unpaid(ms, refused) ==
  LET To(wallet) == {i \in Items : <<wallet, i>> \in refused}
  IN  [purchaser |-> SumOver([m \in ms |-> PayoutBill(m).purchaser], To("purchaser")),
       provider  |-> SumOver([m \in ms |-> PayoutBill(m).provider], To("provider")),
       ip        |-> SumOver([s \in SubMilestones |-> SubMilestonePayout(s)], To("ip")),
       fee       |-> SumOver([m \in ms |-> PayoutBill(m).fee], To("fee"))]

\* payout sets payoutStatus and state of a sub-milestone on a copy of it in
\* memory: what is stored does not change.
payout(ms) ==
  /\ \A m \in ms : Payable(m)
  /\ milestones' = [m \in Milestones |->
       IF m \in ms THEN [milestones[m] EXCEPT !.payoutStatus = TRUE]
                   ELSE milestones[m]]
  /\ UNCHANGED <<milestoneIds, subMilestoneIds, subMilestones>>

Paid == {m \in milestoneIds : milestones[m].payoutStatus}
AllMilestonesPaidOut == milestoneIds \subseteq Paid

\* Nothing is stored for an id nobody added: the zero value of MilestoneData.
Unset == [state |-> "INIT", revisionCounter |-> 0, endDate |-> 0,
          payoutStatus |-> FALSE]

MilestoneInit ==
  /\ milestoneIds = {}
  /\ subMilestoneIds = {}
  /\ milestones = [m \in Milestones |-> Unset]
  /\ subMilestones = [s \in SubMilestones |-> Unset]

MilestoneTypeOK ==
  /\ milestoneIds \subseteq Milestones
  /\ subMilestoneIds \subseteq SubMilestones
  /\ milestones \in [Milestones -> MilestoneData]
  /\ subMilestones \in [SubMilestones -> MilestoneData]
=============================================================================
