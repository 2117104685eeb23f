---------------------------- MODULE EscrowProofs ----------------------------
(***************************************************************************)
(* Proofs about EscrowContract, for any plan of finitely many milestones,  *)
(* any amounts, fees, currencies and funding types.                        *)
(***************************************************************************)
EXTENDS EscrowContract, Sums, TLAPS

-----------------------------------------------------------------------------
(* Money: every transfer leaves natural balances behind.                   *)

LEMMA ProductNat == \A x, y \in Nat : x * y \in Nat
  OBVIOUS

\* The purchaser's part of a staking reward is part of the balance.
LEMMA RewardIsPart ==
  ASSUME moFeePercent \in Nat, WholePercent <= 100, NEW balance \in Nat
  PROVE  PurchaserReward(balance) \in 0 .. balance
<1> DEFINE half == balance \div 2
           w == WholePercent
<1>1. half \in 0 .. balance /\ w \in 0 .. 100
  BY DEF WholePercent
<1> HIDE DEF half, w
<1>2. half * (100 - w) \in Nat /\ half * w \in Nat
  BY <1>1, ProductNat
<1>3. half * (100 - w) = half * 100 - half * w
  BY <1>1
<1>4. half * (100 - w) <= half * 100
  BY <1>1, <1>2, <1>3
<1>5. (half * (100 - w)) \div 100 \in 0 .. half
  <2> DEFINE p == half * (100 - w)
  <2>1. p \in Nat /\ p <= half * 100
    BY <1>2, <1>4
  <2> HIDE DEF p
  <2>2. p \div 100 \in 0 .. half
    BY <1>1, <2>1
  <2> QED BY <2>2 DEF p
<1> QED BY <1>1, <1>5 DEF PurchaserReward, half, w

LEMMA DebitedType ==
  ASSUME ledger \in [Account -> Nat], NEW source \in Contracts, NEW bill \in Bill,
         BillTotal(bill) \in 0 .. ledger[source]
  PROVE  Debited(ledger, source, bill) \in [Account -> Nat]
<1>1. \A a \in Wallets : bill[a] \in Nat
  BY DEF Wallets, Bill
<1>2. \A a \in Wallets : a # source
  BY DEF Wallets, Contracts
<1>3. source \in Account /\ BillTotal(bill) \in Int
  BY DEF Account, BillTotal, Bill
<1> QED BY <1>1, <1>2, <1>3 DEF Debited

LEMMA StakingRewardReleasedType ==
  ASSUME NEW l \in [Account -> Nat], NEW source \in Contracts,
         moFeePercent \in Nat, WholePercent <= 100
  PROVE  StakingRewardReleased(l, source) \in [Account -> Nat]
<1>1. l[source] \in Nat /\ l["purchaser"] \in Nat /\ l["fee"] \in Nat
  BY DEF Account, Wallets, Contracts
<1>2. PurchaserReward(l[source]) \in 0 .. l[source]
  BY <1>1, RewardIsPart
<1> QED BY <1>1, <1>2 DEF StakingRewardReleased, Account, Wallets, Contracts

\* Paying from a contract keeps the balances natural numbers, moves money in
\* no other contract, and never puts money into the one it pays from.
LEMMA PayFromLedger ==
  ASSUME ledger \in [Account -> Nat], moFeePercent \in Nat,
         NEW source \in Contracts, NEW bill, NEW unpaid, NEW releases,
         PayFrom(source, bill, unpaid, releases)
  PROVE  /\ ledger' \in [Account -> Nat]
         /\ ledger'[source] \in 0 .. ledger[source]
         /\ \A k \in Contracts \ {source} : ledger'[k] = ledger[k]
<1> DEFINE honoured == Honoured(bill, unpaid)
           paid == Debited(ledger, source, honoured)
           splits == releases /\ currencyType = "HBAR" /\ paid[source] > 0
<1>1. /\ BillTotal(honoured) \in 0 .. ledger[source]
      /\ splits => WholePercent <= 100
      /\ ledger' = IF splits THEN StakingRewardReleased(paid, source) ELSE paid
  BY DEF PayFrom
<1>2. honoured \in Bill
  BY DEF PayFrom
<1>3. paid \in [Account -> Nat]
  BY <1>1, <1>2, DebitedType
<1>4. source \in Account /\ Contracts \subseteq Account /\ Contracts \cap Wallets = {}
  BY DEF Account, Contracts, Wallets
<1>5. paid[source] \in 0 .. ledger[source]
  BY <1>1, <1>3, <1>4 DEF Debited
<1>6. \A k \in Contracts \ {source} : paid[k] = ledger[k]
  BY <1>4 DEF Debited
<1> HIDE DEF paid, honoured, splits
<1>7. CASE ledger' = paid
  BY <1>3, <1>5, <1>6, <1>7
<1>8. CASE ledger' = StakingRewardReleased(paid, source) /\ WholePercent <= 100
  <2>1. ledger' \in [Account -> Nat]
    BY <1>3, <1>8, StakingRewardReleasedType
  <2>2. \A k \in Contracts : k # "purchaser" /\ k # "fee"
    BY DEF Contracts
  <2>3. ledger'[source] = 0 /\ \A k \in Contracts \ {source} : ledger'[k] = paid[k]
    BY <1>3, <1>4, <1>8, <2>2 DEF StakingRewardReleased
  <2>4. ledger[source] \in Nat
    BY <1>4
  <2> QED BY <1>6, <2>1, <2>3, <2>4
<1> QED BY <1>1, <1>7, <1>8

\* Milestones and royalties are paid by PayFrom, whatever is refused.
LEMMA PayMilestonesIsPayFrom ==
  ASSUME NEW ms, NEW bill, NEW releases, PayMilestones(ms, bill, releases)
  PROVE  \E unpaid : PayFrom("milestone", bill, unpaid, releases)
  BY DEF PayMilestones

LEMMA PayRoyaltyIsPayFrom ==
  ASSUME NEW bill, NEW releases, PayRoyalty(bill, releases)
  PROVE  \E unpaid : PayFrom("royalty", bill, unpaid, releases)
  BY DEF PayRoyalty

\* Funding only adds to the three contracts.
LEMMA FundLedger ==
  ASSUME ledger \in [Account -> Nat],
         NEW mf, NEW rf, NEW surplus, FundFromPurchaser(mf, rf, surplus)
  PROVE  /\ ledger' \in [Account -> Nat]
         /\ \A k \in Contracts : ledger'[k] >= ledger[k]
         /\ ledger'["purchaser"] <= ledger["purchaser"]
  BY DEF FundFromPurchaser, Account, Wallets, Contracts

-----------------------------------------------------------------------------
(* Milestones: the functions of Milestone.sol keep their data well-typed.  *)

LEMMA DatesFacts == 0 \in Dates /\ milestoneContract!Dates = Dates
  BY PlanAssumption DEF Dates, milestoneContract!Dates

LEMMA AddedType ==
  ASSUME NEW i \in Items, NEW state \in milestoneContract!MilestoneStatus
  PROVE  milestoneContract!Added(i, state) \in milestoneContract!MilestoneData
  BY PlanAssumption, DatesFacts DEF milestoneContract!Added, milestoneContract!MilestoneData

LEMMA ChangedType ==
  ASSUME NEW data \in milestoneContract!MilestoneData,
         NEW newState \in milestoneContract!MilestoneStatus, NEW endDate \in Dates
  PROVE  milestoneContract!Changed(data, newState, endDate)
           \in milestoneContract!MilestoneData
<1>1. CASE newState = "REWORK"
  <2>1. data.revisionCounter + 1 \in Nat
    BY DEF milestoneContract!MilestoneData
  <2> QED BY <1>1, <2>1, DatesFacts
          DEF milestoneContract!Changed, milestoneContract!MilestoneData
<1>2. CASE newState # "REWORK"
  BY <1>2 DEF milestoneContract!Changed, milestoneContract!MilestoneData
<1> QED BY <1>1, <1>2

LEMMA AddMilestonesType ==
  ASSUME milestoneContract!MilestoneTypeOK, NEW ids \in SUBSET Milestones,
         milestoneContract!addMilestones(ids)
  PROVE  milestoneContract!MilestoneTypeOK'
<1>1. \A m \in Milestones : milestoneContract!Added(m, "INIT")
                               \in milestoneContract!MilestoneData
  BY AddedType DEF Items, milestoneContract!MilestoneStatus
<1> QED BY <1>1 DEF milestoneContract!MilestoneTypeOK, milestoneContract!addMilestones

LEMMA AddSubMilestonesType ==
  ASSUME milestoneContract!MilestoneTypeOK, NEW m, NEW ids \in SUBSET SubMilestones,
         milestoneContract!addSubMilestones(m, ids)
  PROVE  milestoneContract!MilestoneTypeOK'
<1>1. \A s \in SubMilestones, state \in {"INIT", "FUNDED"} :
        milestoneContract!Added(s, state) \in milestoneContract!MilestoneData
  BY AddedType DEF Items, milestoneContract!MilestoneStatus
<1> QED BY <1>1 DEF milestoneContract!MilestoneTypeOK, milestoneContract!addSubMilestones

LEMMA FundSubMilestonesType ==
  ASSUME milestoneContract!MilestoneTypeOK, NEW ms,
         milestoneContract!FundSubMilestonesOf(ms)
  PROVE  subMilestones' \in [SubMilestones -> milestoneContract!MilestoneData]
  BY DEF milestoneContract!MilestoneTypeOK, milestoneContract!FundSubMilestonesOf,
         milestoneContract!MilestoneData, milestoneContract!MilestoneStatus

LEMMA FundType ==
  ASSUME milestoneContract!MilestoneTypeOK, NEW ms, milestoneContract!fund(ms)
  PROVE  milestoneContract!MilestoneTypeOK'
<1>1. subMilestones' \in [SubMilestones -> milestoneContract!MilestoneData]
  BY FundSubMilestonesType DEF milestoneContract!fund
<1>2. \A m \in Milestones : milestoneContract!Changed(milestones[m], "FUNDED", 0)
                               \in milestoneContract!MilestoneData
  BY ChangedType, DatesFacts
     DEF milestoneContract!MilestoneTypeOK, milestoneContract!MilestoneStatus
<1> QED BY <1>1, <1>2 DEF milestoneContract!MilestoneTypeOK, milestoneContract!fund

LEMMA ChangeStateType ==
  ASSUME milestoneContract!MilestoneTypeOK, NEW m,
         NEW newState \in milestoneContract!MilestoneStatus, NEW endDate \in Dates,
         milestoneContract!changeState(m, newState, endDate)
  PROVE  milestoneContract!MilestoneTypeOK'
<1>1. subMilestones' \in [SubMilestones -> milestoneContract!MilestoneData]
  BY FundSubMilestonesType
     DEF milestoneContract!changeState, milestoneContract!MilestoneTypeOK
<1>2. m \in Milestones
  BY DEF milestoneContract!changeState, milestoneContract!MilestoneTypeOK
<1>3. milestoneContract!Changed(milestones[m], newState, endDate)
        \in milestoneContract!MilestoneData
  BY <1>2, ChangedType DEF milestoneContract!MilestoneTypeOK
<1> QED BY <1>1, <1>2, <1>3
        DEF milestoneContract!MilestoneTypeOK, milestoneContract!changeState

LEMMA ChangeSubMilestoneStateType ==
  ASSUME milestoneContract!MilestoneTypeOK, NEW s,
         NEW newState \in milestoneContract!MilestoneStatus, NEW endDate \in Dates,
         milestoneContract!changeSubMilestoneState(s, newState, endDate)
  PROVE  milestoneContract!MilestoneTypeOK'
<1>1. s \in SubMilestones
  BY DEF milestoneContract!changeSubMilestoneState, milestoneContract!MilestoneTypeOK
<1>2. milestoneContract!Changed(subMilestones[s], newState, endDate)
        \in milestoneContract!MilestoneData
  BY <1>1, ChangedType DEF milestoneContract!MilestoneTypeOK
<1> QED BY <1>1, <1>2
        DEF milestoneContract!MilestoneTypeOK, milestoneContract!changeSubMilestoneState

LEMMA PayoutType ==
  ASSUME milestoneContract!MilestoneTypeOK, NEW ms, milestoneContract!payout(ms)
  PROVE  milestoneContract!MilestoneTypeOK'
  BY DEF milestoneContract!MilestoneTypeOK, milestoneContract!payout,
         milestoneContract!MilestoneData

-----------------------------------------------------------------------------
(* Type correctness: one lemma per group of transactions.                  *)

LEMMA TypeInit == Init => TypeOK
<1> SUFFICES ASSUME Init PROVE TypeOK
  OBVIOUS
<1> USE LedgerAssumption, PlanAssumption, EscrowAssumption, DatesFacts
<1>1. LedgerTypeOK
  BY DEF Init, LedgerInit, LedgerTypeOK
<1>2. milestoneContract!MilestoneTypeOK
  BY DEF Init, milestoneContract!MilestoneInit, milestoneContract!MilestoneTypeOK,
         milestoneContract!Unset, milestoneContract!MilestoneData,
         milestoneContract!MilestoneStatus
<1>3. royaltyContract!RoyaltyTypeOK
  BY DEF Init, royaltyContract!RoyaltyInit, royaltyContract!RoyaltyTypeOK
<1>4. \A m \in Milestones : fundAllocated[m] \in Nat
  BY DEF Items
<1> QED BY <1>1, <1>2, <1>3, <1>4 DEF Init, TypeOK

LEMMA ManageType ==
  ASSUME TypeOK, NEW c \in Callers, Manage(c)
  PROVE  TypeOK'
<1> USE DEF TypeOK, LedgerTypeOK, ledgerVars, contractVars
<1>1. CASE \E newOwner \in NewOwners : transferOwnership(c, newOwner)
  BY <1>1, EscrowAssumption
     DEF transferOwnership, milestoneContract!MilestoneTypeOK,
         royaltyContract!RoyaltyTypeOK
<1>2. CASE \E fee \in Fees : updateFeeDetails(c, fee)
  BY <1>2, EscrowAssumption
     DEF updateFeeDetails, escrowVars, milestoneContract!MilestoneTypeOK,
         royaltyContract!RoyaltyTypeOK
<1>3. CASE \E ids \in SUBSET Milestones \ {{}} : addMilestones(c, ids)
  <2> PICK ids \in SUBSET Milestones : addMilestones(c, ids)
    BY <1>3
  <2>1. milestoneContract!MilestoneTypeOK'
    BY AddMilestonesType DEF addMilestones
  <2>2. royaltyContract!RoyaltyTypeOK'
    BY DEF addMilestones, royaltyContract!RoyaltyTypeOK,
           royaltyContract!addMilestoneRoyalties, royaltyContract!RoyaltyStatus
  <2>3. currentFundAllocated' \in 0 .. totalFundAllocated
    BY DEF addMilestones
  <2> QED BY <2>1, <2>2, <2>3 DEF addMilestones, MoneyUnchanged
<1>4. CASE \E m \in Milestones, ids \in SUBSET SubMilestones \ {{}} :
             addSubMilestones(c, m, ids)
  <2> PICK m \in Milestones, ids \in SUBSET SubMilestones : addSubMilestones(c, m, ids)
    BY <1>4
  <2>1. milestoneContract!MilestoneTypeOK'
    BY AddSubMilestonesType DEF addSubMilestones
  <2>2. /\ currMilestoneFund' \in [Milestones -> Nat]
        /\ \A k \in Milestones : currMilestoneFund'[k] <= fundAllocated[k]
    <3>1. fundAllocated[m] \in Nat
      BY PlanAssumption DEF Items
    <3> DEFINE new == currMilestoneFund[m] + SumOver(fundAllocated, ids)
    <3>2. new \in 0 .. fundAllocated[m]
      BY DEF addSubMilestones
    <3>3. currMilestoneFund' = [currMilestoneFund EXCEPT ![m] = new]
      BY DEF addSubMilestones
    <3> HIDE DEF new
    <3> QED BY <3>1, <3>2, <3>3
  <2> QED BY <2>1, <2>2
          DEF addSubMilestones, MoneyUnchanged, royaltyContract!RoyaltyTypeOK
<1> QED BY <1>1, <1>2, <1>3, <1>4 DEF Manage

LEMMA FundTokensType ==
  ASSUME TypeOK, NEW mf, NEW rf, NEW required, FundInTokens(mf, rf, required)
  PROVE  /\ ledger' \in [Account -> Nat]
         /\ allowance' \in Nat
<1>1. ledger' \in [Account -> Nat] /\ ledger'["purchaser"] <= ledger["purchaser"]
  BY FundLedger DEF FundInTokens, TypeOK, LedgerTypeOK
<1>2. "purchaser" \in Account
  BY DEF Account, Wallets
<1> QED BY <1>1, <1>2 DEF FundInTokens, Spent, TypeOK, LedgerTypeOK

LEMMA FundingType ==
  ASSUME TypeOK, NEW c \in Callers, Fund(c)
  PROVE  TypeOK'
<1> USE DEF TypeOK, LedgerTypeOK, escrowVars
<1>0. "FUNDED" \in milestoneContract!MilestoneStatus /\ 0 \in Dates
  BY DatesFacts DEF milestoneContract!MilestoneStatus
<1>1. CASE fundProject(c)
  <2>1. ledger' \in [Account -> Nat]
    BY <1>1, FundLedger DEF fundProject
  <2>2. milestoneContract!MilestoneTypeOK'
    BY <1>1, FundType DEF fundProject
  <2> QED BY <1>1, <2>1, <2>2 DEF fundProject, royaltyContract!RoyaltyTypeOK
<1>2. CASE fundUsdcToProject(c)
  <2>1. ledger' \in [Account -> Nat] /\ allowance' \in Nat
    BY <1>2, FundTokensType DEF fundUsdcToProject
  <2>2. milestoneContract!MilestoneTypeOK'
    BY <1>2, FundType DEF fundUsdcToProject
  <2> QED BY <1>2, <2>1, <2>2
          DEF fundUsdcToProject, FundInTokens, royaltyContract!RoyaltyTypeOK
<1>3. CASE \E m \in Milestones, surplus \in Surplus : fundMilestone(c, m, surplus)
  <2> PICK m \in Milestones, surplus \in Surplus : fundMilestone(c, m, surplus)
    BY <1>3
  <2>1. ledger' \in [Account -> Nat]
    BY FundLedger DEF fundMilestone
  <2>2. milestoneContract!MilestoneTypeOK'
    BY <1>0, ChangeStateType DEF fundMilestone
  <2> QED BY <2>1, <2>2 DEF fundMilestone, royaltyContract!RoyaltyTypeOK
<1>4. CASE \E m \in Milestones : fundUsdcToMilestone(c, m)
  <2> PICK m \in Milestones : fundUsdcToMilestone(c, m)
    BY <1>4
  <2>1. ledger' \in [Account -> Nat] /\ allowance' \in Nat
    BY FundTokensType DEF fundUsdcToMilestone
  <2>2. milestoneContract!MilestoneTypeOK'
    BY <1>0, ChangeStateType DEF fundUsdcToMilestone
  <2> QED BY <2>1, <2>2
          DEF fundUsdcToMilestone, FundInTokens, royaltyContract!RoyaltyTypeOK
<1>5. CASE \E amount \in Allowances : Approve(c, amount)
  BY <1>5, EscrowAssumption
     DEF Approve, ledgerVars, contractVars, milestoneContract!MilestoneTypeOK,
         royaltyContract!RoyaltyTypeOK
<1> QED BY <1>1, <1>2, <1>3, <1>4, <1>5 DEF Fund

LEMMA WorkType ==
  ASSUME TypeOK, NEW c \in Callers, Work(c)
  PROVE  TypeOK'
<1> USE DEF TypeOK, LedgerTypeOK, escrowVars, MoneyUnchanged, ledgerVars,
            royaltyContract!RoyaltyTypeOK
<1> PICK newState \in Requests, endDate \in EndDates :
      \/ \E m \in Milestones : changeMilestoneState(c, m, newState, endDate)
      \/ \E s \in SubMilestones : changeSubMilestoneState(c, s, newState, endDate)
  BY DEF Work
<1>0. newState \in milestoneContract!MilestoneStatus /\ endDate \in Dates
  BY EscrowAssumption
<1>1. CASE \E m \in Milestones : changeMilestoneState(c, m, newState, endDate)
  <2>1. milestoneContract!MilestoneTypeOK'
    BY <1>0, <1>1, ChangeStateType DEF changeMilestoneState
  <2> QED BY <1>1, <2>1 DEF changeMilestoneState
<1>2. CASE \E s \in SubMilestones : changeSubMilestoneState(c, s, newState, endDate)
  <2>1. milestoneContract!MilestoneTypeOK'
    BY <1>0, <1>2, ChangeSubMilestoneStateType DEF changeSubMilestoneState
  <2> QED BY <1>2, <2>1 DEF changeSubMilestoneState
<1> QED BY <1>1, <1>2

LEMMA SettleType ==
  ASSUME TypeOK, NEW c \in Callers, Settle(c)
  PROVE  TypeOK'
<1> USE DEF TypeOK, LedgerTypeOK, escrowVars
<1>0. "milestone" \in Contracts /\ "royalty" \in Contracts
  BY DEF Contracts
<1>1. CASE payoutProject(c)
  <2>1. ledger' \in [Account -> Nat]
    BY <1>0, <1>1, PayMilestonesIsPayFrom, PayFromLedger DEF payoutProject
  <2>2. milestoneContract!MilestoneTypeOK'
    BY <1>1, PayoutType DEF payoutProject
  <2> QED BY <1>1, <2>1, <2>2 DEF payoutProject, royaltyContract!RoyaltyTypeOK
<1>2. CASE \E m \in Milestones : payoutMilestone(c, m)
  <2> PICK m \in Milestones : payoutMilestone(c, m)
    BY <1>2
  <2>1. ledger' \in [Account -> Nat]
    BY <1>0, PayMilestonesIsPayFrom, PayFromLedger DEF payoutMilestone
  <2>2. milestoneContract!MilestoneTypeOK'
    BY PayoutType DEF payoutMilestone
  <2> QED BY <2>1, <2>2 DEF payoutMilestone, royaltyContract!RoyaltyTypeOK
<1>3. CASE \E m \in Milestones : payoutMilestoneRoyalty(c, m)
  <2> PICK m \in Milestones : payoutMilestoneRoyalty(c, m)
    BY <1>3
  <2>1. ledger' \in [Account -> Nat]
    BY <1>0, PayRoyaltyIsPayFrom, PayFromLedger DEF payoutMilestoneRoyalty
  <2>2. royaltyContract!RoyaltyTypeOK'
    BY DEF payoutMilestoneRoyalty, royaltyContract!payMilestoneRoyalty,
           royaltyContract!RoyaltyTypeOK, royaltyContract!RoyaltyStatus
  <2> QED BY <2>1, <2>2 DEF payoutMilestoneRoyalty, milestoneContract!MilestoneTypeOK
<1>4. CASE \E m \in Milestones : releaseMilestoneRoyalty(c, m)
  <2> PICK m \in Milestones : releaseMilestoneRoyalty(c, m)
    BY <1>4
  <2>1. ledger' \in [Account -> Nat]
    BY <1>0, PayRoyaltyIsPayFrom, PayFromLedger DEF releaseMilestoneRoyalty
  <2>2. royaltyContract!RoyaltyTypeOK'
    BY DEF releaseMilestoneRoyalty, royaltyContract!forceClosePayout,
           royaltyContract!RoyaltyTypeOK, royaltyContract!RoyaltyStatus
  <2> QED BY <2>1, <2>2 DEF releaseMilestoneRoyalty, milestoneContract!MilestoneTypeOK
<1>5. CASE releaseFreeBalance(c)
  <2>1. ledger' \in [Account -> Nat]
    BY <1>5 DEF releaseFreeBalance, Account, Wallets, Contracts
  <2> QED BY <1>5, <2>1
          DEF releaseFreeBalance, contractVars, milestoneContract!MilestoneTypeOK,
              royaltyContract!RoyaltyTypeOK
<1> QED BY <1>1, <1>2, <1>3, <1>4, <1>5 DEF Settle

LEMMA EnvironmentType ==
  ASSUME TypeOK, Environment
  PROVE  TypeOK'
<1> USE DEF TypeOK, LedgerTypeOK, escrowVars, contractVars, Environment,
            milestoneContract!MilestoneTypeOK, royaltyContract!RoyaltyTypeOK
<1>1. CASE Tick
  BY <1>1, LedgerAssumption DEF Tick
<1>2. ASSUME NEW k \in Contracts, StakingReward(k)
      PROVE  TypeOK'
  BY <1>2, LedgerAssumption DEF StakingReward, Account
<1> QED BY <1>1, <1>2 DEF Contracts

LEMMA TypeNext == TypeOK /\ [Next]_vars => TypeOK'
<1> SUFFICES ASSUME TypeOK, [Next]_vars PROVE TypeOK'
  OBVIOUS
<1>1. CASE Next
  BY <1>1, ManageType, FundingType, WorkType, SettleType, EnvironmentType DEF Next
<1>2. CASE UNCHANGED vars
  BY <1>2 DEF vars, ledgerVars, contractVars, escrowVars, TypeOK, LedgerTypeOK,
              milestoneContract!MilestoneTypeOK, royaltyContract!RoyaltyTypeOK
<1> QED BY <1>1, <1>2

\* Balances are never negative, counters never pass their limits, and every
\* field keeps its type, for any plan of milestones.
THEOREM TypeCorrect == Spec => []TypeOK
  BY TypeInit, TypeNext, PTL DEF Spec

-----------------------------------------------------------------------------
(* The promise: what each group of transactions means for PaymentPromise.  *)

\* A state change of any kind pays nobody: payoutStatus stays as it is.
LEMMA ChangedKeepsPayout ==
  ASSUME NEW data \in milestoneContract!MilestoneData, NEW newState, NEW endDate
  PROVE  milestoneContract!Changed(data, newState, endDate).payoutStatus
           = data.payoutStatus
<1>1. CASE newState = "REWORK"
  BY <1>1 DEF milestoneContract!Changed, milestoneContract!MilestoneData
<1>2. CASE newState # "REWORK"
  BY <1>2 DEF milestoneContract!Changed, milestoneContract!MilestoneData
<1> QED BY <1>1, <1>2

LEMMA ChangeStateKeepsPaid ==
  ASSUME TypeOK, NEW m, NEW newState, NEW endDate,
         milestoneContract!changeState(m, newState, endDate)
  PROVE  Paid' = Paid /\ milestoneIds' = milestoneIds
  BY ChangedKeepsPayout
     DEF TypeOK, milestoneContract!MilestoneTypeOK, milestoneContract!changeState,
         Paid, milestoneContract!Paid

LEMMA FundKeepsPaid ==
  ASSUME TypeOK, NEW ms, milestoneContract!fund(ms)
  PROVE  Paid' = Paid /\ milestoneIds' = milestoneIds
  BY ChangedKeepsPayout
     DEF TypeOK, milestoneContract!MilestoneTypeOK, milestoneContract!fund,
         Paid, milestoneContract!Paid

LEMMA PayoutPays ==
  ASSUME TypeOK, NEW ms \in SUBSET Milestones, milestoneContract!payout(ms)
  PROVE  /\ ms \subseteq milestoneIds \ Paid
         /\ Paid' = Paid \cup ms
         /\ milestoneIds' = milestoneIds
  BY DEF TypeOK, milestoneContract!MilestoneTypeOK, milestoneContract!MilestoneData,
         milestoneContract!payout, milestoneContract!Payable, Paid,
         milestoneContract!Paid

\* What the abstract state is made of.
promiseState == <<milestoneIds, Paid, Settled, ledger["milestone"],
                  ledger["royalty"], ledger["escrow"]>>

LEMMA ManagePromise ==
  ASSUME TypeOK, NEW c \in Callers, Manage(c)
  PROVE  /\ Paid' = Paid /\ Settled' = Settled
         /\ promise!Agree
<1> USE DEF promise!Agree, Paid, milestoneContract!Paid, Settled
<1>1. CASE \E newOwner \in NewOwners : transferOwnership(c, newOwner)
  BY <1>1 DEF transferOwnership, ledgerVars, contractVars
<1>2. CASE \E fee \in Fees : updateFeeDetails(c, fee)
  BY <1>2 DEF updateFeeDetails, contractVars
<1>3. CASE \E ids \in SUBSET Milestones \ {{}} : addMilestones(c, ids)
  <2> PICK ids \in SUBSET Milestones : addMilestones(c, ids)
    BY <1>3
  <2>1. \A m \in ids : m \notin milestoneIds /\ royalties[m] = "NONE"
    BY DEF addMilestones
  <2>2. Paid' = Paid
    BY <2>1 DEF addMilestones, milestoneContract!addMilestones,
                milestoneContract!Added, TypeOK, milestoneContract!MilestoneTypeOK
  <2>3. Settled' = Settled
    BY <2>1 DEF addMilestones, royaltyContract!addMilestoneRoyalties
  <2>4. milestoneIds \subseteq milestoneIds' /\ UNCHANGED ledger
    BY DEF addMilestones, milestoneContract!addMilestones, MoneyUnchanged, ledgerVars
  <2> QED BY <2>2, <2>3, <2>4
<1>4. CASE \E m \in Milestones, ids \in SUBSET SubMilestones \ {{}} :
             addSubMilestones(c, m, ids)
  BY <1>4 DEF addSubMilestones, milestoneContract!addSubMilestones,
              MoneyUnchanged, ledgerVars
<1> QED BY <1>1, <1>2, <1>3, <1>4 DEF Manage

LEMMA FundPromise ==
  ASSUME TypeOK, NEW c \in Callers, Fund(c)
  PROVE  /\ Paid' = Paid /\ Settled' = Settled
         /\ promise!Deposit
<1>0. /\ "milestone" \in Contracts /\ "royalty" \in Contracts /\ "escrow" \in Contracts
      /\ ledger \in [Account -> Nat]
  BY DEF Contracts, TypeOK, LedgerTypeOK
<1>1. CASE fundProject(c)
  BY <1>0, <1>1, FundKeepsPaid, FundLedger
     DEF fundProject, promise!Deposit, Settled, escrowVars
<1>2. CASE fundUsdcToProject(c)
  BY <1>0, <1>2, FundKeepsPaid, FundLedger
     DEF fundUsdcToProject, FundInTokens, promise!Deposit, Settled
<1>3. CASE \E m \in Milestones, surplus \in Surplus : fundMilestone(c, m, surplus)
  BY <1>0, <1>3, ChangeStateKeepsPaid, FundLedger
     DEF fundMilestone, promise!Deposit, Settled
<1>4. CASE \E m \in Milestones : fundUsdcToMilestone(c, m)
  BY <1>0, <1>4, ChangeStateKeepsPaid, FundLedger
     DEF fundUsdcToMilestone, FundInTokens, promise!Deposit, Settled
<1>5. CASE \E amount \in Allowances : Approve(c, amount)
  <2>1. UNCHANGED <<ledger, milestoneIds, Paid, Settled>>
    BY <1>5 DEF Approve, ledgerVars, contractVars, Paid, milestoneContract!Paid, Settled
  <2>2. Contracts \subseteq Account
    BY DEF Account
  <2> QED BY <1>0, <2>1, <2>2 DEF promise!Deposit
<1> QED BY <1>1, <1>2, <1>3, <1>4, <1>5 DEF Fund

LEMMA WorkPromise ==
  ASSUME TypeOK, NEW c \in Callers, Work(c)
  PROVE  UNCHANGED promiseState
<1> PICK newState \in Requests, endDate \in EndDates :
      \/ \E m \in Milestones : changeMilestoneState(c, m, newState, endDate)
      \/ \E s \in SubMilestones : changeSubMilestoneState(c, s, newState, endDate)
  BY DEF Work
<1>1. CASE \E m \in Milestones : changeMilestoneState(c, m, newState, endDate)
  BY <1>1, ChangeStateKeepsPaid
     DEF changeMilestoneState, promiseState, MoneyUnchanged, ledgerVars, Settled
<1>2. CASE \E s \in SubMilestones : changeSubMilestoneState(c, s, newState, endDate)
  BY <1>2 DEF changeSubMilestoneState, milestoneContract!changeSubMilestoneState,
              promiseState, MoneyUnchanged, ledgerVars, Settled, Paid,
              milestoneContract!Paid
<1> QED BY <1>1, <1>2

\* Every settlement is a step of the promise, and pays before it settles.
LEMMA SettlePromise ==
  ASSUME TypeOK, NEW c \in Callers, Settle(c)
  PROVE  /\ Paid \subseteq Paid'
         /\ Settled' \subseteq Settled \cup Paid
         /\ promise!Next
<1>0. /\ "milestone" \in Contracts /\ "royalty" \in Contracts /\ "escrow" \in Contracts
      /\ ledger \in [Account -> Nat] /\ moFeePercent \in Nat
      /\ milestoneIds \in SUBSET Milestones
      /\ royalties \in [Milestones -> royaltyContract!RoyaltyStatus \cup {"NONE"}]
  BY DEF Contracts, TypeOK, LedgerTypeOK, milestoneContract!MilestoneTypeOK,
         royaltyContract!RoyaltyTypeOK
<1>1. CASE payoutProject(c)
  <2>1. promise!Pay(milestoneIds) /\ Paid \subseteq Paid' /\ Settled' = Settled
    BY <1>0, <1>1, PayoutPays, PayMilestonesIsPayFrom, PayFromLedger
       DEF payoutProject, promise!Pay, Settled
  <2> QED BY <1>0, <2>1 DEF promise!Next
<1>2. CASE \E m \in Milestones : payoutMilestone(c, m)
  <2> PICK m \in Milestones : payoutMilestone(c, m)
    BY <1>2
  <2>1. {m} \in SUBSET Milestones
    OBVIOUS
  <2>2. promise!Pay({m}) /\ Paid \subseteq Paid' /\ Settled' = Settled
    BY <1>0, <2>1, PayoutPays, PayMilestonesIsPayFrom, PayFromLedger
       DEF payoutMilestone, promise!Pay, Settled
  <2> QED BY <2>1, <2>2 DEF promise!Next
<1>3. CASE \E m \in Milestones : payoutMilestoneRoyalty(c, m)
  <2> PICK m \in Milestones : payoutMilestoneRoyalty(c, m)
    BY <1>3
  <2>1. Settled' = Settled \cup {m} /\ m \in Paid \ Settled
    BY <1>0 DEF payoutMilestoneRoyalty, royaltyContract!payMilestoneRoyalty, Settled
  <2>2. UNCHANGED <<milestoneIds, Paid>>
    BY DEF payoutMilestoneRoyalty, Paid, milestoneContract!Paid
  <2>3. promise!SettleRoyalty(m)
    BY <1>0, <2>1, <2>2, PayRoyaltyIsPayFrom, PayFromLedger
       DEF payoutMilestoneRoyalty, promise!SettleRoyalty
  <2> QED BY <2>1, <2>2, <2>3 DEF promise!Next
<1>4. CASE \E m \in Milestones : releaseMilestoneRoyalty(c, m)
  <2> PICK m \in Milestones : releaseMilestoneRoyalty(c, m)
    BY <1>4
  <2>1. Settled' = Settled \cup {m} /\ m \in Paid \ Settled
    BY <1>0 DEF releaseMilestoneRoyalty, royaltyContract!forceClosePayout, Settled
  <2>2. UNCHANGED <<milestoneIds, Paid>>
    BY DEF releaseMilestoneRoyalty, Paid, milestoneContract!Paid
  <2>3. promise!SettleRoyalty(m)
    BY <1>0, <2>1, <2>2, PayRoyaltyIsPayFrom, PayFromLedger
       DEF releaseMilestoneRoyalty, promise!SettleRoyalty
  <2> QED BY <2>1, <2>2, <2>3 DEF promise!Next
<1>5. CASE releaseFreeBalance(c)
  <2>1. UNCHANGED <<milestoneIds, Paid, Settled>> /\ milestoneIds \subseteq Paid
    BY <1>5 DEF releaseFreeBalance, contractVars, Paid, milestoneContract!Paid, Settled,
                milestoneContract!AllMilestonesPaidOut
  <2>2. /\ ledger'["escrow"] = 0
        /\ UNCHANGED <<ledger["milestone"], ledger["royalty"]>>
    BY <1>0, <1>5 DEF releaseFreeBalance, Account, Contracts, Wallets
  <2> QED BY <2>1, <2>2 DEF promise!Next, promise!ReturnExcess
<1> QED BY <1>1, <1>2, <1>3, <1>4, <1>5 DEF Settle

LEMMA EnvironmentPromise ==
  ASSUME TypeOK, Environment
  PROVE  /\ Paid' = Paid /\ Settled' = Settled
         /\ promise!Deposit
<1>1. UNCHANGED <<milestoneIds, Paid, Settled>>
  BY DEF Environment, contractVars, Paid, milestoneContract!Paid, Settled
<1>2. \A k \in Contracts : ledger'[k] >= ledger[k]
  BY DEF Environment, Tick, StakingReward, TypeOK, LedgerTypeOK, Account, Contracts
<1> QED BY <1>1, <1>2 DEF promise!Deposit, Contracts

\* The royalty of a milestone is settled only after the milestone was paid.
THEOREM RoyaltyWaitsForPayout == Spec => []RoyaltyAfterPayout
<1>1. Init => RoyaltyAfterPayout
  BY DEF Init, royaltyContract!RoyaltyInit, RoyaltyAfterPayout, Settled
<1>2. TypeOK /\ RoyaltyAfterPayout /\ [Next]_vars => RoyaltyAfterPayout'
  <2> SUFFICES ASSUME TypeOK, RoyaltyAfterPayout, [Next]_vars
               PROVE  RoyaltyAfterPayout'
    OBVIOUS
  <2>1. CASE \E c \in Callers : Manage(c) \/ Fund(c) \/ Work(c) \/ Settle(c)
    BY <2>1, ManagePromise, FundPromise, WorkPromise, SettlePromise
       DEF RoyaltyAfterPayout, promiseState
  <2>2. CASE Environment
    BY <2>2, EnvironmentPromise DEF RoyaltyAfterPayout
  <2>3. CASE UNCHANGED vars
    BY <2>3 DEF RoyaltyAfterPayout, Settled, Paid, milestoneContract!Paid, vars,
                contractVars
  <2> QED BY <2>1, <2>2, <2>3 DEF Next
<1> QED BY <1>1, <1>2, TypeCorrect, PTL DEF Spec

\* The three contracts implement PaymentPromise.
THEOREM EscrowKeepsPromise == Spec => KeepsPromise
<1>1. Init => promise!Init
  BY DEF Init, LedgerInit, milestoneContract!MilestoneInit, royaltyContract!RoyaltyInit,
         promise!Init, Paid, milestoneContract!Paid, Settled, Account, Contracts, Wallets
<1>2. TypeOK /\ [Next]_vars => [promise!Next]_(promise!promiseVars)
  <2> SUFFICES ASSUME TypeOK, [Next]_vars
               PROVE  promise!Next \/ UNCHANGED promise!promiseVars
    OBVIOUS
  <2>1. CASE \E c \in Callers : Manage(c) \/ Fund(c) \/ Work(c) \/ Settle(c)
    BY <2>1, ManagePromise, FundPromise, WorkPromise, SettlePromise
       DEF promise!Next, promise!promiseVars, promiseState
  <2>2. CASE Environment
    BY <2>2, EnvironmentPromise DEF promise!Next
  <2>3. CASE UNCHANGED vars
    BY <2>3 DEF promise!promiseVars, Settled, Paid, milestoneContract!Paid, vars,
                contractVars, ledgerVars
  <2> QED BY <2>1, <2>2, <2>3 DEF Next
<1> QED BY <1>1, <1>2, TypeCorrect, PTL DEF Spec, KeepsPromise, promise!Spec

\* In a project paid as a whole, no step pays some milestones and not others.
THEOREM ProjectIsPaidAsAWhole == Spec => ProjectPaidAsAWhole
<1> DEFINE Whole == fundTransferType = "PROJECT_COMPLETE" /\ Paid' # Paid
                      => Paid = {} /\ Paid' = milestoneIds
<1>1. TypeOK /\ [Next]_vars => Whole
  <2> SUFFICES ASSUME TypeOK, [Next]_vars, fundTransferType = "PROJECT_COMPLETE",
                      Paid' # Paid
               PROVE  Paid = {} /\ Paid' = milestoneIds
    OBVIOUS
  <2>1. PICK c \in Callers : Settle(c)
    <3>1. CASE UNCHANGED vars
      BY <3>1 DEF Paid, milestoneContract!Paid, vars, contractVars
    <3> QED BY <3>1, ManagePromise, FundPromise, WorkPromise, EnvironmentPromise
            DEF Next, promiseState
  <2>2. payoutProject(c)
    <3>1. ASSUME NEW m \in Milestones, payoutMilestone(c, m)
          PROVE  FALSE
      BY <3>1 DEF payoutMilestone
    <3>2. ASSUME NEW m \in Milestones,
                 payoutMilestoneRoyalty(c, m) \/ releaseMilestoneRoyalty(c, m)
          PROVE  FALSE
      BY <3>2 DEF payoutMilestoneRoyalty, releaseMilestoneRoyalty, Paid,
                  milestoneContract!Paid
    <3>3. CASE releaseFreeBalance(c)
      BY <3>3 DEF releaseFreeBalance, contractVars, Paid, milestoneContract!Paid
    <3> QED BY <2>1, <3>1, <3>2, <3>3 DEF Settle
  <2>3. milestoneIds \in SUBSET Milestones /\ Paid \subseteq milestoneIds
    BY DEF TypeOK, milestoneContract!MilestoneTypeOK, Paid, milestoneContract!Paid
  <2>4. milestoneContract!payout(milestoneIds)
    BY <2>2 DEF payoutProject
  <2> QED BY <2>3, <2>4, PayoutPays
<1> QED BY <1>1, TypeCorrect, PTL DEF Spec, ProjectPaidAsAWhole

-----------------------------------------------------------------------------
(* Deadlines.  What DeadlineMovedByRevision says of one item, as a relation *)
(* between its record and its plan, so that one lemma serves milestones     *)
(* and sub-milestones.                                                      *)

KeepsDeadline(data, i) ==
  /\ data.revisionCounter <= noOfRevision[i]
  /\ data.revisionCounter = 0 => data.endDate = plannedEndDate[i]

LEMMA AddedKeepsDeadline ==
  ASSUME NEW i \in Items, NEW state
  PROVE  KeepsDeadline(milestoneContract!Added(i, state), i)
  BY PlanAssumption DEF KeepsDeadline, milestoneContract!Added

LEMMA ChangedKeepsDeadline ==
  ASSUME NEW i \in Items, NEW data \in milestoneContract!MilestoneData,
         NEW newState, NEW endDate, KeepsDeadline(data, i),
         newState = "REWORK" => data.revisionCounter < noOfRevision[i]
  PROVE  KeepsDeadline(milestoneContract!Changed(data, newState, endDate), i)
<1>1. noOfRevision[i] \in Nat /\ data.revisionCounter \in Nat
  BY PlanAssumption DEF milestoneContract!MilestoneData
<1>2. CASE newState = "REWORK"
  BY <1>1, <1>2 DEF KeepsDeadline, milestoneContract!Changed, milestoneContract!MilestoneData
<1>3. CASE newState # "REWORK"
  BY <1>3 DEF KeepsDeadline, milestoneContract!Changed, milestoneContract!MilestoneData
<1> QED BY <1>2, <1>3

\* The property, put in terms of KeepsDeadline.
LEMMA DeadlineByItem ==
  DeadlineMovedByRevision <=>
    /\ \A m \in milestoneIds : KeepsDeadline(milestones[m], m)
    /\ \A s \in subMilestoneIds : KeepsDeadline(subMilestones[s], s)
  BY DEF DeadlineMovedByRevision, KeepsDeadline

LEMMA DeadlineByItemNext ==
  DeadlineMovedByRevision' <=>
    /\ \A m \in milestoneIds' : KeepsDeadline(milestones'[m], m)
    /\ \A s \in subMilestoneIds' : KeepsDeadline(subMilestones'[s], s)
  BY DEF DeadlineMovedByRevision, KeepsDeadline

LEMMA FundSubMilestonesKeepsDeadlines ==
  ASSUME TypeOK, DeadlineMovedByRevision, NEW ms,
         milestoneContract!FundSubMilestonesOf(ms)
  PROVE  \A s \in subMilestoneIds : KeepsDeadline(subMilestones'[s], s)
<1> SUFFICES ASSUME NEW s \in subMilestoneIds
             PROVE  KeepsDeadline(subMilestones'[s], s)
  OBVIOUS
<1>1. /\ s \in SubMilestones
      /\ subMilestones[s] \in milestoneContract!MilestoneData
      /\ KeepsDeadline(subMilestones[s], s)
  BY DeadlineByItem DEF TypeOK, milestoneContract!MilestoneTypeOK
<1>2. \/ subMilestones'[s] = subMilestones[s]
      \/ subMilestones'[s] = [subMilestones[s] EXCEPT !.state = "FUNDED"]
  BY <1>1 DEF milestoneContract!FundSubMilestonesOf
<1> QED BY <1>1, <1>2 DEF KeepsDeadline, milestoneContract!MilestoneData

LEMMA ChangeStateKeepsDeadlines ==
  ASSUME TypeOK, DeadlineMovedByRevision, NEW k, NEW newState, NEW endDate,
         milestoneContract!changeState(k, newState, endDate)
  PROVE  DeadlineMovedByRevision'
<1>1. \A s \in subMilestoneIds : KeepsDeadline(subMilestones'[s], s)
  BY FundSubMilestonesKeepsDeadlines, DeadlineByItem
     DEF milestoneContract!changeState
<1>2. \A m \in milestoneIds : KeepsDeadline(milestones'[m], m)
  BY DeadlineByItem, ChangedKeepsDeadline
     DEF milestoneContract!changeState, milestoneContract!RevisionLeft, TypeOK,
         milestoneContract!MilestoneTypeOK, Items
<1> QED BY <1>1, <1>2, DeadlineByItemNext DEF milestoneContract!changeState

LEMMA FundKeepsDeadlines ==
  ASSUME TypeOK, DeadlineMovedByRevision, NEW ms, milestoneContract!fund(ms)
  PROVE  DeadlineMovedByRevision'
<1>1. \A s \in subMilestoneIds : KeepsDeadline(subMilestones'[s], s)
  BY FundSubMilestonesKeepsDeadlines DEF milestoneContract!fund
<1>2. \A m \in milestoneIds : KeepsDeadline(milestones'[m], m)
  BY DeadlineByItem, ChangedKeepsDeadline
     DEF milestoneContract!fund, TypeOK, milestoneContract!MilestoneTypeOK, Items
<1> QED BY <1>1, <1>2, DeadlineByItemNext DEF milestoneContract!fund

LEMMA ChangeSubMilestoneStateKeepsDeadlines ==
  ASSUME TypeOK, DeadlineMovedByRevision, NEW k, NEW newState, NEW endDate,
         milestoneContract!changeSubMilestoneState(k, newState, endDate)
  PROVE  DeadlineMovedByRevision'
<1>1. \A s \in subMilestoneIds : KeepsDeadline(subMilestones'[s], s)
  BY DeadlineByItem, ChangedKeepsDeadline
     DEF milestoneContract!changeSubMilestoneState, milestoneContract!RevisionLeft,
         TypeOK, milestoneContract!MilestoneTypeOK, Items
<1> QED BY <1>1, DeadlineByItem, DeadlineByItemNext
        DEF milestoneContract!changeSubMilestoneState

LEMMA PayoutKeepsDeadlines ==
  ASSUME TypeOK, DeadlineMovedByRevision, NEW ms, milestoneContract!payout(ms)
  PROVE  DeadlineMovedByRevision'
<1>1. \A m \in milestoneIds : KeepsDeadline(milestones'[m], m)
  <2> SUFFICES ASSUME NEW m \in milestoneIds
               PROVE  KeepsDeadline(milestones'[m], m)
    OBVIOUS
  <2>1. /\ m \in Milestones
        /\ milestones[m] \in milestoneContract!MilestoneData
        /\ KeepsDeadline(milestones[m], m)
    BY DeadlineByItem DEF TypeOK, milestoneContract!MilestoneTypeOK
  <2>2. \/ milestones'[m] = milestones[m]
        \/ milestones'[m] = [milestones[m] EXCEPT !.payoutStatus = TRUE]
    BY <2>1 DEF milestoneContract!payout
  <2> QED BY <2>1, <2>2 DEF KeepsDeadline, milestoneContract!MilestoneData
<1> QED BY <1>1, DeadlineByItem, DeadlineByItemNext DEF milestoneContract!payout

\* Deadlines move only against a revision, and revisions never run over.
THEOREM DeadlinesMoveByRevision == Spec => []DeadlineMovedByRevision
<1>1. Init => DeadlineMovedByRevision
  BY DEF Init, milestoneContract!MilestoneInit, DeadlineMovedByRevision
<1>2. TypeOK /\ DeadlineMovedByRevision /\ [Next]_vars => DeadlineMovedByRevision'
  <2> SUFFICES ASSUME TypeOK, DeadlineMovedByRevision, [Next]_vars
               PROVE  DeadlineMovedByRevision'
    OBVIOUS
  <2>1. CASE UNCHANGED <<milestoneIds, subMilestoneIds, milestones, subMilestones>>
    BY <2>1 DEF DeadlineMovedByRevision
  <2>2. ASSUME NEW c \in Callers, NEW ids \in SUBSET Milestones, addMilestones(c, ids)
        PROVE  DeadlineMovedByRevision'
    BY <2>2, DeadlineByItem, DeadlineByItemNext, AddedKeepsDeadline
       DEF addMilestones, milestoneContract!addMilestones, TypeOK,
           milestoneContract!MilestoneTypeOK, Items
  <2>3. ASSUME NEW c \in Callers, NEW m, NEW ids \in SUBSET SubMilestones,
               addSubMilestones(c, m, ids)
        PROVE  DeadlineMovedByRevision'
    BY <2>3, DeadlineByItem, DeadlineByItemNext, AddedKeepsDeadline
       DEF addSubMilestones, milestoneContract!addSubMilestones, TypeOK,
           milestoneContract!MilestoneTypeOK, Items
  <2>4. ASSUME NEW c \in Callers, Manage(c)
        PROVE  DeadlineMovedByRevision'
    BY <2>1, <2>2, <2>3, <2>4
       DEF Manage, transferOwnership, updateFeeDetails, contractVars
  <2>5. ASSUME NEW c \in Callers, Fund(c)
        PROVE  DeadlineMovedByRevision'
    BY <2>1, <2>5, FundKeepsDeadlines, ChangeStateKeepsDeadlines
       DEF Fund, fundProject, fundUsdcToProject, fundMilestone, fundUsdcToMilestone,
           Approve, contractVars
  <2>6. ASSUME NEW c \in Callers, Work(c)
        PROVE  DeadlineMovedByRevision'
    BY <2>6, ChangeStateKeepsDeadlines, ChangeSubMilestoneStateKeepsDeadlines
       DEF Work, changeMilestoneState, changeSubMilestoneState
  <2>7. ASSUME NEW c \in Callers, Settle(c)
        PROVE  DeadlineMovedByRevision'
    BY <2>1, <2>7, PayoutKeepsDeadlines
       DEF Settle, payoutProject, payoutMilestone, payoutMilestoneRoyalty,
           releaseMilestoneRoyalty, releaseFreeBalance, contractVars
  <2>8. CASE Environment \/ UNCHANGED vars
    BY <2>1, <2>8 DEF Environment, vars, contractVars
  <2> QED BY <2>4, <2>5, <2>6, <2>7, <2>8 DEF Next
<1> QED BY <1>1, <1>2, TypeCorrect, PTL DEF Spec

-----------------------------------------------------------------------------
(* Sums of the contracts: SumOver is the Sum of module Sums.               *)

LEMMA SumOverIsSum ==
  \A f, S : SumOver(f, S) = Sum(f, S) /\ milestoneContract!SumOver(f, S) = Sum(f, S)
  BY DEF SumOver, milestoneContract!SumOver, Sum, MapThenSumSet, MapThenFoldSet,
         milestoneContract!MapThenSumSet, milestoneContract!MapThenFoldSet

LEMMA ItemsFinite == \A S : S \subseteq Items => IsFiniteSet(S)
  BY PlanAssumption, FS_Subset

-----------------------------------------------------------------------------
(* The counters of what was allocated.                                     *)

LEMMA AmountsNat ==
  /\ \A i \in Items : fundAllocated[i] \in Nat
  /\ \A m \in Milestones : royaltyAmount[m] \in Nat
  /\ Milestones \subseteq Items /\ SubMilestones \subseteq Items
  BY PlanAssumption DEF Items

\* Adding items that were not there adds their amounts.
LEMMA SumAdded ==
  ASSUME NEW amount, NEW S, NEW T, S \subseteq Items, T \subseteq Items, S \cap T = {},
         \A i \in S \cup T : amount[i] \in Nat
  PROVE  /\ SumOver(amount, S \cup T) = SumOver(amount, S) + SumOver(amount, T)
         /\ SumOver(amount, S) \in Nat /\ SumOver(amount, T) \in Nat
<1>1. IsFiniteSet(S) /\ IsFiniteSet(T)
  BY ItemsFinite
<1>2. Sum(amount, S \cup T) = Sum(amount, S) + Sum(amount, T)
  BY <1>1, SumUnion
<1>3. Sum(amount, S) \in Nat /\ Sum(amount, T) \in Nat
  BY <1>1, SumNat
<1>4. QED
  BY <1>2, <1>3, SumOverIsSum

\* The property in terms of Sum, before and after a step.
LEMMA AllocationBySum ==
  AllocationExact <=>
    /\ currentFundAllocated = Sum(fundAllocated, milestoneIds)
                                + Sum(royaltyAmount, milestoneIds)
    /\ \A m \in Milestones :
         currMilestoneFund[m] = Sum(fundAllocated, {s \in subMilestoneIds : Parent[s] = m})
  BY DEF AllocationExact, milestoneContract!SubMilestonesOf,
         SumOver, milestoneContract!SumOver, milestoneContract!MapThenSumSet,
         milestoneContract!MapThenFoldSet, Sum, MapThenSumSet, MapThenFoldSet

LEMMA AllocationBySumNext ==
  AllocationExact' <=>
    /\ currentFundAllocated' = Sum(fundAllocated, milestoneIds')
                                 + Sum(royaltyAmount, milestoneIds')
    /\ \A m \in Milestones :
         currMilestoneFund'[m] = Sum(fundAllocated, {s \in subMilestoneIds' : Parent[s] = m})
  BY DEF AllocationExact, milestoneContract!SubMilestonesOf,
         SumOver, milestoneContract!SumOver, milestoneContract!MapThenSumSet,
         milestoneContract!MapThenFoldSet, Sum, MapThenSumSet, MapThenFoldSet

LEMMA AddMilestonesExact ==
  ASSUME TypeOK, AllocationExact, NEW c, NEW ids \in SUBSET Milestones,
         addMilestones(c, ids)
  PROVE  AllocationExact'
<1> USE AmountsNat
<1>1. milestoneIds \subseteq Milestones /\ milestoneIds \cap ids = {}
  BY DEF TypeOK, milestoneContract!MilestoneTypeOK, addMilestones
<1>2. milestoneIds' = milestoneIds \cup ids /\ UNCHANGED <<subMilestoneIds, currMilestoneFund>>
  BY DEF addMilestones, milestoneContract!addMilestones
<1> DEFINE a == SumOver(fundAllocated, milestoneIds)
           b == SumOver(royaltyAmount, milestoneIds)
           x == SumOver(fundAllocated, ids)
           y == SumOver(royaltyAmount, ids)
<1>3. /\ SumOver(fundAllocated, milestoneIds \cup ids) = a + x
      /\ a \in Nat /\ x \in Nat
  BY <1>1, SumAdded
<1>4. /\ SumOver(royaltyAmount, milestoneIds \cup ids) = b + y
      /\ b \in Nat /\ y \in Nat
  BY <1>1, SumAdded
<1>5. currentFundAllocated' = currentFundAllocated + (x + y)
  BY DEF addMilestones
<1>6. currentFundAllocated = a + b
  BY DEF AllocationExact
<1> HIDE DEF a, b, x, y
<1>7. currentFundAllocated' = (a + x) + (b + y)
  BY <1>3, <1>4, <1>5, <1>6
<1>8. currentFundAllocated' = SumOver(fundAllocated, milestoneIds')
                                + SumOver(royaltyAmount, milestoneIds')
  BY <1>2, <1>3, <1>4, <1>7
<1>9. QED
  BY <1>2, <1>8, AllocationBySum, AllocationBySumNext, SumOverIsSum

LEMMA AddSubMilestonesExact ==
  ASSUME TypeOK, AllocationExact, NEW c, NEW m \in Milestones,
         NEW ids \in SUBSET SubMilestones, addSubMilestones(c, m, ids)
  PROVE  AllocationExact'
<1> USE AmountsNat
<1> DEFINE of(k) == milestoneContract!SubMilestonesOf(k)
           new(k) == {s \in subMilestoneIds' : Parent[s] = k}
<1>1. subMilestoneIds' = subMilestoneIds \cup ids /\ UNCHANGED <<milestoneIds, currentFundAllocated>>
  BY DEF addSubMilestones, milestoneContract!addSubMilestones
<1>2. subMilestoneIds \subseteq SubMilestones /\ \A s \in ids : s \notin subMilestoneIds /\ Parent[s] = m
  BY DEF TypeOK, milestoneContract!MilestoneTypeOK, addSubMilestones
<1>3. new(m) = of(m) \cup ids /\ of(m) \cap ids = {} /\ of(m) \subseteq Items
  BY <1>1, <1>2 DEF milestoneContract!SubMilestonesOf
<1>4. \A k \in Milestones : k # m => new(k) = of(k)
  BY <1>1, <1>2 DEF milestoneContract!SubMilestonesOf
<1>5. SumOver(fundAllocated, new(m)) = SumOver(fundAllocated, of(m)) + SumOver(fundAllocated, ids)
  <2> HIDE DEF of, new
  <2>1. ids \subseteq Items
    OBVIOUS
  <2>2. \A i \in of(m) \cup ids : fundAllocated[i] \in Nat
    BY <1>3, <2>1
  <2>3. QED
    BY <1>3, <2>1, <2>2, SumAdded
<1>6. currMilestoneFund' = [currMilestoneFund EXCEPT
                              ![m] = currMilestoneFund[m] + SumOver(fundAllocated, ids)]
  BY DEF addSubMilestones
<1>7. currMilestoneFund \in [Milestones -> Nat]
  BY DEF TypeOK
<1>8. \A k \in Milestones : currMilestoneFund[k] = SumOver(fundAllocated, of(k))
  BY DEF AllocationExact
<1>9. \A k \in Milestones : currMilestoneFund'[k] = SumOver(fundAllocated, new(k))
  <2> HIDE DEF of, new
  <2>1. QED
    BY <1>4, <1>5, <1>6, <1>7, <1>8
<1>10. QED
  BY <1>1, <1>9, AllocationBySum, AllocationBySumNext, SumOverIsSum

\* What the limits are checked against is what the contracts hold.
THEOREM AllocationIsExact == Spec => []AllocationExact
<1>1. Init => AllocationExact
  <2> SUFFICES ASSUME Init PROVE AllocationExact
    OBVIOUS
  <2>1. \A f : SumOver(f, {}) = 0
    BY SumEmpty, SumOverIsSum
  <2>2. milestoneIds = {} /\ \A m : milestoneContract!SubMilestonesOf(m) = {}
    BY DEF Init, milestoneContract!MilestoneInit, milestoneContract!SubMilestonesOf
  <2>3. QED
    BY <2>1, <2>2 DEF Init, AllocationExact
<1>2. TypeOK /\ AllocationExact /\ [Next]_vars => AllocationExact'
  <2> SUFFICES ASSUME TypeOK, AllocationExact, [Next]_vars PROVE AllocationExact'
    OBVIOUS
  <2>1. CASE UNCHANGED <<milestoneIds, subMilestoneIds, currentFundAllocated, currMilestoneFund>>
    BY <2>1, AllocationBySum, AllocationBySumNext
  <2>2. ASSUME NEW c \in Callers, Manage(c)
        PROVE  AllocationExact'
    BY <2>1, <2>2, AddMilestonesExact, AddSubMilestonesExact
       DEF Manage, transferOwnership, updateFeeDetails, contractVars, escrowVars
  <2>3. ASSUME NEW c \in Callers, Fund(c)
        PROVE  AllocationExact'
    BY <2>1, <2>3
       DEF Fund, fundProject, fundUsdcToProject, fundMilestone, fundUsdcToMilestone,
           FundInTokens, Approve, contractVars, escrowVars, milestoneContract!fund,
           milestoneContract!changeState
  <2>4. ASSUME NEW c \in Callers, Work(c)
        PROVE  AllocationExact'
    BY <2>1, <2>4
       DEF Work, changeMilestoneState, changeSubMilestoneState, escrowVars,
           milestoneContract!changeState, milestoneContract!changeSubMilestoneState
  <2>5. ASSUME NEW c \in Callers, Settle(c)
        PROVE  AllocationExact'
    BY <2>1, <2>5
       DEF Settle, payoutProject, payoutMilestone, payoutMilestoneRoyalty,
           releaseMilestoneRoyalty, releaseFreeBalance, contractVars, escrowVars,
           milestoneContract!payout
  <2>6. CASE Environment \/ UNCHANGED vars
    BY <2>1, <2>6 DEF Environment, vars, contractVars, escrowVars
  <2>7. QED
    BY <2>2, <2>3, <2>4, <2>5, <2>6 DEF Next
<1>3. QED
  BY <1>1, <1>2, TypeCorrect, PTL DEF Spec

-----------------------------------------------------------------------------
(* What a payout hands out.                                                *)

LEMMA FeeNat ==
  ASSUME moFeePercent \in Nat, NEW amount \in Nat
  PROVE  Fee(amount) \in Nat /\ LessFee(amount) \in Int /\ LessFee(amount) <= amount
<1>1. WholePercent \in Nat
  BY DEF WholePercent
<1> DEFINE p == amount * WholePercent
<1>2. p \in Nat
  BY <1>1, ProductNat
<1> HIDE DEF p
<1>3. p \div 100 \in Nat
  BY <1>2
<1>4. Fee(amount) \in Nat
  BY <1>3 DEF Fee, p
<1>5. QED
  BY <1>4 DEF LessFee

\* Truncating the fees of two parts loses at most one unit.
LEMMA FeeOfTwo ==
  ASSUME moFeePercent \in Nat, NEW a \in Nat, NEW b \in Nat
  PROVE  Fee(a + b) <= Fee(a) + Fee(b) + 1
<1>1. WholePercent \in Nat
  BY DEF WholePercent
<1> DEFINE w == WholePercent
           p == a * w
           q == b * w
<1>2. (a + b) * w = p + q
  BY <1>1
<1>3. p \in Nat /\ q \in Nat
  BY <1>1, ProductNat
<1> HIDE DEF p, q
<1>4. (p + q) \div 100 <= p \div 100 + q \div 100 + 1
  BY <1>3
<1>5. QED
  BY <1>2, <1>4 DEF Fee, p, q

\* Truncating the fees of many parts loses at most one unit for each.
LEMMA FeeOfParts ==
  ASSUME moFeePercent \in Nat, NEW base \in Nat, NEW T, IsFiniteSet(T),
         NEW part, NEW fee, \A x \in T : part[x] \in Nat /\ fee[x] = Fee(part[x])
  PROVE  Fee(base + Sum(part, T)) <= Fee(base) + Sum(fee, T) + Cardinality(T)
<1> DEFINE Claim(U) == Fee(base + Sum(part, U)) <= Fee(base) + Sum(fee, U) + Cardinality(U)
           Bad == {U \in SUBSET T : ~Claim(U)}
<1>1. SUFFICES ASSUME T \in Bad PROVE FALSE
  OBVIOUS
<1>2. PICK U \in Bad : \A V \in SUBSET U : V # U => V \notin Bad
  <2>1. Bad \subseteq SUBSET T /\ Bad # {}
    BY <1>1
  <2> HIDE DEF Bad
  <2>2. QED
    BY <2>1, MinimalSet
<1>3. Fee(base) \in Nat
  BY FeeNat
<1>4. U # {} /\ IsFiniteSet(U)
  <2>1. Sum(part, {}) = 0 /\ Sum(fee, {}) = 0 /\ Cardinality({}) = 0 /\ base + 0 = base
    BY SumEmpty, FS_EmptySet
  <2>2. Claim({})
    BY <1>3, <2>1
  <2>3. U # {}
    BY <2>2
  <2>4. QED
    BY <2>3, FS_Subset
<1> DEFINE c == Chosen(U)
           rest == U \ {c}
<1>5. c \in U /\ c \in T
  BY <1>4, ChosenIn
<1>6. Claim(rest)
  BY <1>2, <1>5
<1>7. IsFiniteSet(rest) /\ Cardinality(rest) = Cardinality(U) - 1 /\ Cardinality(U) \in Nat
  BY <1>4, <1>5, FS_RemoveElement, FS_CardinalityType
<1>8. \A x \in T : fee[x] \in Nat
  BY FeeNat
<1>9. Sum(part, rest) \in Nat /\ Sum(fee, rest) \in Nat
  BY <1>7, <1>8, SumNat
<1>10. Sum(part, U) = part[c] + Sum(part, rest) /\ Sum(fee, U) = fee[c] + Sum(fee, rest)
  BY <1>4, SumChosen
<1>11. part[c] \in Nat /\ fee[c] = Fee(part[c]) /\ fee[c] \in Nat
  BY <1>5, <1>8
<1> HIDE DEF c, rest
<1>12. Fee((base + Sum(part, rest)) + part[c]) <= Fee(base + Sum(part, rest)) + fee[c] + 1
  <2>1. base + Sum(part, rest) \in Nat
    BY <1>9
  <2>2. Fee((base + Sum(part, rest)) + part[c])
          <= Fee(base + Sum(part, rest)) + Fee(part[c]) + 1
    BY <1>11, <2>1, FeeOfTwo
  <2>3. QED
    BY <1>11, <2>2
<1>13. base + Sum(part, U) = (base + Sum(part, rest)) + part[c]
  BY <1>9, <1>10, <1>11
<1>14. Fee(base + Sum(part, rest)) \in Nat /\ Fee((base + Sum(part, rest)) + part[c]) \in Nat
  BY <1>9, <1>11, FeeNat
<1>15. Fee(base + Sum(part, U)) <= Fee(base + Sum(part, rest)) + fee[c] + 1
  BY <1>12, <1>13
<1>16. Fee(base + Sum(part, rest)) <= Fee(base) + Sum(fee, rest) + Cardinality(rest)
  BY <1>6
<1>17. Fee(base + Sum(part, U)) \in Nat
  BY <1>13, <1>14
<1>18. Fee(base + Sum(part, U)) <= Fee(base) + Sum(fee, U) + Cardinality(U)
  BY <1>3, <1>7, <1>9, <1>10, <1>11, <1>14, <1>15, <1>16, <1>17
<1>19. QED
  BY <1>2, <1>18

LEMMA PenaltyNat ==
  ASSUME NEW i \in Items, NEW endDate
  PROVE  milestoneContract!Penalty(i, endDate) \in Nat
<1> DEFINE D == DOMAIN penalties[i]
           due == {k \in D : now > endDate + penalties[i][k].duration}
           value == [k \in D |-> penalties[i][k].penaltyValue]
<1>1. penalties[i] \in Seq([duration : Dates, penaltyValue : Nat])
  BY PlanAssumption
<1>2. D = 1 .. Len(penalties[i]) /\ Len(penalties[i]) \in Nat
  BY <1>1
<1>3. IsFiniteSet(D)
  BY <1>2, FS_Interval
<1>4. IsFiniteSet(due)
  BY <1>3, FS_Subset
<1>5. ASSUME NEW k \in due
      PROVE  value[k] \in Nat
  <2> DEFINE R == [duration : Dates, penaltyValue : Nat]
  <2>1. k \in 1 .. Len(penalties[i])
    BY <1>2
  <2>2. penalties[i] \in Seq(R)
    BY <1>1
  <2> HIDE DEF R
  <2>3. penalties[i][k] \in R
    BY <2>1, <2>2
  <2>4. QED
    BY <2>3 DEF R
<1>6. Sum(value, due) \in Nat
  <2> HIDE DEF value, due
  <2>1. QED
    BY <1>4, <1>5, SumNat
<1>7. QED
  BY <1>6, SumOverIsSum DEF milestoneContract!Penalty

\* The parts a milestone is paid out in: its penalty, the share of its
\* provider, and of each sub-milestone what its penalty leaves.
PaidParts(m) ==
  [s \in milestoneContract!SubMilestonesPaid(m) |->
     fundAllocated[s] - milestoneContract!SubMilestonePenalty(s)]

LEMMA PayoutParts ==
  ASSUME TypeOK, NEW m \in Milestones, milestoneContract!Payable(m)
  PROVE  LET S == milestoneContract!SubMilestonesPaid(m)
             penalty == milestoneContract!MilestonePenalty(m)
             share == milestoneContract!ProviderShare(m)
         IN  /\ S \subseteq SubMilestones /\ IsFiniteSet(S)
             /\ penalty \in Nat /\ share \in Nat
             /\ \A s \in S : PaidParts(m)[s] \in Nat
             /\ Sum(PaidParts(m), S) \in Nat
             /\ fundAllocated[m] = penalty + share + Sum(PaidParts(m), S)
<1> DEFINE S == milestoneContract!SubMilestonesPaid(m)
           penalty == milestoneContract!MilestonePenalty(m)
           lost == [s \in S |-> milestoneContract!SubMilestonePenalty(s)]
<1>1. S \subseteq SubMilestones
  BY DEF milestoneContract!SubMilestonesPaid, milestoneContract!SubMilestonesOf,
         TypeOK, milestoneContract!MilestoneTypeOK
<1>2. IsFiniteSet(S) /\ S \subseteq Items /\ m \in Items
  BY <1>1, ItemsFinite, AmountsNat
<1>3. penalty \in Nat
  BY <1>2, PenaltyNat DEF milestoneContract!MilestonePenalty
<1>4. \A s \in S : /\ fundAllocated[s] \in Nat /\ lost[s] \in Nat
                   /\ lost[s] <= fundAllocated[s]
                   /\ PaidParts(m)[s] = fundAllocated[s] - lost[s]
  <2> SUFFICES ASSUME NEW s \in S
               PROVE  /\ fundAllocated[s] \in Nat /\ lost[s] \in Nat
                      /\ lost[s] <= fundAllocated[s]
                      /\ PaidParts(m)[s] = fundAllocated[s] - lost[s]
    OBVIOUS
  <2>1. milestoneContract!SubMilestonePenalty(s) \in Nat
    BY <1>2, PenaltyNat DEF milestoneContract!SubMilestonePenalty
  <2>2. milestoneContract!SubMilestonePenalty(s) <= fundAllocated[s]
    BY DEF milestoneContract!Payable
  <2>3. QED
    BY <1>2, <2>1, <2>2, AmountsNat DEF PaidParts
<1>5. /\ milestoneContract!SubMilestonePenalties(m) = Sum(lost, S)
      /\ milestoneContract!SumOver(fundAllocated, S) = Sum(fundAllocated, S)
  BY SumOverIsSum DEF milestoneContract!SubMilestonePenalties
<1>6. Sum(fundAllocated, S) + penalty <= fundAllocated[m]
  BY <1>5 DEF milestoneContract!Payable
<1>7. milestoneContract!ProviderShare(m)
        = fundAllocated[m] - Sum(fundAllocated, S) - penalty + Sum(lost, S)
  BY <1>5 DEF milestoneContract!ProviderShare
<1> HIDE DEF S, penalty, lost
<1>8. \A s \in S : PaidParts(m)[s] \in Nat
  BY <1>4
<1>9. /\ Sum(fundAllocated, S) \in Nat /\ Sum(lost, S) \in Nat
      /\ Sum(PaidParts(m), S) \in Nat
  BY <1>2, <1>4, <1>8, SumNat
<1>10. Sum(fundAllocated, S) = Sum(PaidParts(m), S) + Sum(lost, S)
  <2>1. \A s \in S : /\ PaidParts(m)[s] \in Int /\ lost[s] \in Int
                     /\ fundAllocated[s] = PaidParts(m)[s] + lost[s]
    BY <1>4, <1>8
  <2>2. QED
    BY <1>2, <2>1, SumPlus
<1>11. fundAllocated[m] \in Nat
  BY AmountsNat
<1>12. /\ milestoneContract!ProviderShare(m) \in Nat
       /\ fundAllocated[m] = penalty + milestoneContract!ProviderShare(m)
                               + Sum(PaidParts(m), S)
  BY <1>3, <1>6, <1>7, <1>9, <1>10, <1>11
<1>13. QED
  BY <1>1, <1>2, <1>3, <1>8, <1>9, <1>12 DEF S, penalty

-----------------------------------------------------------------------------
(* What the providers receive.                                             *)

\* The three contracts take the same fee.
LEMMA FeesAgree ==
  \A amount : /\ milestoneContract!Fee(amount) = Fee(amount)
              /\ milestoneContract!LessFee(amount) = LessFee(amount)
              /\ royaltyContract!Fee(amount) = Fee(amount)
              /\ royaltyContract!LessFee(amount) = LessFee(amount)
  BY DEF milestoneContract!Fee, milestoneContract!LessFee, milestoneContract!WholePercent,
         royaltyContract!Fee, royaltyContract!LessFee, royaltyContract!WholePercent,
         Fee, LessFee, WholePercent

\* What the parts of a milestone bring their individual providers.
PartsLessFee(m) ==
  [s \in milestoneContract!SubMilestonesPaid(m) |-> LessFee(PaidParts(m)[s])]

LEMMA PayoutBillParts ==
  ASSUME NEW m
  PROVE  milestoneContract!PayoutBill(m) =
           [purchaser |-> LessFee(milestoneContract!MilestonePenalty(m)),
            provider  |-> LessFee(milestoneContract!ProviderShare(m)),
            ip        |-> Sum(PartsLessFee(m), milestoneContract!SubMilestonesPaid(m)),
            fee       |-> Fee(fundAllocated[m])]
<1> DEFINE S == milestoneContract!SubMilestonesPaid(m)
           out == [s \in S |-> milestoneContract!SubMilestonePayout(s)]
<1>1. out = PartsLessFee(m)
  BY FeesAgree DEF PartsLessFee, PaidParts, milestoneContract!SubMilestonePayout
<1>2. milestoneContract!SumOver(out, S) = Sum(out, S)
  BY SumOverIsSum
<1>3. QED
  BY <1>1, <1>2, FeesAgree DEF milestoneContract!PayoutBill

\* A payout of one milestone brings the providers at most its amount.
LEMMA PayoutIncome ==
  ASSUME TypeOK, NEW m \in Milestones, milestoneContract!Payable(m)
  PROVE  LET bill == milestoneContract!PayoutBill(m)
         IN  /\ bill.provider \in Int /\ bill.ip \in Int
             /\ bill.provider + bill.ip <= fundAllocated[m]
<1> DEFINE S == milestoneContract!SubMilestonesPaid(m)
           share == milestoneContract!ProviderShare(m)
           penalty == milestoneContract!MilestonePenalty(m)
<1>1. /\ IsFiniteSet(S) /\ penalty \in Nat /\ share \in Nat
      /\ \A s \in S : PaidParts(m)[s] \in Nat
      /\ Sum(PaidParts(m), S) \in Nat
      /\ fundAllocated[m] = penalty + share + Sum(PaidParts(m), S)
  BY PayoutParts
<1>2. moFeePercent \in Nat
  BY DEF TypeOK, LedgerTypeOK
<1>3. \A s \in S : PartsLessFee(m)[s] = LessFee(PaidParts(m)[s])
  BY DEF PartsLessFee
<1> HIDE DEF S, share, penalty
<1>4. \A s \in S : PartsLessFee(m)[s] \in Int /\ PartsLessFee(m)[s] <= PaidParts(m)[s]
  BY <1>1, <1>2, <1>3, FeeNat
<1>5. Sum(PartsLessFee(m), S) <= Sum(PaidParts(m), S)
  BY <1>1, <1>4, SumMonotone
<1>6. Sum(PartsLessFee(m), S) \in Int
  BY <1>1, <1>4, SumInt
<1>7. LessFee(share) \in Int /\ LessFee(share) <= share
  BY <1>1, <1>2, FeeNat
<1>8. LessFee(share) + Sum(PartsLessFee(m), S) <= fundAllocated[m]
  BY <1>1, <1>5, <1>6, <1>7
<1>9. QED
  BY <1>6, <1>7, <1>8, PayoutBillParts DEF S, share

\* A payout of several, at most theirs.
LEMMA PayoutsIncome ==
  ASSUME TypeOK, NEW ms \in SUBSET Milestones,
         \A m \in ms : milestoneContract!Payable(m)
  PROVE  LET bill == milestoneContract!PayoutBills(ms)
         IN  bill.provider + bill.ip <= Sum(fundAllocated, ms)
<1> DEFINE toProvider == [m \in ms |-> milestoneContract!PayoutBill(m).provider]
           toIp == [m \in ms |-> milestoneContract!PayoutBill(m).ip]
           both == [m \in ms |-> toProvider[m] + toIp[m]]
<1>1. IsFiniteSet(ms)
  BY ItemsFinite, AmountsNat
<1>2. \A m \in ms : /\ toProvider[m] \in Int /\ toIp[m] \in Int
                    /\ both[m] = toProvider[m] + toIp[m]
                    /\ both[m] <= fundAllocated[m] /\ fundAllocated[m] \in Nat
  BY PayoutIncome, AmountsNat
<1>3. /\ milestoneContract!PayoutBills(ms).provider = Sum(toProvider, ms)
      /\ milestoneContract!PayoutBills(ms).ip = Sum(toIp, ms)
  BY SumOverIsSum DEF milestoneContract!PayoutBills
<1> HIDE DEF toProvider, toIp, both
<1>4. Sum(both, ms) = Sum(toProvider, ms) + Sum(toIp, ms)
  BY <1>1, <1>2, SumPlus
<1>5. Sum(both, ms) <= Sum(fundAllocated, ms)
  <2>1. \A m \in ms : both[m] \in Int /\ fundAllocated[m] \in Int /\ both[m] <= fundAllocated[m]
    BY <1>2
  <2>2. QED
    BY <1>1, <2>1, SumMonotone
<1>6. QED
  BY <1>3, <1>4, <1>5

\* A bill brings its recipients no more than it says.
LEMMA PayFromIncome ==
  ASSUME ledger \in [Account -> Nat], NEW source \in Contracts, NEW bill, NEW unpaid,
         NEW releases, PayFrom(source, bill, unpaid, releases)
  PROVE  /\ bill.provider \in Nat /\ bill.ip \in Nat
         /\ ledger'["provider"] \in Nat /\ ledger'["ip"] \in Nat
         /\ ledger'["provider"] <= ledger["provider"] + bill.provider
         /\ ledger'["ip"] <= ledger["ip"] + bill.ip
<1> DEFINE h == Honoured(bill, unpaid)
           paid == Debited(ledger, source, h)
<1>1. ledger' = paid \/ ledger' = StakingRewardReleased(paid, source)
  BY DEF PayFrom
<1>2. /\ bill.provider \in Nat /\ bill.ip \in Nat
      /\ unpaid.provider \in Nat /\ unpaid.ip \in Nat
      /\ h.provider \in Nat /\ h.ip \in Nat
  <2>1. bill \in Bill /\ unpaid \in Bill /\ h \in Bill
    BY DEF PayFrom
  <2>2. QED
    BY <2>1 DEF Bill
<1>3. h.provider \in 0 .. bill.provider /\ h.ip \in 0 .. bill.ip
  BY <1>2 DEF Honoured
<1>4. ledger["provider"] \in Nat /\ ledger["ip"] \in Nat
  BY DEF Account, Wallets
<1>5. /\ paid["provider"] = ledger["provider"] + h.provider
      /\ paid["ip"] = ledger["ip"] + h.ip
  BY DEF Debited, Account, Wallets, Contracts
<1>6. /\ StakingRewardReleased(paid, source)["provider"] = paid["provider"]
      /\ StakingRewardReleased(paid, source)["ip"] = paid["ip"]
  BY DEF StakingRewardReleased, Debited, Account, Wallets, Contracts
<1> HIDE DEF h, paid
<1>7. ledger'["provider"] = paid["provider"] /\ ledger'["ip"] = paid["ip"]
  BY <1>1, <1>6
<1>8. QED
  BY <1>2, <1>3, <1>4, <1>5, <1>7

-----------------------------------------------------------------------------
\* Funding pays no provider.
LEMMA FundIncome ==
  ASSUME ledger \in [Account -> Nat],
         NEW mf, NEW rf, NEW surplus, FundFromPurchaser(mf, rf, surplus)
  PROVE  UNCHANGED <<ledger["provider"], ledger["ip"]>>
  BY DEF FundFromPurchaser, Account, Wallets, Contracts

\* The property in terms of Sum, before and after a step.
LEMMA IncomeBySum ==
  IncomeWithinAgreement <=>
    ledger["provider"] + ledger["ip"] <= Sum(fundAllocated, Paid)
                                           + Sum(royaltyAmount, RoyaltyPaid)
  BY DEF IncomeWithinAgreement, SumOver, milestoneContract!SumOver,
         milestoneContract!MapThenSumSet, milestoneContract!MapThenFoldSet,
         Sum, MapThenSumSet, MapThenFoldSet

LEMMA IncomeBySumNext ==
  IncomeWithinAgreement' <=>
    ledger'["provider"] + ledger'["ip"] <= Sum(fundAllocated, Paid')
                                             + Sum(royaltyAmount, RoyaltyPaid')
  BY DEF IncomeWithinAgreement, SumOver, milestoneContract!SumOver,
         milestoneContract!MapThenSumSet, milestoneContract!MapThenFoldSet,
         Sum, MapThenSumSet, MapThenFoldSet

\* A step that pays the milestones of ms and the royalties of rs may bring the
\* providers what those add to the agreement.
LEMMA IncomeStep ==
  ASSUME TypeOK, TypeOK', IncomeWithinAgreement,
         NEW ms \in SUBSET (Milestones \ Paid), Paid' = Paid \cup ms,
         NEW rs \in SUBSET (Milestones \ RoyaltyPaid), RoyaltyPaid' = RoyaltyPaid \cup rs,
         ledger'["provider"] + ledger'["ip"]
           <= ledger["provider"] + ledger["ip"] + Sum(fundAllocated, ms) + Sum(royaltyAmount, rs)
  PROVE  IncomeWithinAgreement'
<1>1. Paid \subseteq Milestones /\ RoyaltyPaid \subseteq Milestones
  BY DEF TypeOK, milestoneContract!MilestoneTypeOK, Paid, milestoneContract!Paid, RoyaltyPaid
<1>2. /\ IsFiniteSet(Paid) /\ IsFiniteSet(RoyaltyPaid)
      /\ IsFiniteSet(ms) /\ IsFiniteSet(rs)
  BY <1>1, ItemsFinite, AmountsNat
<1>3. \A m \in Milestones : fundAllocated[m] \in Nat /\ royaltyAmount[m] \in Nat
  BY AmountsNat
<1> DEFINE a == Sum(fundAllocated, Paid)
           b == Sum(fundAllocated, ms)
           c == Sum(royaltyAmount, RoyaltyPaid)
           d == Sum(royaltyAmount, rs)
<1>4. Sum(fundAllocated, Paid \cup ms) = a + b
  BY <1>1, <1>2, <1>3, SumUnion
<1>5. Sum(royaltyAmount, RoyaltyPaid \cup rs) = c + d
  BY <1>1, <1>2, <1>3, SumUnion
<1>6. a \in Nat /\ b \in Nat /\ c \in Nat /\ d \in Nat
  BY <1>1, <1>2, <1>3, SumNat
<1>7. /\ ledger["provider"] \in Nat /\ ledger["ip"] \in Nat
      /\ ledger'["provider"] \in Nat /\ ledger'["ip"] \in Nat
  BY DEF TypeOK, LedgerTypeOK, Account, Wallets
<1>8. ledger["provider"] + ledger["ip"] <= a + c
  BY IncomeBySum
<1> HIDE DEF a, b, c, d
<1>9. ledger'["provider"] + ledger'["ip"] <= (a + b) + (c + d)
  BY <1>6, <1>7, <1>8 DEF b, d
<1>10. QED
  BY <1>4, <1>5, <1>9, IncomeBySumNext

\* A step that pays no milestone and no royalty.
LEMMA NoIncomeStep ==
  ASSUME TypeOK, TypeOK', IncomeWithinAgreement,
         UNCHANGED <<Paid, RoyaltyPaid>>,
         ledger'["provider"] <= ledger["provider"], ledger'["ip"] <= ledger["ip"]
  PROVE  IncomeWithinAgreement'
<1>1. Sum(fundAllocated, {}) = 0 /\ Sum(royaltyAmount, {}) = 0
  BY SumEmpty
<1>2. /\ ledger["provider"] \in Nat /\ ledger["ip"] \in Nat
      /\ ledger'["provider"] \in Nat /\ ledger'["ip"] \in Nat
  BY DEF TypeOK, LedgerTypeOK, Account, Wallets
<1>3. ledger'["provider"] + ledger'["ip"]
        <= ledger["provider"] + ledger["ip"] + Sum(fundAllocated, {}) + Sum(royaltyAmount, {})
  BY <1>1, <1>2
<1>4. Paid' = Paid \cup {} /\ RoyaltyPaid' = RoyaltyPaid \cup {}
  OBVIOUS
<1>5. {} \in SUBSET (Milestones \ Paid) /\ {} \in SUBSET (Milestones \ RoyaltyPaid)
  OBVIOUS
<1>6. QED
  BY <1>3, <1>4, <1>5, IncomeStep

LEMMA ManageIncome ==
  ASSUME TypeOK, TypeOK', IncomeWithinAgreement, NEW c \in Callers, Manage(c)
  PROVE  IncomeWithinAgreement'
<1>1. Paid' = Paid
  BY ManagePromise
<1>2. UNCHANGED <<ledger["provider"], ledger["ip"]>>
  BY DEF Manage, transferOwnership, updateFeeDetails, addMilestones, addSubMilestones,
         MoneyUnchanged, ledgerVars
<1>3. RoyaltyPaid' = RoyaltyPaid
  BY DEF Manage, transferOwnership, updateFeeDetails, addMilestones, addSubMilestones,
         RoyaltyPaid, royaltyContract!addMilestoneRoyalties, contractVars
<1>4. /\ ledger["provider"] \in Nat /\ ledger["ip"] \in Nat
  BY DEF TypeOK, LedgerTypeOK, Account, Wallets
<1>5. QED
  BY <1>1, <1>2, <1>3, <1>4, NoIncomeStep

LEMMA FundingIncome ==
  ASSUME TypeOK, TypeOK', IncomeWithinAgreement, NEW c \in Callers, Fund(c)
  PROVE  IncomeWithinAgreement'
<1>1. Paid' = Paid
  BY FundPromise
<1>2. UNCHANGED <<ledger["provider"], ledger["ip"]>>
  BY FundIncome
     DEF Fund, fundProject, fundUsdcToProject, fundMilestone, fundUsdcToMilestone,
         FundInTokens, Approve, ledgerVars, TypeOK, LedgerTypeOK
<1>3. RoyaltyPaid' = RoyaltyPaid
  BY DEF Fund, fundProject, fundUsdcToProject, fundMilestone, fundUsdcToMilestone,
         FundInTokens, Approve, RoyaltyPaid, contractVars
<1>4. /\ ledger["provider"] \in Nat /\ ledger["ip"] \in Nat
  BY DEF TypeOK, LedgerTypeOK, Account, Wallets
<1>5. QED
  BY <1>1, <1>2, <1>3, <1>4, NoIncomeStep

LEMMA PayoutIncomeStep ==
  ASSUME TypeOK, TypeOK', IncomeWithinAgreement, NEW ms \in SUBSET Milestones,
         milestoneContract!payout(ms), NEW bill, NEW releases,
         PayMilestones(ms, bill, releases), UNCHANGED royalties,
         bill.provider + bill.ip <= Sum(fundAllocated, ms)
  PROVE  IncomeWithinAgreement'
<1>1. Paid' = Paid \cup ms /\ ms \in SUBSET (Milestones \ Paid)
  BY PayoutPays
<1>2. RoyaltyPaid' = RoyaltyPaid \cup {}
  BY DEF RoyaltyPaid
<1>3. Sum(royaltyAmount, {}) = 0 /\ Sum(fundAllocated, ms) \in Nat
  BY SumEmpty, SumNat, ItemsFinite, AmountsNat
<1>4. /\ ledger["provider"] \in Nat /\ ledger["ip"] \in Nat
      /\ ledger'["provider"] \in Nat /\ ledger'["ip"] \in Nat
  BY DEF TypeOK, LedgerTypeOK, Account, Wallets
<1>5. /\ bill.provider \in Nat /\ bill.ip \in Nat
      /\ ledger'["provider"] <= ledger["provider"] + bill.provider
      /\ ledger'["ip"] <= ledger["ip"] + bill.ip
  <2>1. PICK unpaid : PayFrom("milestone", bill, unpaid, releases)
    BY PayMilestonesIsPayFrom
  <2>2. QED
    BY <2>1, PayFromIncome DEF TypeOK, LedgerTypeOK, Contracts
<1>6. ledger'["provider"] + ledger'["ip"]
        <= ledger["provider"] + ledger["ip"] + Sum(fundAllocated, ms) + Sum(royaltyAmount, {})
  BY <1>3, <1>4, <1>5
<1>7. {} \in SUBSET (Milestones \ RoyaltyPaid)
  OBVIOUS
<1>8. QED
  BY <1>1, <1>2, <1>6, <1>7, IncomeStep

LEMMA RoyaltyIncomeStep ==
  ASSUME TypeOK, TypeOK', IncomeWithinAgreement, NEW c, NEW m \in Milestones,
         payoutMilestoneRoyalty(c, m)
  PROVE  IncomeWithinAgreement'
<1> DEFINE bill == royaltyContract!RoyaltyBill(m)
<1>1. Paid' = Paid \cup {}
  BY DEF payoutMilestoneRoyalty, Paid, milestoneContract!Paid
<1>2. RoyaltyPaid' = RoyaltyPaid \cup {m} /\ m \notin RoyaltyPaid
  BY DEF payoutMilestoneRoyalty, royaltyContract!payMilestoneRoyalty, RoyaltyPaid,
         TypeOK, royaltyContract!RoyaltyTypeOK
<1>3. bill.provider = LessFee(royaltyAmount[m]) /\ bill.ip = 0
  BY FeesAgree DEF royaltyContract!RoyaltyBill, royaltyContract!NoBill
<1>4. /\ royaltyAmount[m] \in Nat /\ LessFee(royaltyAmount[m]) \in Int
      /\ LessFee(royaltyAmount[m]) <= royaltyAmount[m]
  BY AmountsNat, FeeNat DEF TypeOK, LedgerTypeOK
<1>5. Sum(fundAllocated, {}) = 0 /\ Sum(royaltyAmount, {m}) = royaltyAmount[m]
  BY <1>4, SumEmpty, SumSingle
<1>6. /\ ledger["provider"] \in Nat /\ ledger["ip"] \in Nat
      /\ ledger'["provider"] \in Nat /\ ledger'["ip"] \in Nat
  BY DEF TypeOK, LedgerTypeOK, Account, Wallets
<1> HIDE DEF bill
<1>7. /\ ledger'["provider"] <= ledger["provider"] + bill.provider
      /\ ledger'["ip"] <= ledger["ip"] + bill.ip
  <2>1. PICK releases : PayRoyalty(bill, releases)
    BY DEF payoutMilestoneRoyalty, bill
  <2>2. PICK unpaid : PayFrom("royalty", bill, unpaid, releases)
    BY <2>1, PayRoyaltyIsPayFrom
  <2>3. QED
    BY <2>2, PayFromIncome DEF TypeOK, LedgerTypeOK, Contracts
<1>8. ledger'["provider"] + ledger'["ip"]
        <= ledger["provider"] + ledger["ip"] + Sum(fundAllocated, {}) + Sum(royaltyAmount, {m})
  BY <1>3, <1>4, <1>5, <1>6, <1>7
<1>9. {} \in SUBSET (Milestones \ Paid) /\ {m} \in SUBSET (Milestones \ RoyaltyPaid)
  BY <1>2
<1>10. QED
  BY <1>1, <1>2, <1>8, <1>9, IncomeStep

LEMMA SettleIncome ==
  ASSUME TypeOK, TypeOK', IncomeWithinAgreement, NEW c \in Callers, Settle(c)
  PROVE  IncomeWithinAgreement'
<1>0. /\ ledger \in [Account -> Nat] /\ "royalty" \in Contracts
      /\ ledger["provider"] \in Nat /\ ledger["ip"] \in Nat
      /\ ledger'["provider"] \in Nat /\ ledger'["ip"] \in Nat
  BY DEF TypeOK, LedgerTypeOK, Account, Wallets, Contracts
<1>1. CASE payoutProject(c)
  <2>1. milestoneIds \in SUBSET Milestones /\ milestoneContract!payout(milestoneIds)
    BY <1>1 DEF payoutProject, TypeOK, milestoneContract!MilestoneTypeOK
  <2>2. \A m \in milestoneIds : milestoneContract!Payable(m)
    BY <2>1 DEF milestoneContract!payout
  <2> DEFINE bill == milestoneContract!PayoutBills(milestoneIds)
  <2>3. bill.provider + bill.ip <= Sum(fundAllocated, milestoneIds)
    BY <2>1, <2>2, PayoutsIncome
  <2>4. PayMilestones(milestoneIds, bill, TRUE) /\ UNCHANGED royalties
    BY <1>1 DEF payoutProject
  <2> HIDE DEF bill
  <2>5. QED
    BY <2>1, <2>3, <2>4, PayoutIncomeStep
<1>2. ASSUME NEW m \in Milestones, payoutMilestone(c, m)
      PROVE  IncomeWithinAgreement'
  <2> DEFINE bill == milestoneContract!PayoutBill(m)
             last == milestoneIds \subseteq Paid \cup {m}
  <2>1. {m} \in SUBSET Milestones /\ milestoneContract!payout({m}) /\ UNCHANGED royalties
    BY <1>2 DEF payoutMilestone
  <2>2. milestoneContract!Payable(m)
    BY <2>1 DEF milestoneContract!payout
  <2>3. Sum(fundAllocated, {m}) = fundAllocated[m]
    <3>1. fundAllocated[m] \in Int
      BY AmountsNat
    <3>2. QED
      BY <3>1, SumSingle
  <2>4. bill.provider + bill.ip <= Sum(fundAllocated, {m})
    BY <2>2, <2>3, PayoutIncome
  <2>5. PayMilestones({m}, bill, last)
    BY <1>2 DEF payoutMilestone
  <2> HIDE DEF bill, last
  <2>6. QED
    BY <2>1, <2>4, <2>5, PayoutIncomeStep
<1>3. ASSUME NEW m \in Milestones, payoutMilestoneRoyalty(c, m)
      PROVE  IncomeWithinAgreement'
  BY <1>3, RoyaltyIncomeStep
<1>4. ASSUME NEW m \in Milestones, releaseMilestoneRoyalty(c, m)
      PROVE  IncomeWithinAgreement'
  <2> DEFINE bill == royaltyContract!ForceCloseBill(m)
  <2>1. UNCHANGED <<Paid, RoyaltyPaid>>
    BY <1>4 DEF releaseMilestoneRoyalty, royaltyContract!forceClosePayout, Paid,
                milestoneContract!Paid, RoyaltyPaid, TypeOK, royaltyContract!RoyaltyTypeOK
  <2>2. bill.provider = 0 /\ bill.ip = 0
    BY DEF royaltyContract!ForceCloseBill, royaltyContract!NoBill
  <2>3. PICK unpaid : PayFrom("royalty", bill, unpaid, FALSE)
    BY <1>4, PayRoyaltyIsPayFrom DEF releaseMilestoneRoyalty
  <2> HIDE DEF bill
  <2>4. /\ ledger'["provider"] <= ledger["provider"] + bill.provider
        /\ ledger'["ip"] <= ledger["ip"] + bill.ip
    BY <1>0, <2>3, PayFromIncome
  <2>5. ledger'["provider"] <= ledger["provider"] /\ ledger'["ip"] <= ledger["ip"]
    BY <1>0, <2>2, <2>4
  <2>6. QED
    BY <2>1, <2>5, NoIncomeStep
<1>5. CASE releaseFreeBalance(c)
  <2>1. UNCHANGED <<Paid, RoyaltyPaid>>
    BY <1>5 DEF releaseFreeBalance, contractVars, Paid, milestoneContract!Paid, RoyaltyPaid
  <2>2. ledger'["provider"] <= ledger["provider"] /\ ledger'["ip"] <= ledger["ip"]
    BY <1>0, <1>5 DEF releaseFreeBalance, Account, Wallets, Contracts
  <2>3. QED
    BY <2>1, <2>2, NoIncomeStep
<1>6. QED
  BY <1>1, <1>2, <1>3, <1>4, <1>5 DEF Settle

\* The providers never receive more than the milestones and royalties paid.
THEOREM IncomeIsWithinAgreement == Spec => []IncomeWithinAgreement
<1>1. Init => IncomeWithinAgreement
  <2> SUFFICES ASSUME Init PROVE IncomeWithinAgreement
    OBVIOUS
  <2>1. Paid = {} /\ RoyaltyPaid = {}
    BY DEF Init, milestoneContract!MilestoneInit, royaltyContract!RoyaltyInit, Paid,
           milestoneContract!Paid, RoyaltyPaid
  <2>2. ledger["provider"] = 0 /\ ledger["ip"] = 0
    BY DEF Init, LedgerInit, Account, Wallets
  <2>3. QED
    BY <2>1, <2>2, SumEmpty, IncomeBySum
<1>2. TypeOK /\ TypeOK' /\ IncomeWithinAgreement /\ [Next]_vars => IncomeWithinAgreement'
  <2> SUFFICES ASSUME TypeOK, TypeOK', IncomeWithinAgreement, [Next]_vars
               PROVE  IncomeWithinAgreement'
    OBVIOUS
  <2>0. ledger["provider"] \in Nat /\ ledger["ip"] \in Nat
    BY DEF TypeOK, LedgerTypeOK, Account, Wallets
  <2>1. ASSUME NEW c \in Callers, Manage(c) \/ Fund(c) \/ Settle(c)
        PROVE  IncomeWithinAgreement'
    BY <2>1, ManageIncome, FundingIncome, SettleIncome
  <2>2. ASSUME NEW c \in Callers, Work(c)
        PROVE  IncomeWithinAgreement'
    <3>1. UNCHANGED <<Paid, royalties, ledger>>
      BY <2>2, WorkPromise
         DEF promiseState, Work, changeMilestoneState, changeSubMilestoneState,
             MoneyUnchanged, ledgerVars
    <3>2. RoyaltyPaid' = RoyaltyPaid
      BY <3>1 DEF RoyaltyPaid
    <3>3. QED
      BY <2>0, <3>1, <3>2, NoIncomeStep
  <2>3. CASE Environment
    <3>1. UNCHANGED <<Paid, RoyaltyPaid>>
      BY <2>3 DEF Environment, contractVars, Paid, milestoneContract!Paid, RoyaltyPaid
    <3>2. ledger'["provider"] = ledger["provider"] /\ ledger'["ip"] = ledger["ip"]
      BY <2>3 DEF Environment, Tick, StakingReward, TypeOK, LedgerTypeOK, Account, Wallets, Contracts
    <3>3. QED
      BY <2>0, <3>1, <3>2, NoIncomeStep
  <2>4. CASE UNCHANGED vars
    <3>1. UNCHANGED <<Paid, RoyaltyPaid, ledger>>
      BY <2>4 DEF vars, contractVars, ledgerVars, Paid, milestoneContract!Paid, RoyaltyPaid
    <3>2. QED
      BY <2>0, <3>1, NoIncomeStep
  <2>5. QED
    BY <2>1, <2>2, <2>3, <2>4 DEF Next
<1>3. QED
  BY <1>1, <1>2, TypeCorrect, PTL DEF Spec

-----------------------------------------------------------------------------
(* What a payout draws from the pot.                                       *)

LEMMA MaxBounds == \A n \in Nat : Max({1, n}) \in Nat /\ Max({1, n}) >= 1 /\ Max({1, n}) >= n
<1> TAKE n \in Nat
<1>1. \E x \in {1, n} : \A y \in {1, n} : x >= y
  BY 1 <= n \/ n <= 1
<1>2. Max({1, n}) \in {1, n} /\ \A y \in {1, n} : Max({1, n}) >= y
  BY <1>1 DEF Max
<1>3. QED
  BY <1>2

\* The bill of one milestone is its amount and what truncation adds to it.
LEMMA PayoutTotal ==
  ASSUME TypeOK, NEW m \in Milestones, milestoneContract!Payable(m)
  PROVE  BillTotal(milestoneContract!PayoutBill(m))
           <= fundAllocated[m] + Max({1, Cardinality(milestoneContract!SubMilestonesOf(m))})
<1> DEFINE S == milestoneContract!SubMilestonesPaid(m)
           of == milestoneContract!SubMilestonesOf(m)
           share == milestoneContract!ProviderShare(m)
           penalty == milestoneContract!MilestonePenalty(m)
           part == PaidParts(m)
           less == PartsLessFee(m)
           fee == [s \in S |-> Fee(part[s])]
           bound == Max({1, Cardinality(of)})
<1>1. /\ IsFiniteSet(S) /\ penalty \in Nat /\ share \in Nat
      /\ \A s \in S : part[s] \in Nat
      /\ Sum(part, S) \in Nat
      /\ fundAllocated[m] = penalty + share + Sum(part, S)
  BY PayoutParts
<1>2. moFeePercent \in Nat
  BY DEF TypeOK, LedgerTypeOK
<1>3. BillTotal(milestoneContract!PayoutBill(m))
        = LessFee(penalty) + LessFee(share) + Sum(less, S) + Fee(fundAllocated[m])
  BY PayoutBillParts DEF BillTotal
<1>4. \A s \in S : less[s] = LessFee(part[s]) /\ fee[s] = Fee(part[s])
  BY DEF PartsLessFee
<1>5. IF penalty = 0 THEN S = of ELSE S = {}
  BY DEF milestoneContract!SubMilestonesPaid
<1>6. Cardinality(of) \in Nat
  <2>1. of \subseteq Items
    BY AmountsNat DEF milestoneContract!SubMilestonesOf, TypeOK, milestoneContract!MilestoneTypeOK
  <2>2. QED
    BY <2>1, ItemsFinite, FS_CardinalityType
<1>7. bound \in Nat /\ bound >= 1 /\ bound >= Cardinality(of)
  BY <1>6, MaxBounds
<1> HIDE DEF S, of, share, penalty, part, less, fee, bound
<1>8. Fee(penalty) \in Nat /\ Fee(share) \in Nat /\ Fee(fundAllocated[m]) \in Nat
  BY <1>1, <1>2, FeeNat
<1>9. /\ LessFee(penalty) = penalty - Fee(penalty)
      /\ LessFee(share) = share - Fee(share)
  BY DEF LessFee
<1>10. Sum(part, S) = Sum(less, S) + Sum(fee, S)
  <2>1. \A s \in S : part[s] \in Int /\ fee[s] \in Int /\ less[s] \in Int
                     /\ part[s] = less[s] + fee[s]
    <3> SUFFICES ASSUME NEW s \in S
                 PROVE  /\ part[s] \in Int /\ fee[s] \in Int /\ less[s] \in Int
                        /\ part[s] = less[s] + fee[s]
      OBVIOUS
    <3>1. part[s] \in Nat /\ Fee(part[s]) \in Nat /\ LessFee(part[s]) = part[s] - Fee(part[s])
      BY <1>1, <1>2, FeeNat DEF LessFee
    <3>2. QED
      BY <1>4, <3>1
  <2>2. QED
    BY <1>1, <2>1, SumPlus
<1>11. Sum(fee, S) \in Nat /\ Sum(less, S) \in Int
  <2>1. \A s \in S : fee[s] \in Nat /\ less[s] \in Int
    BY <1>1, <1>2, <1>4, FeeNat
  <2>2. QED
    BY <1>1, <2>1, SumNat, SumInt
<1> DEFINE Claim == BillTotal(milestoneContract!PayoutBill(m)) <= fundAllocated[m] + bound
<1>12. ASSUME penalty = 0
       PROVE  Claim
  <2>1. S = of
    BY <1>5, <1>12
  <2>2. Fee(share + Sum(part, S)) <= Fee(share) + Sum(fee, S) + Cardinality(S)
    BY <1>1, <1>2, <1>4, FeeOfParts
  <2>3. fundAllocated[m] = share + Sum(part, S)
    BY <1>1, <1>12
  <2>4. Fee(fundAllocated[m]) <= Fee(share) + Sum(fee, S) + Cardinality(of)
    BY <2>1, <2>2, <2>3
  <2>5. QED
    BY <1>1, <1>3, <1>6, <1>7, <1>8, <1>9, <1>10, <1>11, <1>12, <2>4
<1>13. ASSUME penalty # 0
       PROVE  Claim
  <2>1. S = {}
    BY <1>5, <1>13
  <2>2. Sum(part, S) = 0 /\ Sum(fee, S) = 0
    BY <2>1, SumEmpty
  <2>3. Fee(penalty + share) <= Fee(penalty) + Fee(share) + 1
    BY <1>1, <1>2, FeeOfTwo
  <2>4. fundAllocated[m] = penalty + share
    BY <1>1, <2>2
  <2>5. Fee(fundAllocated[m]) <= Fee(penalty) + Fee(share) + 1
    BY <2>3, <2>4
  <2>6. QED
    BY <1>1, <1>3, <1>7, <1>8, <1>9, <1>10, <1>11, <2>2, <2>4, <2>5
<1>14. QED
  BY <1>12, <1>13 DEF bound, of

\* Without a staking release a contract loses at most the bill.
LEMMA PayFromDraw ==
  ASSUME ledger \in [Account -> Nat], NEW source \in Contracts, NEW bill, NEW unpaid,
         NEW releases, PayFrom(source, bill, unpaid, releases), ~releases
  PROVE  /\ BillTotal(bill) \in Nat
         /\ ledger[source] - ledger'[source] <= BillTotal(bill)
<1> DEFINE h == Honoured(bill, unpaid)
<1>1. ledger' = Debited(ledger, source, h)
  BY DEF PayFrom
<1>2. BillTotal(bill) \in Nat /\ BillTotal(h) \in Nat /\ BillTotal(h) <= BillTotal(bill)
  <2>1. bill \in Bill /\ unpaid \in Bill /\ h \in Bill
    BY DEF PayFrom
  <2>2. QED
    BY <2>1 DEF Bill, BillTotal, Honoured
<1>3. ledger[source] \in Nat
  BY DEF Account
<1>4. ledger'[source] = ledger[source] - BillTotal(h)
  BY <1>1 DEF Debited, Account
<1> HIDE DEF h
<1>5. QED
  BY <1>2, <1>3, <1>4

\* A payout that is not the last one leaves the other milestones their money,
\* but for the truncated fees.
THEOREM DrawIsBounded == Spec => DrawBounded
<1> DEFINE Bounded(m) ==
      (Paid' = Paid \cup {m} /\ ~(milestoneIds \subseteq Paid'))
        => ledger["milestone"] - ledger'["milestone"]
             <= fundAllocated[m]
                  + Max({1, Cardinality(milestoneContract!SubMilestonesOf(m))})
<1>1. TypeOK /\ [Next]_vars => \A m \in Milestones \ Paid : Bounded(m)
  <2> SUFFICES ASSUME TypeOK, [Next]_vars, NEW m \in Milestones \ Paid,
                      Paid' = Paid \cup {m}, ~(milestoneIds \subseteq Paid')
               PROVE  ledger["milestone"] - ledger'["milestone"]
                        <= fundAllocated[m]
                             + Max({1, Cardinality(milestoneContract!SubMilestonesOf(m))})
    OBVIOUS
  <2>1. Paid' # Paid
    OBVIOUS
  <2>2. PICK c \in Callers : Settle(c)
    <3>1. CASE UNCHANGED vars
      BY <2>1, <3>1 DEF Paid, milestoneContract!Paid, vars, contractVars
    <3>2. QED
      BY <2>1, <3>1, ManagePromise, FundPromise, WorkPromise, EnvironmentPromise
         DEF Next, promiseState
  <2>3. payoutMilestone(c, m)
    <3>1. ASSUME payoutProject(c)
          PROVE  FALSE
      <4>1. milestoneIds \in SUBSET Milestones /\ milestoneContract!payout(milestoneIds)
        BY <3>1 DEF payoutProject, TypeOK, milestoneContract!MilestoneTypeOK
      <4>2. QED
        BY <4>1, PayoutPays
    <3>2. ASSUME NEW k \in Milestones,
                 payoutMilestoneRoyalty(c, k) \/ releaseMilestoneRoyalty(c, k)
          PROVE  FALSE
      BY <2>1, <3>2 DEF payoutMilestoneRoyalty, releaseMilestoneRoyalty, Paid,
                        milestoneContract!Paid
    <3>3. ASSUME releaseFreeBalance(c)
          PROVE  FALSE
      BY <2>1, <3>3 DEF releaseFreeBalance, contractVars, Paid, milestoneContract!Paid
    <3>4. ASSUME NEW k \in Milestones, payoutMilestone(c, k)
          PROVE  k = m
      <4>1. {k} \in SUBSET Milestones /\ milestoneContract!payout({k})
        BY <3>4 DEF payoutMilestone
      <4>2. k \notin Paid /\ Paid' = Paid \cup {k}
        BY <4>1, PayoutPays
      <4>3. QED
        BY <4>2
    <3>5. QED
      BY <2>2, <3>1, <3>2, <3>3, <3>4 DEF Settle
  <2> DEFINE bill == milestoneContract!PayoutBill(m)
             last == milestoneIds \subseteq Paid \cup {m}
  <2>4. PayMilestones({m}, bill, last) /\ ~last
    BY <2>3 DEF payoutMilestone
  <2>5. milestoneContract!Payable(m)
    BY <2>3 DEF payoutMilestone, milestoneContract!payout
  <2>6. BillTotal(bill) <= fundAllocated[m]
                             + Max({1, Cardinality(milestoneContract!SubMilestonesOf(m))})
    BY <2>5, PayoutTotal
  <2>7. /\ ledger \in [Account -> Nat] /\ ledger' \in [Account -> Nat]
        /\ "milestone" \in Contracts /\ "milestone" \in Account
    BY TypeNext DEF TypeOK, LedgerTypeOK, Contracts, Account
  <2> HIDE DEF bill, last
  <2>8. /\ BillTotal(bill) \in Nat
        /\ ledger["milestone"] - ledger'["milestone"] <= BillTotal(bill)
    <3>1. PICK unpaid : PayFrom("milestone", bill, unpaid, last)
      BY <2>4, PayMilestonesIsPayFrom
    <3>2. QED
      BY <2>4, <2>7, <3>1, PayFromDraw
  <2>9. /\ ledger["milestone"] - ledger'["milestone"] \in Int
        /\ fundAllocated[m] + Max({1, Cardinality(milestoneContract!SubMilestonesOf(m))}) \in Int
    <3>1. milestoneContract!SubMilestonesOf(m) \subseteq Items
      BY AmountsNat
         DEF milestoneContract!SubMilestonesOf, TypeOK, milestoneContract!MilestoneTypeOK
    <3>2. Cardinality(milestoneContract!SubMilestonesOf(m)) \in Nat
      BY <3>1, ItemsFinite, FS_CardinalityType
    <3>3. fundAllocated[m] \in Nat
      BY AmountsNat
    <3>4. QED
      BY <2>7, <3>2, <3>3, MaxBounds
  <2>10. QED
    BY <2>6, <2>8, <2>9
<1>2. QED
  BY <1>1, TypeCorrect, PTL DEF Spec, DrawBounded
=============================================================================
