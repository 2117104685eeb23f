------------------------------- MODULE Ledger -------------------------------
(***************************************************************************)
(* The money of one escrow and the clock of the chain, as the three        *)
(* contracts of src/smart-contract see them.  A transaction is atomic: it  *)
(* either runs to its end or reverts and changes nothing, so every failed  *)
(* "require" and every arithmetic underflow is a false guard here.         *)
(*                                                                         *)
(* Accounts are the three contracts and the wallets they pay.  The wallets *)
(* of all individual providers are one account, "ip".  Amounts are in the  *)
(* currency of the project: HBAR, or the USDC token.                       *)
(***************************************************************************)
EXTENDS Integers, FiniteSetsExt

CONSTANTS
  currencyType,         \* "HBAR" or "USDC", fixed by the Escrow constructor
  PurchaserBalance,     \* what the purchaser's wallet holds at the start
  MaxTime,              \* bound: last block time the model reaches
  MaxReward             \* bound: staking reward the network pays out in all

Wallets == {"purchaser", "provider", "ip", "fee"}
Contracts == {"escrow", "milestone", "royalty"}
Account == Wallets \cup Contracts

ASSUME LedgerAssumption ==
  /\ currencyType \in {"HBAR", "USDC"}
  /\ PurchaserBalance \in Nat
  /\ MaxTime \in Nat
  /\ MaxReward \in Nat

VARIABLES
  ledger,         \* balance of every account
  moFeePercent,   \* MO_FEE_PERCENT of the contracts: hundredths of a percent
  rewarded,       \* staking rewards the network has paid to the contracts
  now             \* block.timestamp

ledgerVars == <<ledger, moFeePercent, rewarded, now>>

-----------------------------------------------------------------------------
\* (amount * (MO_FEE_IN_PERCENT / 100)) / 100 : two truncating divisions.
WholePercent == moFeePercent \div 100
Fee(amount) == (amount * WholePercent) \div 100
LessFee(amount) == amount - Fee(amount)

\* What one transaction pays out of a contract, by recipient.
Bill == [purchaser : Nat, provider : Nat, ip : Nat, fee : Nat]
NoBill == [purchaser |-> 0, provider |-> 0, ip |-> 0, fee |-> 0]
BillTotal(bill) == bill.purchaser + bill.provider + bill.ip + bill.fee

\* An HBAR transfer that fails reverts its transaction.  What the token
\* contract returns is looked at by nobody: USDC transfers that are refused,
\* any of those a transaction makes, leave it running.
Refusals(transfers) == IF currencyType = "HBAR" THEN {{}} ELSE SUBSET transfers

\* What is paid of a bill when the refused transfers add up to "unpaid".
Honoured(bill, unpaid) ==
  [purchaser |-> bill.purchaser - unpaid.purchaser,
   provider  |-> bill.provider - unpaid.provider,
   ip        |-> bill.ip - unpaid.ip,
   fee       |-> bill.fee - unpaid.fee]

Debited(l, source, bill) ==
  [a \in Account |-> IF a = source THEN l[a] - BillTotal(bill)
                     ELSE IF a \in Wallets THEN l[a] + bill[a]
                     ELSE l[a]]

\* releaseStakingReward of the Milestone and the Royalty contract: the whole
\* HBAR balance goes, half of it less the fee to the purchaser.
PurchaserReward(balance) == ((balance \div 2) * (100 - WholePercent)) \div 100

StakingRewardReleased(l, source) ==
  [l EXCEPT ![source] = 0,
            !["purchaser"] = @ + PurchaserReward(l[source]),
            !["fee"] = @ + (l[source] - PurchaserReward(l[source]))]

FaultyPayOverdraft(source, bill, unpaid, releases) ==   \* faulty: no balance check
  /\ {bill, unpaid} \subseteq Bill
  /\ ledger' = Debited(ledger, source, Honoured(bill, unpaid))

\* Pay a bill from a contract, but for what was refused, and in the same
\* transaction release its staking reward when "releases" holds.  A bill with
\* a negative entry is an underflow, a total above the balance a transfer
\* that fails.
PayFrom(source, bill, unpaid, releases) ==
  LET honoured == Honoured(bill, unpaid)
      paid == Debited(ledger, source, honoured)
      splits == releases /\ currencyType = "HBAR" /\ paid[source] > 0
  IN  /\ {bill, unpaid, honoured} \subseteq Bill
      /\ BillTotal(honoured) \in 0 .. ledger[source]
      /\ splits => WholePercent <= 100
      /\ ledger' = IF splits THEN StakingRewardReleased(paid, source)
                             ELSE paid

\* Move what funds a milestone or the project from the purchaser's wallet;
\* the surplus of msg.value that is not sent back stays with the escrow.
FundFromPurchaser(milestoneFund, royaltyFund, surplus) ==
  \E refused \in Refusals({"milestone", "royalty"}) :
    LET toMilestone == IF "milestone" \in refused THEN 0 ELSE milestoneFund
        toRoyalty == IF "royalty" \in refused THEN 0 ELSE royaltyFund
        spent == toMilestone + toRoyalty + surplus
    IN  /\ {toMilestone, toRoyalty, surplus} \subseteq Nat
        /\ spent <= ledger["purchaser"]
        /\ ledger' = [ledger EXCEPT !["purchaser"] = @ - spent,
                                    !["milestone"] = @ + toMilestone,
                                    !["royalty"] = @ + toRoyalty,
                                    !["escrow"] = @ + surplus]

\* Outside the program: blocks advance, and the network pays the accounts
\* that are staked (stakingMilestone and stakingRoyalty) their reward.
Tick ==
  /\ now < MaxTime
  /\ now' = now + 1
  /\ UNCHANGED <<ledger, moFeePercent, rewarded>>

StakingReward(contract) ==
  /\ currencyType = "HBAR"
  /\ rewarded < MaxReward
  /\ rewarded' = rewarded + 1
  /\ ledger' = [ledger EXCEPT ![contract] = @ + 1]
  /\ UNCHANGED <<moFeePercent, now>>

LedgerInit ==
  /\ ledger = [a \in Account |-> IF a = "purchaser" THEN PurchaserBalance ELSE 0]
  /\ rewarded = 0
  /\ now = 0

LedgerTypeOK ==
  /\ ledger \in [Account -> Nat]
  /\ moFeePercent \in Nat
  /\ rewarded \in 0 .. MaxReward
  /\ now \in 0 .. MaxTime
=============================================================================
