-------------------------- MODULE DeploymentProofs --------------------------
(***************************************************************************)
(* Proofs about EscrowDeployment, for any number of requests, milestones   *)
(* and batches, and any of the faults.                                     *)
(*                                                                         *)
(* RowTruthful is not inductive: what a request writes to the row depends  *)
(* on the row it read and on what it did since.  The invariant adds that   *)
(* both are true of the chain, and that contracts never lose anything.     *)
(***************************************************************************)
EXTENDS EscrowDeployment, SequenceTheorems, TLAPS

\* A contract keeps what it has.
Grows(chain, next) ==
  /\ Len(chain) <= Len(next)
  /\ \A id \in 1 .. Len(chain) :
       /\ chain[id].prepared => next[id].prepared
       /\ chain[id].milestones \subseteq next[id].milestones
       /\ chain[id].owner = "purchaser" => next[id].owner = "purchaser"

\* An address is written together with the success of the deployment.
Addressed(row) == row.escrowDeployedStatus # "SUCCESS" => row.escrowAddress = 0

\* What a request has done is on the chain, and it deploys only where the row
\* it read names no contract.
Held(chain, row, deployed, res) ==
  /\ deployed \in 0 .. Len(chain)
  /\ deployed # 0 => row.escrowDeployedStatus # "SUCCESS"
  /\ res.escrowAddress \in {0, deployed}
  /\ res.escrowAddress # 0 => chain[deployed].prepared
  /\ res.milestonesAdded =>
       /\ row.escrowDeployedStatus = "SUCCESS" \/ res.escrowAddress # 0
       /\ Batch(0) \subseteq chain[UsedContract(row, deployed)].milestones
  /\ res.ownershipTransferred =>
       /\ res.milestonesAdded \/ row.addMilestoneStatus = "SUCCESS"
       /\ chain[UsedContract(row, deployed)].owner = "purchaser"

\* Where a request is tells what it has done.
Where(step, row, deployed, res, passed) ==
  /\ step \in {"idle", "read", "deploy"} =>
       deployed = 0 /\ res = NoResult /\ passed = 0
  /\ step \in {"idle", "read"} => row = NewRow
  /\ step \in {"deploy", "stake"} =>
       row.escrowDeployedStatus # "SUCCESS" /\ res = NoResult /\ passed = 0
  /\ step = "stake" => deployed # 0
  /\ step \in {"add", "transfer"} =>
       /\ row.escrowDeployedStatus = "SUCCESS" \/ res.escrowAddress # 0
       /\ ~res.ownershipTransferred
  /\ step = "add" => passed = 0 \/ res.milestonesAdded
  /\ step = "transfer" => res.milestonesAdded \/ row.addMilestoneStatus = "SUCCESS"

CallInv(c) ==
  /\ Truthful(escrowData[c], contracts)
  /\ Addressed(escrowData[c])
  /\ Held(contracts, escrowData[c], contractId[c], result[c])
  /\ Where(pc[c], escrowData[c], contractId[c], result[c], i[c])

DeploymentInv ==
  /\ TypeOK
  /\ RowTruthful
  /\ Addressed(escrow)
  /\ \A c \in Calls : CallInv(c)

-----------------------------------------------------------------------------
(* Types.                                                                  *)

LEMMA RowsTyped ==
  ASSUME NEW row \in Row, NEW deployed \in ContractId, NEW res \in Result
  PROVE  /\ Returned(row, deployed, res) \in Row
         /\ Caught(row, deployed, res) \in Row
BY DEF Returned, Caught, UsedContract, Row, Result, ContractDeployStatus

LEMMA StepsTyped ==
  ASSUME NEW row
  PROVE  /\ DeployOrLater(row) \in Steps
         /\ AddOrLater(row) \in Steps
         /\ TransferOrSave(row) \in Steps
BY DEF DeployOrLater, AddOrLater, TransferOrSave, Steps

LEMMA NothingTyped == NewRow \in Row /\ NoResult \in Result
BY DeploymentAssumption
   DEF NewRow, NoResult, Row, Result, ContractDeployStatus, ContractId,
       DeploymentAssumption

\* What a transaction makes of the contracts.
LEMMA ContractsTyped ==
  ASSUME contracts \in Seq(Contract),
         NEW id \in Nat, NEW ids \in SUBSET MilestoneIds
  PROVE  /\ Deployed \in Seq(Contract) /\ Len(Deployed) = Len(contracts) + 1
         /\ Extended(id, ids) \in Seq(Contract)
         /\ Len(Extended(id, ids)) = Len(contracts)
         /\ HandedOver(id) \in Seq(Contract)
         /\ Len(HandedOver(id)) = Len(contracts)
         /\ [contracts EXCEPT ![id].prepared = TRUE] \in Seq(Contract)
         /\ Len([contracts EXCEPT ![id].prepared = TRUE]) = Len(contracts)
<1>1. Deployed \in Seq(Contract) /\ Len(Deployed) = Len(contracts) + 1
  BY DEF Deployed, Contract
<1>2. ASSUME id \in 1 .. Len(contracts), NEW contract \in Contract
      PROVE  /\ [contracts EXCEPT ![id] = contract] \in Seq(Contract)
             /\ Len([contracts EXCEPT ![id] = contract]) = Len(contracts)
  BY <1>2, ExceptSeq
<1>3. ASSUME NEW contract \in Contract
      PROVE  /\ [contract EXCEPT !.milestones = @ \cup ids] \in Contract
             /\ [contract EXCEPT !.owner = "purchaser"] \in Contract
             /\ [contract EXCEPT !.prepared = TRUE] \in Contract
  BY <1>3 DEF Contract
<1>4. CASE id \in 1 .. Len(contracts)
  <2>1. contracts[id] \in Contract
    BY <1>4
  <2> QED
    BY <1>1, <1>2, <1>3, <1>4, <2>1 DEF Extended, HandedOver
<1>5. CASE id \notin 1 .. Len(contracts)
  <2>1. /\ Extended(id, ids) = contracts
        /\ HandedOver(id) = contracts
        /\ [contracts EXCEPT ![id].prepared = TRUE] = contracts
    BY <1>5 DEF Extended, HandedOver
  <2> QED
    BY <1>1, <2>1
<1> QED
  BY <1>4, <1>5

LEMMA TypeInit == Init => TypeOK
BY DeploymentAssumption, NothingTyped
   DEF Init, TypeOK, ContractId, Steps, DeploymentAssumption

LEMMA EndTyped ==
  ASSUME TypeOK, NEW c \in Calls, End(c)
  PROVE  /\ pc' \in [Calls -> Steps] /\ escrowData' \in [Calls -> Row]
         /\ contractId' \in [Calls -> ContractId]
         /\ result' \in [Calls -> Result]
         /\ i' \in [Calls -> Nat] /\ failed' \in [Calls -> BOOLEAN]
         /\ UNCHANGED <<faults, callers>>
BY NothingTyped, DeploymentAssumption
   DEF TypeOK, End, Goto, Steps, ContractId, DeploymentAssumption

LEMMA TypeStep == TypeOK /\ [Next]_vars => TypeOK'
<1> SUFFICES ASSUME TypeOK, [Next]_vars PROVE TypeOK'
  OBVIOUS
<1>1. CASE UNCHANGED vars
  BY <1>1 DEF TypeOK, vars, callVars
<1>2. ASSUME NEW c \in Calls, Request(c) PROVE TypeOK'
  BY <1>2 DEF Request, Goto, TypeOK, Steps
<1>3. ASSUME NEW c \in Calls, ReadEscrow(c) PROVE TypeOK'
  BY <1>3, StepsTyped DEF ReadEscrow, Goto, TypeOK
<1>4. ASSUME NEW c \in Calls, Deploy(c) PROVE TypeOK'
  <2>1. Deployed \in Seq(Contract) /\ Len(Deployed) = Len(contracts) + 1
    BY ContractsTyped DEF TypeOK
  <2>2. contracts' \in Seq(Contract) /\ Len(contracts') <= MaxContracts
    BY <1>4, <2>1, DeploymentAssumption
       DEF Deploy, Fail, TypeOK, DeploymentAssumption
  <2>3. Len(contracts) + 1 \in ContractId
    BY <1>4, DeploymentAssumption
       DEF Deploy, TypeOK, ContractId, DeploymentAssumption
  <2>4. /\ contractId' \in [Calls -> ContractId] /\ pc' \in [Calls -> Steps]
        /\ UNCHANGED <<faults, callers>>
    BY <1>4, <2>3 DEF Deploy, Fail, Goto, TypeOK, Steps
  <2> QED
    BY <1>4, <2>2, <2>4 DEF Deploy, Fail, TypeOK
<1>5. ASSUME NEW c \in Calls, Stake(c) PROVE TypeOK'
  <2>1. contractId[c] \in Nat
    BY DEF TypeOK, ContractId
  <2>2. Prepared(c) \in Seq(Contract) /\ Len(Prepared(c)) = Len(contracts)
    BY <2>1, ContractsTyped DEF TypeOK, Prepared
  <2> QED
    BY <1>5, <2>2, StepsTyped DEF Stake, Fail, Goto, TypeOK, Steps, Result
<1>6. ASSUME NEW c \in Calls, AddMilestones(c) PROVE TypeOK'
  <2>1. Target(c) \in Nat
    BY DEF TypeOK, ContractId, Target, UsedContract, Row
  <2>2. Batch(i[c]) \in SUBSET MilestoneIds
    BY DEF Batch
  <2>3. /\ Extended(Target(c), Batch(i[c])) \in Seq(Contract)
        /\ Len(Extended(Target(c), Batch(i[c]))) = Len(contracts)
    BY <2>1, <2>2, ContractsTyped DEF TypeOK
  <2>4. contracts' \in Seq(Contract) /\ Len(contracts') <= MaxContracts
    BY <1>6, <2>3 DEF AddMilestones, TypeOK
  <2>5. i[c] + batchSize \in Nat
    BY DeploymentAssumption DEF TypeOK, DeploymentAssumption
  <2>6. /\ pc' \in [Calls -> Steps]
        /\ escrowData' = escrowData /\ contractId' = contractId
        /\ escrow' = escrow /\ project' = project
        /\ UNCHANGED <<faults, callers>>
    BY <1>6, StepsTyped DEF AddMilestones, Fail, Goto, TypeOK, Steps
  <2>7. /\ i' \in [Calls -> Nat] /\ result' \in [Calls -> Result]
        /\ failed' \in [Calls -> BOOLEAN]
    BY <1>6, <2>5 DEF AddMilestones, Fail, TypeOK, Result
  <2> QED
    BY <2>4, <2>6, <2>7 DEF TypeOK
<1>7. ASSUME NEW c \in Calls, TransferOwnership(c) PROVE TypeOK'
  <2>1. Target(c) \in Nat
    BY DEF TypeOK, ContractId, Target, UsedContract, Row
  <2>2. /\ HandedOver(Target(c)) \in Seq(Contract)
        /\ Len(HandedOver(Target(c))) = Len(contracts)
    BY <2>1, ContractsTyped DEF TypeOK
  <2> QED
    BY <1>7, <2>2 DEF TransferOwnership, Fail, Goto, TypeOK, Steps, Result
<1>8. ASSUME NEW c \in Calls, Save(c) PROVE TypeOK'
  <2>1. EscrowData(c) \in Row
    BY RowsTyped DEF EscrowData, TypeOK
  <2>2. CASE End(c)
    BY <1>8, <2>1, <2>2, EndTyped DEF Save, TypeOK
  <2>3. CASE ~End(c)
    BY <1>8, <2>1, <2>3 DEF Save, Goto, TypeOK, Steps
  <2> QED BY <2>2, <2>3
<1>9. ASSUME NEW c \in Calls, CreateTopic(c) PROVE TypeOK'
  BY <1>9, EndTyped DEF CreateTopic, TypeOK
<1>10. ASSUME NEW c \in Calls, Crash(c) PROVE TypeOK'
  BY <1>10, EndTyped DEF Crash, TypeOK
<1> QED
  BY <1>1, <1>2, <1>3, <1>4, <1>5, <1>6, <1>7, <1>8, <1>9, <1>10
     DEF Next, Continue, TypeOK

\* In every reachable state the contracts, the row, the project and the
\* variables of every request are of their types, and no more contracts are
\* deployed than the bound allows (HederaService.addEscrow).
THEOREM DeploymentTypeCorrect == Spec => []TypeOK
BY TypeInit, TypeStep, PTL DEF Spec

-----------------------------------------------------------------------------
(* What is true stays true while the chain grows.                          *)

LEMMA TruthStays ==
  ASSUME NEW row, NEW chain, NEW next, Grows(chain, next), Len(chain) \in Nat,
         Len(next) \in Nat, Truthful(row, chain)
  PROVE  Truthful(row, next)
BY DEF Grows, Truthful

LEMMA HeldStays ==
  ASSUME NEW row, NEW chain, NEW next, NEW deployed, NEW res,
         Grows(chain, next), Len(chain) \in Nat, Len(next) \in Nat,
         Truthful(row, chain), Held(chain, row, deployed, res)
  PROVE  Held(next, row, deployed, res)
BY DEF Grows, Truthful, Held, UsedContract

\* What a request returns in the end is true, whichever way it left.
LEMMA ReturnedTruthful ==
  ASSUME NEW row \in Row, NEW chain, NEW deployed, NEW res,
         Len(chain) \in Nat, Truthful(row, chain), Addressed(row),
         Held(chain, row, deployed, res)
  PROVE  /\ Truthful(Returned(row, deployed, res), chain)
         /\ Addressed(Returned(row, deployed, res))
BY DEF Truthful, Held, UsedContract, Returned, Addressed, Row

LEMMA CaughtTruthful ==
  ASSUME NEW row \in Row, NEW chain, NEW deployed, NEW res,
         Len(chain) \in Nat, Truthful(row, chain), Addressed(row),
         Held(chain, row, deployed, res)
  PROVE  /\ Truthful(Caught(row, deployed, res), chain)
         /\ Addressed(Caught(row, deployed, res))
BY DEF Truthful, Held, UsedContract, Caught, Addressed, Row

-----------------------------------------------------------------------------
(* The other requests: their variables are what they were, and the chain   *)
(* has only grown.                                                         *)

LEMMA OthersKeep ==
  ASSUME TypeOK, RowTruthful, Addressed(escrow), \A d \in Calls : CallInv(d),
         TypeOK', Grows(contracts, contracts'),
         NEW d \in Calls,
         pc'[d] = pc[d], escrowData'[d] = escrowData[d],
         contractId'[d] = contractId[d], result'[d] = result[d], i'[d] = i[d]
  PROVE  CallInv(d)'
<1>1. Len(contracts) \in Nat /\ Len(contracts') \in Nat
  BY DEF TypeOK
<1>2. CallInv(d)
  OBVIOUS
<1>3. Truthful(escrowData[d], contracts')
  BY <1>1, <1>2, TruthStays DEF CallInv
<1>4. Held(contracts', escrowData[d], contractId[d], result[d])
  BY <1>1, <1>2, HeldStays DEF CallInv
<1> QED
  BY <1>2, <1>3, <1>4 DEF CallInv

\* The request that moves, when the row stays.
LEMMA StepKeeps ==
  ASSUME TypeOK, RowTruthful, Addressed(escrow), \A d \in Calls : CallInv(d),
         TypeOK', Grows(contracts, contracts'), escrow' = escrow,
         NEW c \in Calls, CallInv(c)',
         \A d \in Calls \ {c} :
           /\ pc'[d] = pc[d] /\ escrowData'[d] = escrowData[d]
           /\ contractId'[d] = contractId[d] /\ result'[d] = result[d]
           /\ i'[d] = i[d]
  PROVE  DeploymentInv'
<1>1. Len(contracts) \in Nat /\ Len(contracts') \in Nat
  BY DEF TypeOK
<1>2. RowTruthful'
  BY <1>1, TruthStays DEF RowTruthful
<1>3. ASSUME NEW d \in Calls PROVE CallInv(d)'
  <2>1. CASE d = c
    BY <2>1
  <2>2. CASE d # c
    BY <2>2, OthersKeep
  <2> QED BY <2>1, <2>2
<1> QED
  BY <1>2, <1>3 DEF DeploymentInv, Addressed

-----------------------------------------------------------------------------
(* The steps.                                                              *)

LEMMA InvInit == Init => DeploymentInv
<1> SUFFICES ASSUME Init PROVE DeploymentInv
  OBVIOUS
<1>1. TypeOK
  BY TypeInit
<1>2. Truthful(NewRow, contracts) /\ Addressed(NewRow)
  BY DEF Truthful, Addressed, NewRow
<1>3. ASSUME NEW c \in Calls PROVE CallInv(c)
  <2>1. Held(contracts, NewRow, 0, NoResult)
    BY DEF Init, Held, NoResult
  <2>2. Where("idle", NewRow, 0, NoResult, 0)
    BY DEF Where
  <2> QED
    BY <1>2, <2>1, <2>2 DEF CallInv, Init
<1> QED
  BY <1>1, <1>2, <1>3 DEF DeploymentInv, RowTruthful, Init

\* A request that ends has nothing to tell.
LEMMA EndKeeps ==
  ASSUME TypeOK, NEW c \in Calls, End(c), Len(contracts') \in Nat
  PROVE  CallInv(c)'
<1>1. /\ pc'[c] = "idle" /\ escrowData'[c] = NewRow /\ contractId'[c] = 0
      /\ result'[c] = NoResult /\ i'[c] = 0
  BY DEF TypeOK, End, Goto
<1>2. Truthful(NewRow, contracts') /\ Addressed(NewRow)
  BY DEF Truthful, Addressed, NewRow
<1>3. Held(contracts', NewRow, 0, NoResult)
  BY DEF Held, NoResult
<1>4. Where("idle", NewRow, 0, NoResult, 0)
  BY DEF Where
<1> QED
  BY <1>1, <1>2, <1>3, <1>4 DEF CallInv

\* A request that fails goes to its catch with what it has done so far.
LEMMA FailKeeps ==
  ASSUME DeploymentInv, NEW c \in Calls, Fail(c), Grows(contracts, contracts'),
         Len(contracts') \in Nat
  PROVE  CallInv(c)'
<1>1. /\ pc'[c] = "save" /\ escrowData'[c] = escrowData[c]
      /\ contractId'[c] = contractId[c]
      /\ result'[c] = result[c] /\ i'[c] = i[c]
  BY DEF DeploymentInv, TypeOK, Fail, Goto
<1>2. CallInv(c) /\ Len(contracts) \in Nat
  BY DEF DeploymentInv, TypeOK
<1>3. Truthful(escrowData[c], contracts')
  BY <1>2, TruthStays DEF CallInv
<1>4. Held(contracts', escrowData[c], contractId[c], result[c])
  BY <1>2, HeldStays DEF CallInv
<1>5. Where("save", escrowData[c], contractId[c], result[c], i[c])
  BY DEF Where
<1> QED
  BY <1>1, <1>2, <1>3, <1>4, <1>5 DEF CallInv

\* No transaction takes anything from a contract.
LEMMA ChainGrows ==
  ASSUME contracts \in Seq(Contract),
         NEW id \in 1 .. Len(contracts), NEW ids \in SUBSET MilestoneIds
  PROVE  /\ Grows(contracts, Extended(id, ids))
         /\ Extended(id, ids)[id].milestones = contracts[id].milestones \cup ids
         /\ Grows(contracts, HandedOver(id))
         /\ HandedOver(id)[id].owner = "purchaser"
         /\ Grows(contracts, [contracts EXCEPT ![id].prepared = TRUE])
         /\ [contracts EXCEPT ![id].prepared = TRUE][id].prepared
<1>1. /\ Len(Extended(id, ids)) = Len(contracts)
      /\ Len(HandedOver(id)) = Len(contracts)
      /\ Len([contracts EXCEPT ![id].prepared = TRUE]) = Len(contracts)
      /\ Len(contracts) \in Nat
  <2>1. id \in Nat /\ Len(contracts) \in Nat
    OBVIOUS
  <2>2. Len(Extended(id, ids)) = Len(contracts)
    BY <2>1, ContractsTyped
  <2>3. Len(HandedOver(id)) = Len(contracts)
    BY <2>1, ContractsTyped
  <2>4. Len([contracts EXCEPT ![id].prepared = TRUE]) = Len(contracts)
    BY <2>1, ContractsTyped
  <2> QED
    BY <2>1, <2>2, <2>3, <2>4
<1>2. \A k \in 1 .. Len(contracts) : contracts[k] \in Contract
  OBVIOUS
<1>3. Grows(contracts, Extended(id, ids))
  BY <1>1, <1>2 DEF Grows, Extended, Contract
<1>4. Grows(contracts, HandedOver(id))
  BY <1>1, <1>2 DEF Grows, HandedOver, Contract
<1>5. Grows(contracts, [contracts EXCEPT ![id].prepared = TRUE])
  BY <1>1, <1>2 DEF Grows, Contract
<1>6. /\ Extended(id, ids)[id].milestones = contracts[id].milestones \cup ids
      /\ HandedOver(id)[id].owner = "purchaser"
      /\ [contracts EXCEPT ![id].prepared = TRUE][id].prepared
  BY <1>2 DEF Extended, HandedOver, Contract
<1> QED
  BY <1>3, <1>4, <1>5, <1>6

LEMMA DeployGrows ==
  ASSUME contracts \in Seq(Contract)
  PROVE  Grows(contracts, contracts) /\ Grows(contracts, Deployed)
BY DEF Grows, Deployed

\* A request that adds milestones or hands over does it to a contract it knows
\* to be there.
LEMMA TargetThere ==
  ASSUME DeploymentInv, NEW c \in Calls, pc[c] \in {"add", "transfer"}
  PROVE  Target(c) \in 1 .. Len(contracts)
<1>1. CallInv(c) /\ Len(contracts) \in Nat
  BY DEF DeploymentInv, TypeOK
<1>2. CASE escrowData[c].escrowDeployedStatus = "SUCCESS"
  BY <1>1, <1>2 DEF CallInv, Held, Truthful, Target, UsedContract
<1>3. CASE result[c].escrowAddress # 0
  BY <1>1, <1>3 DEF CallInv, Held, Target, UsedContract
<1> QED
  BY <1>1, <1>2, <1>3 DEF CallInv, Where

LEMMA RequestKeeps ==
  ASSUME DeploymentInv, TypeOK', NEW c \in Calls, Request(c) PROVE DeploymentInv'
<1>1. Grows(contracts, contracts')
  BY DeployGrows DEF Request, DeploymentInv, TypeOK
<1>2. /\ pc[c] = "idle" /\ pc'[c] = "read"
      /\ \A d \in Calls \ {c} : pc'[d] = pc[d]
  BY DEF Request, Goto, DeploymentInv, TypeOK
<1>3. CallInv(c)'
  BY <1>2 DEF Request, DeploymentInv, CallInv, Where
<1> QED
  BY <1>1, <1>2, <1>3, StepKeeps DEF Request, DeploymentInv

LEMMA ReadKeeps ==
  ASSUME DeploymentInv, TypeOK', NEW c \in Calls, ReadEscrow(c)
  PROVE  DeploymentInv'
<1>1. Grows(contracts, contracts') /\ Len(contracts) \in Nat
  BY DeployGrows DEF ReadEscrow, DeploymentInv, TypeOK
<1>2. /\ pc[c] = "read" /\ pc'[c] = DeployOrLater(escrow)
      /\ escrowData'[c] = escrow
      /\ \A d \in Calls \ {c} : pc'[d] = pc[d] /\ escrowData'[d] = escrowData[d]
  BY DEF ReadEscrow, Goto, DeploymentInv, TypeOK
<1>3. contractId[c] = 0 /\ result[c] = NoResult /\ i[c] = 0
  BY <1>2 DEF DeploymentInv, CallInv, Where
<1>4. Held(contracts, escrow, 0, NoResult)
  BY <1>1 DEF Held, NoResult
<1>5. Where(DeployOrLater(escrow), escrow, 0, NoResult, 0)
  BY DEF Where, DeployOrLater, AddOrLater, TransferOrSave, NoResult,
         DeploymentInv, RowTruthful, Truthful
<1>6. CallInv(c)'
  BY <1>2, <1>3, <1>4, <1>5 DEF ReadEscrow, DeploymentInv, RowTruthful, CallInv
<1> QED
  BY <1>1, <1>2, <1>6, StepKeeps DEF ReadEscrow, DeploymentInv

LEMMA DeployKeeps ==
  ASSUME DeploymentInv, TypeOK', NEW c \in Calls, Deploy(c) PROVE DeploymentInv'
<1>1. /\ Grows(contracts, contracts')
      /\ Len(contracts) \in Nat /\ Len(contracts') \in Nat
  BY DeployGrows DEF Deploy, DeploymentInv, TypeOK
<1>2. /\ escrow' = escrow
      /\ \A d \in Calls \ {c} :
           /\ pc'[d] = pc[d] /\ escrowData'[d] = escrowData[d]
           /\ contractId'[d] = contractId[d] /\ result'[d] = result[d]
           /\ i'[d] = i[d]
  BY DEF Deploy, Fail, Goto, DeploymentInv, TypeOK
<1>3. CASE Fail(c)
  <2>1. CallInv(c)'
    BY <1>1, <1>3, FailKeeps
  <2> QED
    BY <1>1, <1>2, <2>1, StepKeeps DEF DeploymentInv
<1>4. CASE ~Fail(c)
  <2>1. /\ contracts' = Deployed
        /\ pc[c] = "deploy" /\ pc'[c] = "stake"
        /\ escrowData'[c] = escrowData[c]
        /\ contractId'[c] = Len(contracts) + 1
        /\ result'[c] = result[c] /\ i'[c] = i[c]
    BY <1>4 DEF Deploy, Goto, DeploymentInv, TypeOK
  <2>2. CallInv(c)
    BY DEF DeploymentInv
  <2>3. /\ escrowData[c].escrowDeployedStatus # "SUCCESS"
        /\ result[c] = NoResult /\ i[c] = 0
    BY <2>1, <2>2 DEF CallInv, Where
  <2>4. Truthful(escrowData[c], contracts')
    BY <1>1, <2>2, TruthStays DEF CallInv
  <2>5. Len(contracts') = Len(contracts) + 1
    BY <2>1, ContractsTyped DEF DeploymentInv, TypeOK
  <2>6. Held(contracts', escrowData[c], Len(contracts) + 1, NoResult)
    BY <1>1, <2>3, <2>5 DEF Held, NoResult
  <2>7. Where("stake", escrowData[c], Len(contracts) + 1, NoResult, 0)
    BY <1>1, <2>3 DEF Where
  <2>8. CallInv(c)'
    BY <2>1, <2>2, <2>3, <2>4, <2>6, <2>7 DEF CallInv
  <2> QED
    BY <1>1, <1>2, <2>8, StepKeeps DEF DeploymentInv
<1> QED
  BY <1>3, <1>4

LEMMA StakeKeeps ==
  ASSUME DeploymentInv, TypeOK', NEW c \in Calls, Stake(c) PROVE DeploymentInv'
<1>1. CallInv(c) /\ Len(contracts) \in Nat /\ Len(contracts') \in Nat
  BY DEF DeploymentInv, TypeOK
<1>2. /\ pc[c] = "stake" /\ contractId[c] \in 1 .. Len(contracts)
      /\ escrowData[c].escrowDeployedStatus # "SUCCESS"
      /\ result[c] = NoResult /\ i[c] = 0
  BY <1>1 DEF Stake, CallInv, Where, Held
<1>3. Grows(contracts, contracts')
  BY <1>2, ChainGrows, DeployGrows DEF Stake, Prepared, DeploymentInv, TypeOK
<1>4. /\ escrow' = escrow
      /\ \A d \in Calls \ {c} :
           /\ pc'[d] = pc[d] /\ escrowData'[d] = escrowData[d]
           /\ contractId'[d] = contractId[d] /\ result'[d] = result[d]
           /\ i'[d] = i[d]
  BY DEF Stake, Fail, Goto, DeploymentInv, TypeOK
<1>5. CASE Fail(c)
  <2>1. CallInv(c)'
    BY <1>1, <1>3, <1>5, FailKeeps
  <2> QED
    BY <1>3, <1>4, <2>1, StepKeeps DEF DeploymentInv
<1>6. CASE ~Fail(c)
  <2>1. /\ contracts' = Prepared(c)
        /\ pc'[c] = AddOrLater(escrowData[c])
        /\ escrowData'[c] = escrowData[c] /\ contractId'[c] = contractId[c]
        /\ result'[c] = [NoResult EXCEPT !.escrowAddress = contractId[c]]
        /\ i'[c] = 0
    BY <1>2, <1>6 DEF Stake, Goto, DeploymentInv, TypeOK
  <2>2. Truthful(escrowData[c], contracts')
    BY <1>1, <1>3, TruthStays DEF CallInv
  <2>3. contracts'[contractId[c]].prepared
    BY <1>2, <2>1, ChainGrows DEF Prepared, DeploymentInv, TypeOK
  <2>4. Len(contracts) <= Len(contracts')
    BY <1>3 DEF Grows
  <2>5. Held(contracts', escrowData[c], contractId[c], result'[c])
    BY <1>1, <1>2, <2>1, <2>3, <2>4 DEF Held, NoResult
  <2>6. pc'[c] = "add"
    BY <1>1, <1>2, <2>1 DEF CallInv, Truthful, AddOrLater
  <2>7. Where("add", escrowData[c], contractId[c], result'[c], 0)
    BY <1>2, <2>1 DEF Where, NoResult
  <2>8. CallInv(c)'
    BY <1>1, <2>1, <2>2, <2>5, <2>6, <2>7 DEF CallInv
  <2> QED
    BY <1>3, <1>4, <2>8, StepKeeps DEF DeploymentInv
<1> QED
  BY <1>5, <1>6

LEMMA AddKeeps ==
  ASSUME DeploymentInv, TypeOK', NEW c \in Calls, AddMilestones(c)
  PROVE  DeploymentInv'
<1>1. CallInv(c) /\ Len(contracts) \in Nat /\ Len(contracts') \in Nat
  BY DEF DeploymentInv, TypeOK
<1>2. pc[c] = "add" /\ Target(c) \in 1 .. Len(contracts)
  BY TargetThere DEF AddMilestones
<1>3. Batch(i[c]) \in SUBSET MilestoneIds
  BY DEF Batch
<1>4. Grows(contracts, contracts')
  <2>1. Grows(contracts, Extended(Target(c), Batch(i[c])))
    BY <1>2, <1>3, ChainGrows DEF DeploymentInv, TypeOK
  <2> QED
    BY <2>1, DeployGrows DEF AddMilestones, DeploymentInv, TypeOK
<1>5. /\ escrow' = escrow
      /\ \A d \in Calls \ {c} :
           /\ pc'[d] = pc[d] /\ escrowData'[d] = escrowData[d]
           /\ contractId'[d] = contractId[d] /\ result'[d] = result[d]
           /\ i'[d] = i[d]
  BY DEF AddMilestones, Fail, Goto, DeploymentInv, TypeOK
<1>6. CASE Fail(c)
  <2>1. CallInv(c)'
    BY <1>1, <1>4, <1>6, FailKeeps
  <2> QED
    BY <1>4, <1>5, <2>1, StepKeeps DEF DeploymentInv
<1>7. CASE ~Fail(c)
  <2>1. /\ contracts' = Extended(Target(c), Batch(i[c]))
        /\ pc'[c] \in {"add", TransferOrSave(escrowData[c])}
        /\ escrowData'[c] = escrowData[c] /\ contractId'[c] = contractId[c]
        /\ result'[c] = [result[c] EXCEPT !.milestonesAdded = TRUE]
    BY <1>7 DEF AddMilestones, Goto, DeploymentInv, TypeOK
  <2>2. result[c] \in Result
    BY DEF DeploymentInv, TypeOK
  <2>3. /\ result'[c].milestonesAdded
        /\ result'[c].escrowAddress = result[c].escrowAddress
        /\ result'[c].ownershipTransferred = result[c].ownershipTransferred
    BY <2>1, <2>2 DEF Result
  <2>4. Truthful(escrowData[c], contracts')
    BY <1>1, <1>4, TruthStays DEF CallInv
  <2>5. Held(contracts', escrowData[c], contractId[c], result[c])
    BY <1>1, <1>4, HeldStays DEF CallInv
  <2>6. contracts'[Target(c)].milestones
          = contracts[Target(c)].milestones \cup Batch(i[c])
    BY <1>2, <1>3, <2>1, ChainGrows DEF DeploymentInv, TypeOK
  <2>7. Batch(0) \subseteq contracts'[Target(c)].milestones
    <3>1. CASE i[c] = 0
      BY <2>6, <3>1
    <3>2. CASE result[c].milestonesAdded
      BY <1>1, <2>6, <3>2 DEF CallInv, Held, Target
    <3> QED
      BY <1>1, <1>2, <3>1, <3>2 DEF CallInv, Where
  <2>8. /\ escrowData[c].escrowDeployedStatus = "SUCCESS"
             \/ result[c].escrowAddress # 0
        /\ ~result[c].ownershipTransferred
    BY <1>1, <1>2 DEF CallInv, Where
  <2>9. Held(contracts', escrowData[c], contractId[c], result'[c])
    BY <2>3, <2>5, <2>7, <2>8 DEF Held, Target
  <2>10. Where(pc'[c], escrowData[c], contractId[c], result'[c], i'[c])
    BY <2>1, <2>3, <2>8 DEF Where, TransferOrSave
  <2>11. CallInv(c)'
    BY <1>1, <2>1, <2>4, <2>9, <2>10 DEF CallInv
  <2> QED
    BY <1>4, <1>5, <2>11, StepKeeps DEF DeploymentInv
<1> QED
  BY <1>6, <1>7

LEMMA TransferKeeps ==
  ASSUME DeploymentInv, TypeOK', NEW c \in Calls, TransferOwnership(c)
  PROVE  DeploymentInv'
<1>1. CallInv(c) /\ Len(contracts) \in Nat /\ Len(contracts') \in Nat
  BY DEF DeploymentInv, TypeOK
<1>2. pc[c] = "transfer" /\ Target(c) \in 1 .. Len(contracts)
  BY TargetThere DEF TransferOwnership
<1>3. Grows(contracts, contracts')
  <2>1. {} \in SUBSET MilestoneIds
    OBVIOUS
  <2>2. Grows(contracts, HandedOver(Target(c)))
    BY <1>2, <2>1, ChainGrows DEF DeploymentInv, TypeOK
  <2> QED
    BY <2>2, DeployGrows DEF TransferOwnership, DeploymentInv, TypeOK
<1>4. /\ escrow' = escrow
      /\ \A d \in Calls \ {c} :
           /\ pc'[d] = pc[d] /\ escrowData'[d] = escrowData[d]
           /\ contractId'[d] = contractId[d] /\ result'[d] = result[d]
           /\ i'[d] = i[d]
  BY DEF TransferOwnership, Fail, Goto, DeploymentInv, TypeOK
<1>5. CASE Fail(c)
  <2>1. CallInv(c)'
    BY <1>1, <1>3, <1>5, FailKeeps
  <2> QED
    BY <1>3, <1>4, <2>1, StepKeeps DEF DeploymentInv
<1>6. CASE ~Fail(c)
  <2>1. /\ contracts' = HandedOver(Target(c))
        /\ pc'[c] = "save"
        /\ escrowData'[c] = escrowData[c] /\ contractId'[c] = contractId[c]
        /\ result'[c] = [result[c] EXCEPT !.ownershipTransferred = TRUE]
    BY <1>6 DEF TransferOwnership, Goto, DeploymentInv, TypeOK
  <2>2. result[c] \in Result
    BY DEF DeploymentInv, TypeOK
  <2>3. /\ result'[c].ownershipTransferred
        /\ result'[c].escrowAddress = result[c].escrowAddress
        /\ result'[c].milestonesAdded = result[c].milestonesAdded
    BY <2>1, <2>2 DEF Result
  <2>4. Truthful(escrowData[c], contracts')
    BY <1>1, <1>3, TruthStays DEF CallInv
  <2>5. Held(contracts', escrowData[c], contractId[c], result[c])
    BY <1>1, <1>3, HeldStays DEF CallInv
  <2>6. contracts'[Target(c)].owner = "purchaser"
    <3>1. {} \in SUBSET MilestoneIds
      OBVIOUS
    <3> QED
      BY <1>2, <2>1, <3>1, ChainGrows DEF DeploymentInv, TypeOK
  <2>7. result[c].milestonesAdded \/ escrowData[c].addMilestoneStatus = "SUCCESS"
    BY <1>1, <1>2 DEF CallInv, Where
  <2>8. Held(contracts', escrowData[c], contractId[c], result'[c])
    BY <2>3, <2>5, <2>6, <2>7 DEF Held, Target
  <2>9. Where("save", escrowData[c], contractId[c], result'[c], i'[c])
    BY DEF Where
  <2>10. CallInv(c)'
    BY <1>1, <2>1, <2>4, <2>8, <2>9 DEF CallInv
  <2> QED
    BY <1>3, <1>4, <2>10, StepKeeps DEF DeploymentInv
<1> QED
  BY <1>5, <1>6

LEMMA SaveKeeps ==
  ASSUME DeploymentInv, TypeOK', NEW c \in Calls, Save(c) PROVE DeploymentInv'
<1>1. CallInv(c) /\ Len(contracts) \in Nat /\ escrowData[c] \in Row
  BY DEF DeploymentInv, TypeOK
<1>2. contracts' = contracts /\ Grows(contracts, contracts')
  BY DeployGrows DEF Save, DeploymentInv, TypeOK
<1>3. Truthful(EscrowData(c), contracts) /\ Addressed(EscrowData(c))
  BY <1>1, ReturnedTruthful, CaughtTruthful DEF EscrowData, CallInv
<1>4. RowTruthful' /\ Addressed(escrow')
  BY <1>2, <1>3 DEF Save, RowTruthful
<1>5. \A d \in Calls \ {c} :
        /\ pc'[d] = pc[d] /\ escrowData'[d] = escrowData[d]
        /\ contractId'[d] = contractId[d] /\ result'[d] = result[d]
        /\ i'[d] = i[d]
  BY DEF Save, End, Goto, DeploymentInv, TypeOK
<1>6. CallInv(c)'
  <2>1. CASE End(c)
    BY <1>1, <1>2, <2>1, EndKeeps DEF DeploymentInv
  <2>2. CASE ~End(c)
    <3>1. /\ pc'[c] = "topic" /\ escrowData' = escrowData
          /\ contractId' = contractId /\ result' = result /\ i' = i
      BY <2>2 DEF Save, Goto, DeploymentInv, TypeOK
    <3>2. Where("topic", escrowData[c], contractId[c], result[c], i[c])
      BY DEF Where
    <3> QED
      BY <1>1, <1>2, <3>1, <3>2 DEF CallInv
  <2> QED
    BY <2>1, <2>2
<1>7. ASSUME NEW d \in Calls PROVE CallInv(d)'
  <2>1. CASE d = c
    BY <1>6, <2>1
  <2>2. CASE d # c
    BY <1>2, <1>5, <2>2, OthersKeep DEF DeploymentInv
  <2> QED
    BY <2>1, <2>2
<1> QED
  BY <1>4, <1>7 DEF DeploymentInv, Addressed

\* CreateTopic and Crash: the request is over, the row and the chain stay.
LEMMA OverKeeps ==
  ASSUME DeploymentInv, TypeOK', NEW c \in Calls, End(c),
         UNCHANGED <<contracts, escrow>>
  PROVE  DeploymentInv'
<1>1. Grows(contracts, contracts') /\ Len(contracts') \in Nat
  BY DeployGrows DEF DeploymentInv, TypeOK
<1>2. CallInv(c)'
  BY <1>1, EndKeeps DEF DeploymentInv
<1>3. \A d \in Calls \ {c} :
        /\ pc'[d] = pc[d] /\ escrowData'[d] = escrowData[d]
        /\ contractId'[d] = contractId[d] /\ result'[d] = result[d]
        /\ i'[d] = i[d]
  BY DEF End, Goto, DeploymentInv, TypeOK
<1> QED
  BY <1>1, <1>2, <1>3, StepKeeps DEF DeploymentInv

LEMMA InvStep == DeploymentInv /\ [Next]_vars => DeploymentInv'
<1> SUFFICES ASSUME DeploymentInv, [Next]_vars PROVE DeploymentInv'
  OBVIOUS
<1>1. TypeOK'
  BY TypeStep DEF DeploymentInv
<1>2. CASE UNCHANGED vars
  BY <1>1, <1>2 DEF DeploymentInv, RowTruthful, CallInv, vars, callVars
<1>3. ASSUME NEW c \in Calls, Continue(c) PROVE DeploymentInv'
  BY <1>1, <1>3, ReadKeeps, DeployKeeps, StakeKeeps, AddKeeps, TransferKeeps,
     SaveKeeps, OverKeeps DEF Continue, CreateTopic
<1>4. ASSUME NEW c \in Calls, Request(c) PROVE DeploymentInv'
  BY <1>1, <1>4, RequestKeeps
<1>5. ASSUME NEW c \in Calls, Crash(c) PROVE DeploymentInv'
  BY <1>1, <1>5, OverKeeps DEF Crash
<1> QED
  BY <1>2, <1>3, <1>4, <1>5 DEF Next, DeploymentInv, TypeOK

\* However many requests overlap, whatever is refused, lost or cut off by a
\* crash, the Escrow row never claims what its contract does not have
\* (HederaService.addEscrow, ProjectsRepository.updateEscrow).
THEOREM RowNeverLies == Spec => []RowTruthful
<1>1. DeploymentInv => RowTruthful
  BY DEF DeploymentInv
<1> QED
  BY <1>1, InvInit, InvStep, PTL DEF Spec

-----------------------------------------------------------------------------
(* One request at a time: a topic is made for the contract of the row.     *)

\* Requests nobody sends do nothing; while a topic is made, and after, the row
\* is that of a contract handed over.
OwnedInv ==
  /\ \A c \in Calls \ callers : pc[c] = "idle"
  /\ OneAtATime =>
       /\ \A c \in Calls : pc[c] = "topic" => escrow.transferOwnershipStatus = "SUCCESS"
       /\ project = "CONTRACT_DEPLOYED" =>
            /\ escrow.transferOwnershipStatus = "SUCCESS"
            /\ \A c \in Calls : pc[c] = "idle"

LEMMA OwnedInit == Init => OwnedInv
BY DEF Init, OwnedInv

LEMMA OwnedStep == DeploymentInv /\ OwnedInv /\ [Next]_vars => OwnedInv'
<1> SUFFICES ASSUME DeploymentInv, OwnedInv, [Next]_vars PROVE OwnedInv'
  OBVIOUS
<1>1. CASE UNCHANGED vars
  BY <1>1 DEF OwnedInv, OneAtATime, vars, callVars
<1>2. ASSUME NEW c \in callers, Request(c) \/ Continue(c) \/ Crash(c)
      PROVE  OwnedInv'
  <2>1. /\ pc \in [Calls -> Steps] /\ c \in Calls
        /\ callers' = callers /\ \E step : pc' = [pc EXCEPT ![c] = step]
    BY <1>2 DEF DeploymentInv, TypeOK, Request, Continue, Crash, ReadEscrow, Deploy, Stake,
                AddMilestones, TransferOwnership, Save, CreateTopic, End, Fail, Goto
  <2>2. PICK step : pc' = [pc EXCEPT ![c] = step]
    BY <2>1
  <2>3. \A d \in Calls \ callers : pc'[d] = "idle"
    BY <2>1, <2>2 DEF OwnedInv
  <2>4. SUFFICES ASSUME OneAtATime
                 PROVE  /\ pc'[c] = "topic" => escrow'.transferOwnershipStatus = "SUCCESS"
                        /\ project' = "CONTRACT_DEPLOYED" =>
                             /\ escrow'.transferOwnershipStatus = "SUCCESS"
                             /\ pc'[c] = "idle"
    <3>1. OneAtATime' <=> OneAtATime
      BY <2>1 DEF OneAtATime
    <3>2. ASSUME OneAtATime, NEW d \in Calls, d # c
          PROVE  pc'[d] = "idle"
      BY <2>1, <2>2, <3>2 DEF OneAtATime, OwnedInv
    <3> QED
      BY <2>1, <2>3, <2>4, <3>1, <3>2 DEF OwnedInv
  <2>5. CASE Save(c)
    <3>1. project # "CONTRACT_DEPLOYED"
      BY <2>1, <2>4, <2>5 DEF OwnedInv, Save
    <3>2. CASE End(c)
      BY <2>1, <2>5, <3>1, <3>2 DEF Save, End, Goto
    <3>3. CASE ~End(c)
      BY <2>5, <3>1, <3>3 DEF Save
    <3> QED
      BY <3>2, <3>3
  <2>6. CASE CreateTopic(c)
    <3>1. pc'[c] = "idle" /\ escrow' = escrow
      BY <2>1, <2>6 DEF CreateTopic, End, Goto
    <3>2. escrow.transferOwnershipStatus = "SUCCESS"
      BY <2>1, <2>4, <2>6 DEF OwnedInv, CreateTopic
    <3> QED
      BY <3>1, <3>2
  <2>7. CASE Crash(c)
    BY <2>1, <2>4, <2>7 DEF Crash, End, Goto, OwnedInv
  <2>8. CASE ReadEscrow(c)
    <3>1. project # "CONTRACT_DEPLOYED" /\ project' = project
      BY <2>1, <2>4, <2>8 DEF OwnedInv, ReadEscrow
    <3>2. pc'[c] # "topic"
      BY <2>1, <2>8 DEF ReadEscrow, Goto, DeployOrLater, AddOrLater, TransferOrSave
    <3> QED
      BY <3>1, <3>2
  <2>9. CASE Request(c)
    BY <2>1, <2>9 DEF Request, Goto
  <2>10. CASE Deploy(c) \/ Stake(c) \/ AddMilestones(c) \/ TransferOwnership(c)
    <3>1. project # "CONTRACT_DEPLOYED" /\ project' = project
      BY <2>1, <2>4, <2>10
         DEF OwnedInv, Deploy, Stake, AddMilestones, TransferOwnership
    <3>2. pc'[c] # "topic"
      BY <2>1, <2>10 DEF Deploy, Stake, AddMilestones, TransferOwnership, Fail, Goto,
                         AddOrLater, TransferOrSave
    <3> QED
      BY <3>1, <3>2
  <2> QED
    BY <1>2, <2>5, <2>6, <2>7, <2>8, <2>9, <2>10 DEF Continue
<1> QED
  BY <1>1, <1>2 DEF Next

\* With one request at a time, whatever fails and however often it is sent
\* again, the contract of a deployed project belongs to the purchaser
\* (ProjectsService.addEscrow).
THEOREM DeployedProjectsAreOwned == Spec => []DeployedIsOwned
<1>1. DeploymentInv /\ OwnedInv => DeployedIsOwned
  BY DEF DeploymentInv, RowTruthful, Truthful, OwnedInv, DeployedIsOwned
<1> QED
  BY <1>1, InvInit, InvStep, OwnedInit, OwnedStep, PTL DEF Spec

-----------------------------------------------------------------------------
(* One request at a time that nothing is lost of: the next can go on.      *)

\* What the row does not claim was not done to its contract.
Clean(row, chain) ==
  row.escrowDeployedStatus = "SUCCESS" =>
    /\ row.addMilestoneStatus # "SUCCESS" =>
         chain[row.escrowContractId].milestones = {}
    /\ row.transferOwnershipStatus # "SUCCESS" =>
         chain[row.escrowContractId].owner = "mo"

\* What neither the row nor the request claims was not done either.
Accounted(chain, row, deployed, res) ==
  (row.escrowDeployedStatus = "SUCCESS" \/ deployed # 0) =>
    LET contract == chain[UsedContract(row, deployed)] IN
    /\ row.addMilestoneStatus # "SUCCESS" /\ ~res.milestonesAdded =>
         contract.milestones = {}
    /\ row.transferOwnershipStatus # "SUCCESS" /\ ~res.ownershipTransferred =>
         contract.owner = "mo"

RetryInv ==
  OneAtATime /\ faults \subseteq {"rejected"} =>
    \A c \in callers :
      IF pc[c] \in {"idle", "read", "topic"} THEN Clean(escrow, contracts)
      ELSE Accounted(contracts, escrowData[c], contractId[c], result[c])

LEMMA RetryInit == Init => RetryInv
<1> SUFFICES ASSUME Init, NEW c \in callers
             PROVE  pc[c] = "idle" /\ Clean(escrow, contracts)
  BY DEF RetryInv
<1>1. c \in Calls /\ pc[c] = "idle"
  BY DEF Init
<1> QED
  BY <1>1 DEF Init, Clean, NewRow

\* What a request returns accounts for all it did.
LEMMA SavedClean ==
  ASSUME NEW row \in Row, NEW chain, NEW deployed, NEW res, Addressed(row),
         Held(chain, row, deployed, res), Accounted(chain, row, deployed, res)
  PROVE  Clean(Returned(row, deployed, res), chain) /\ Clean(Caught(row, deployed, res), chain)
BY DEF Held, UsedContract, Returned, Caught, Addressed, Row, Clean, Accounted

LEMMA RetryStep == DeploymentInv /\ OwnedInv /\ RetryInv /\ [Next]_vars => RetryInv'
<1> SUFFICES ASSUME DeploymentInv, OwnedInv, RetryInv, [Next]_vars PROVE RetryInv'
  OBVIOUS
<1>1. CASE UNCHANGED vars
  BY <1>1 DEF RetryInv, OneAtATime, vars, callVars
<1>2. ASSUME NEW c \in callers, Request(c) \/ Continue(c) \/ Crash(c)
      PROVE  RetryInv'
  <2>1. c \in Calls /\ callers' = callers /\ faults' = faults
    BY <1>2 DEF DeploymentInv, TypeOK, Request, Continue, Crash, ReadEscrow, Deploy, Stake,
                AddMilestones, TransferOwnership, Save, CreateTopic, End, Fail, Goto
  <2>2. SUFFICES ASSUME OneAtATime, faults \subseteq {"rejected"}
                 PROVE  IF pc'[c] \in {"idle", "read", "topic"} THEN Clean(escrow', contracts')
                        ELSE Accounted(contracts', escrowData'[c], contractId'[c], result'[c])
    BY <2>1 DEF RetryInv, OneAtATime
  <2> DEFINE row == escrowData[c]
  <2>3. /\ IF pc[c] \in {"idle", "read", "topic"} THEN Clean(escrow, contracts)
           ELSE Accounted(contracts, row, contractId[c], result[c])
        /\ CallInv(c) /\ row \in Row /\ result[c] \in Result
        /\ "lost" \notin faults /\ "crash" \notin faults
    BY <2>1, <2>2 DEF RetryInv, DeploymentInv, TypeOK
  <2>4. pc \in [Calls -> Steps] /\ contracts \in Seq(Contract)
        /\ escrowData \in [Calls -> Row] /\ contractId \in [Calls -> ContractId]
        /\ result \in [Calls -> Result]
    BY DEF DeploymentInv, TypeOK
  <2>5. CASE Request(c) \/ CreateTopic(c)
    BY <2>1, <2>3, <2>4, <2>5 DEF Request, CreateTopic, End, Goto
  <2>6. CASE ReadEscrow(c)
    <3>1. /\ pc[c] = "read" /\ pc'[c] \notin {"idle", "read", "topic"}
          /\ escrowData'[c] = escrow /\ contractId'[c] = contractId[c]
          /\ contracts' = contracts
      BY <2>1, <2>4, <2>6 DEF ReadEscrow, Goto, DeployOrLater, AddOrLater, TransferOrSave
    <3>2. contractId[c] = 0
      BY <2>3, <3>1 DEF CallInv, Where
    <3> QED
      BY <2>3, <3>1, <3>2 DEF Clean, Accounted, UsedContract
  <2>7. CASE Deploy(c)
    <3>1. pc[c] = "deploy" /\ row.escrowDeployedStatus # "SUCCESS" /\ contractId[c] = 0
      BY <2>3, <2>7 DEF Deploy, CallInv, Where
    <3>2. CASE Fail(c)
      BY <2>1, <2>4, <3>1, <3>2 DEF Fail, Goto, Accounted
    <3>3. CASE ~Fail(c)
      <4>1. /\ contracts' = Deployed /\ contractId'[c] = Len(contracts) + 1
            /\ pc'[c] = "stake" /\ escrowData'[c] = row /\ result'[c] = result[c]
        BY <2>1, <2>4, <2>7, <3>3 DEF Deploy, Goto
      <4>2. /\ contracts'[Len(contracts) + 1]
                 = [prepared |-> FALSE, milestones |-> {}, owner |-> "mo"]
            /\ Len(contracts) + 1 # 0
        BY <2>4, <4>1 DEF Deployed
      <4> QED
        BY <4>1, <4>2 DEF Accounted, UsedContract
    <3> QED
      BY <3>2, <3>3
  <2>8. CASE Stake(c)
    <3>1. pc[c] = "stake" /\ contractId[c] \in 1 .. Len(contracts) /\ contractId[c] # 0
      BY <2>3, <2>8 DEF Stake, CallInv, Where, Held
    <3>2. /\ pc'[c] \notin {"idle", "read", "topic"} /\ escrowData'[c] = row
          /\ contractId'[c] = contractId[c]
          /\ result'[c].milestonesAdded = result[c].milestonesAdded
          /\ result'[c].ownershipTransferred = result[c].ownershipTransferred
          /\ contracts' \in {contracts, Prepared(c)}
      BY <2>1, <2>3, <2>4, <2>8 DEF Stake, Fail, Goto, AddOrLater, TransferOrSave, Result
    <3>3. /\ contracts'[contractId[c]].milestones = contracts[contractId[c]].milestones
          /\ contracts'[contractId[c]].owner = contracts[contractId[c]].owner
      <4>1. contracts[contractId[c]] \in Contract
        BY <2>4, <3>1
      <4>2. CASE contracts' = Prepared(c)
        BY <2>4, <3>1, <4>1, <4>2 DEF Prepared, Contract
      <4> QED
        BY <3>2, <4>2
    <3> QED
      BY <2>3, <3>1, <3>2, <3>3 DEF Accounted, UsedContract
  <2>9. CASE AddMilestones(c)
    <3>1. pc[c] = "add" /\ Target(c) \in 1 .. Len(contracts)
      BY <2>1, <2>9, TargetThere DEF AddMilestones
    <3>2. /\ pc'[c] \notin {"idle", "read", "topic"} /\ escrowData'[c] = row
          /\ contractId'[c] = contractId[c]
      BY <2>1, <2>4, <2>9 DEF AddMilestones, Fail, Goto, TransferOrSave
    <3>3. CASE contracts' = contracts /\ result' = result
      BY <2>3, <3>1, <3>2, <3>3
    <3>4. CASE /\ contracts' = Extended(Target(c), Batch(i[c]))
               /\ result' = [result EXCEPT ![c].milestonesAdded = TRUE]
      <4>1. /\ result'[c].milestonesAdded
            /\ result'[c].ownershipTransferred = result[c].ownershipTransferred
        BY <2>1, <2>4, <3>4 DEF Result
      <4>2. contracts'[Target(c)].owner = contracts[Target(c)].owner
        BY <2>4, <3>1, <3>4 DEF Extended, Contract
      <4> QED
        BY <2>3, <3>1, <3>2, <4>1, <4>2 DEF Accounted, Target
    <3> QED
      BY <2>3, <2>9, <3>3, <3>4 DEF AddMilestones, Fail
  <2>10. CASE TransferOwnership(c)
    <3>1. pc[c] = "transfer" /\ Target(c) \in 1 .. Len(contracts)
      BY <2>1, <2>10, TargetThere DEF TransferOwnership
    <3>2. /\ pc'[c] \notin {"idle", "read", "topic"} /\ escrowData'[c] = row
          /\ contractId'[c] = contractId[c]
      BY <2>1, <2>4, <2>10 DEF TransferOwnership, Fail, Goto
    <3>3. CASE contracts' = contracts /\ result' = result
      BY <2>3, <3>1, <3>2, <3>3
    <3>4. CASE /\ contracts' = HandedOver(Target(c))
               /\ result' = [result EXCEPT ![c].ownershipTransferred = TRUE]
      <4>1. /\ result'[c].ownershipTransferred
            /\ result'[c].milestonesAdded = result[c].milestonesAdded
        BY <2>1, <2>4, <3>4 DEF Result
      <4>2. contracts'[Target(c)].milestones = contracts[Target(c)].milestones
        BY <2>4, <3>1, <3>4 DEF HandedOver, Contract
      <4> QED
        BY <2>3, <3>1, <3>2, <4>1, <4>2 DEF Accounted, Target
    <3> QED
      BY <2>3, <2>10, <3>3, <3>4 DEF TransferOwnership, Fail
  <2>11. CASE Save(c)
    <3>1. pc[c] = "save" /\ contracts' = contracts /\ escrow' = EscrowData(c)
      BY <2>11 DEF Save
    <3>2. Clean(EscrowData(c), contracts)
      BY <2>3, <3>1, SavedClean DEF CallInv, EscrowData
    <3>3. pc'[c] \in {"idle", "topic"}
      BY <2>1, <2>4, <2>11 DEF Save, End, Goto
    <3> QED
      BY <3>1, <3>2, <3>3
  <2>12. CASE Crash(c)
    BY <2>3, <2>12 DEF Crash
  <2> QED
    BY <1>2, <2>5, <2>6, <2>7, <2>8, <2>9, <2>10, <2>11, <2>12 DEF Continue
<1> QED
  BY <1>1, <1>2 DEF Next

\* Where one request runs at a time and transactions are only ever refused,
\* what the row says was done and what it says was not are both what the
\* contract has, so that the next request can go on: it is not refused for
\* having been carried out before (HederaService.addEscrow, the three statuses).
THEOREM RetryIsPossible == Spec => []RetryPossible
<1>1. DeploymentInv /\ OwnedInv /\ RetryInv => RetryPossible
  <2> SUFFICES ASSUME DeploymentInv, RetryInv, OneAtATime, faults \subseteq {"rejected"},
                      \A c \in Calls : pc[c] = "idle", DeployOrLater(escrow) # "deploy",
                      DeployOrLater(escrow) # "save"
               PROVE  \/ /\ DeployOrLater(escrow) = "add"
                         /\ Accepts(escrow.escrowContractId, Batch(0))
                      \/ /\ DeployOrLater(escrow) = "transfer"
                         /\ contracts[escrow.escrowContractId].owner = "mo"
    BY DEF RetryPossible
  <2>1. Clean(escrow, contracts) /\ Truthful(escrow, contracts)
    BY DEF RetryInv, OneAtATime, DeploymentInv, RowTruthful
  <2>2. escrow.escrowDeployedStatus = "SUCCESS"
    BY DEF DeployOrLater
  <2>3. CASE escrow.addMilestoneStatus = "SUCCESS"
    BY <2>1, <2>2, <2>3 DEF DeployOrLater, AddOrLater, TransferOrSave, Clean
  <2>4. CASE escrow.addMilestoneStatus # "SUCCESS"
    <3>1. escrow.transferOwnershipStatus # "SUCCESS"
      BY <2>1, <2>4 DEF Truthful
    <3> QED
      BY <2>1, <2>2, <2>4, <3>1 DEF DeployOrLater, AddOrLater, Clean, Accepts
  <2> QED
    BY <2>3, <2>4
<1> QED
  BY <1>1, InvInit, InvStep, OwnedInit, OwnedStep, RetryInit, RetryStep, PTL DEF Spec
=============================================================================
