-------------------------- MODULE EscrowDeployment --------------------------
(***************************************************************************)
(* The purchaser's add-escrow request (ProjectsService.addEscrow and       *)
(* HederaService.addEscrow): it deploys the contracts of a project, adds   *)
(* the milestones in batches, hands the ownership to the purchaser and     *)
(* records in the Escrow row how far it came, for the next request to go   *)
(* on from there.  Every await is a point where other requests run, where  *)
(* a transaction is refused, where its receipt is lost although it was     *)
(* executed, and where the server handling the request dies.               *)
(*                                                                         *)
(* A contract here is what this saga needs of EscrowContract: which        *)
(* milestones were added and who owns it.                                  *)
(***************************************************************************)
EXTENDS Integers, Sequences

CONSTANTS
  Calls,            \* requests that can be in flight at the same time
  milestoneCount,   \* milestones of the project, numbered from 1
  batchSize,        \* milestones added with one transaction; 7 in the code
  FaultSets,        \* what can go wrong: sets of "rejected", "lost", "crash"
  MaxContracts      \* bound: contracts that are ever deployed

ASSUME DeploymentAssumption ==
  /\ milestoneCount \in Nat \ {0}
  /\ batchSize \in Nat \ {0}
  /\ FaultSets \subseteq SUBSET {"rejected", "lost", "crash"}
  /\ MaxContracts \in Nat

VARIABLES
  faults,       \* what can go wrong in this behaviour
  callers,      \* the requests that overlap in it
  contracts,    \* on the chain: every Escrow contract deployed
  escrow,       \* the project's row of table Escrow
  project,      \* its state in table Projects
  pc,           \* where each request is
  escrowData,   \* the row it read
  contractId,   \* escrowContractId: the contract it deployed itself, or 0
  result,       \* what it has done so far
  i,            \* milestones its loop has passed
  failed        \* whether it left the way by the catch

callVars == <<pc, escrowData, contractId, result, i, failed>>
vars == <<faults, callers, contracts, escrow, project, callVars>>

ContractDeployStatus == {"PENDING", "SUCCESS", "FAILED"}
Steps == {"idle", "read", "deploy", "stake", "add", "transfer", "save", "topic"}
ContractId == 0 .. MaxContracts     \* 0: null
MilestoneIds == 1 .. milestoneCount

Contract == [prepared : BOOLEAN,    \* tokens associated, rewards staked
             milestones : SUBSET MilestoneIds, owner : {"mo", "purchaser"}]
Row == [escrowContractId : ContractId, escrowAddress : ContractId,
        escrowDeployedStatus : ContractDeployStatus,
        addMilestoneStatus : ContractDeployStatus,
        transferOwnershipStatus : ContractDeployStatus]
Result == [escrowAddress : ContractId, milestonesAdded : BOOLEAN,
           ownershipTransferred : BOOLEAN]

NewRow == [escrowContractId |-> 0, escrowAddress |-> 0,
           escrowDeployedStatus |-> "PENDING",
           addMilestoneStatus |-> "PENDING",
           transferOwnershipStatus |-> "PENDING"]
NoResult == [escrowAddress |-> 0, milestonesAdded |-> FALSE,
             ownershipTransferred |-> FALSE]

Batch(from) == {m \in MilestoneIds : from < m /\ m <= from + batchSize}

-----------------------------------------------------------------------------
\* A step is skipped when the row says it succeeded before.
TransferOrSave(row) ==
  IF row.transferOwnershipStatus = "SUCCESS" THEN "save" ELSE "transfer"
AddOrLater(row) ==
  IF row.addMilestoneStatus = "SUCCESS" THEN TransferOrSave(row) ELSE "add"
DeployOrLater(row) ==
  IF row.escrowDeployedStatus = "SUCCESS" THEN AddOrLater(row) ELSE "deploy"

UsedContract(row, deployed) ==
  IF deployed # 0 THEN deployed ELSE row.escrowContractId

\* What HederaService.addEscrow returns at its end ...
Returned(row, deployed, res) ==
  [escrowContractId |-> UsedContract(row, deployed),
   escrowAddress |-> IF res.escrowAddress # 0 THEN res.escrowAddress
                                              ELSE row.escrowAddress,
   escrowDeployedStatus |-> IF res.escrowAddress # 0 THEN "SUCCESS"
                            ELSE row.escrowDeployedStatus,
   addMilestoneStatus |-> IF res.milestonesAdded THEN "SUCCESS"
                          ELSE row.addMilestoneStatus,
   transferOwnershipStatus |-> IF res.ownershipTransferred THEN "SUCCESS"
                               ELSE row.transferOwnershipStatus]

FaultyCaught(row, deployed, res) ==   \* faulty: deployed although not prepared
  LET id == UsedContract(row, deployed)
  IN  [escrowContractId |-> id,
       escrowAddress |-> id,
       escrowDeployedStatus |-> IF id # 0 THEN "SUCCESS" ELSE "FAILED",
       addMilestoneStatus |->
         IF row.addMilestoneStatus = "SUCCESS" \/ res.milestonesAdded
         THEN "SUCCESS" ELSE "FAILED",
       transferOwnershipStatus |->
         IF row.transferOwnershipStatus = "SUCCESS" \/ res.ownershipTransferred
         THEN "SUCCESS" ELSE "FAILED"]

FaultyCaughtForgets(row, deployed, res) ==  \* faulty: forgets what was done now
  [row EXCEPT !.escrowContractId = UsedContract(row, deployed),
              !.escrowAddress = IF @ # 0 THEN @ ELSE res.escrowAddress,
              !.escrowDeployedStatus = IF res.escrowAddress # 0 THEN "SUCCESS" ELSE @]

\* ... and what its catch returns when a transaction failed.
Caught(row, deployed, res) ==
  LET address == IF row.escrowAddress # 0 THEN row.escrowAddress
                                          ELSE res.escrowAddress
  IN  [escrowContractId |-> UsedContract(row, deployed),
       escrowAddress |-> address,
       escrowDeployedStatus |-> IF address # 0 THEN "SUCCESS" ELSE "FAILED",
       addMilestoneStatus |->
         IF row.addMilestoneStatus = "SUCCESS" \/ res.milestonesAdded
         THEN "SUCCESS" ELSE "FAILED",
       transferOwnershipStatus |->
         IF row.transferOwnershipStatus = "SUCCESS" \/ res.ownershipTransferred
         THEN "SUCCESS" ELSE "FAILED"]

-----------------------------------------------------------------------------
Goto(c, step) == /\ pc' = [pc EXCEPT ![c] = step]
                 /\ UNCHANGED <<faults, callers>>

\* A transaction that failed, or whose receipt did, ends the try.
Fail(c) ==
  /\ Goto(c, "save")
  /\ failed' = [failed EXCEPT ![c] = TRUE]
  /\ UNCHANGED <<escrowData, contractId, result, i>>

\* The request is over, its local variables are gone.
End(c) ==
  /\ Goto(c, "idle")
  /\ escrowData' = [escrowData EXCEPT ![c] = NewRow]
  /\ contractId' = [contractId EXCEPT ![c] = 0]
  /\ result' = [result EXCEPT ![c] = NoResult]
  /\ i' = [i EXCEPT ![c] = 0]
  /\ failed' = [failed EXCEPT ![c] = FALSE]

\* addEscrow reads the project in its state ADD_ESCROW ...
Request(c) ==
  /\ pc[c] = "idle"
  /\ project = "ADD_ESCROW"
  /\ Goto(c, "read")
  /\ UNCHANGED <<contracts, escrow, project, escrowData, contractId, result, i,
                 failed>>

\* ... and then the row.
ReadEscrow(c) ==
  /\ pc[c] = "read"
  /\ escrowData' = [escrowData EXCEPT ![c] = escrow]
  /\ Goto(c, DeployOrLater(escrow))
  /\ UNCHANGED <<contracts, escrow, project, contractId, result, i, failed>>

Deployed == Append(contracts, [prepared |-> FALSE, milestones |-> {},
                               owner |-> "mo"])

Deploy(c) ==
  /\ pc[c] = "deploy"
  /\ Len(contracts) < MaxContracts
  /\ \/ /\ contracts' = Deployed
        /\ contractId' = [contractId EXCEPT ![c] = Len(contracts) + 1]
        /\ Goto(c, "stake")
        /\ UNCHANGED <<escrowData, result, i, failed>>
     \/ /\ "lost" \in faults
        /\ contracts' = Deployed
        /\ Fail(c)
     \/ /\ "rejected" \in faults
        /\ UNCHANGED contracts
        /\ Fail(c)
  /\ UNCHANGED <<escrow, project>>

\* tokenAssociate and the staking of the Milestone and the Royalty contract.
Prepared(c) == [contracts EXCEPT ![contractId[c]].prepared = TRUE]

Stake(c) ==
  /\ pc[c] = "stake"
  /\ \/ /\ contracts' = Prepared(c)
        /\ result' = [result EXCEPT ![c].escrowAddress = contractId[c]]
        /\ Goto(c, AddOrLater(escrowData[c]))
        /\ UNCHANGED <<escrowData, contractId, i, failed>>
     \/ /\ "lost" \in faults
        /\ contracts' = Prepared(c)
        /\ Fail(c)
     \/ /\ "rejected" \in faults
        /\ UNCHANGED contracts
        /\ Fail(c)
  /\ UNCHANGED <<escrow, project>>

Target(c) == UsedContract(escrowData[c], contractId[c])

\* Escrow.addMilestones: of its requires, those that depend on what was done
\* before.
Accepts(id, ids) == /\ contracts[id].owner = "mo"
                    /\ ids \cap contracts[id].milestones = {}
Extended(id, ids) == [contracts EXCEPT ![id].milestones = @ \cup ids]

FaultyAddOnce(c) ==                   \* faulty: only the first batch is sent
  /\ pc[c] = "add"
  /\ Accepts(Target(c), Batch(0))
  /\ contracts' = Extended(Target(c), Batch(0))
  /\ result' = [result EXCEPT ![c].milestonesAdded = TRUE]
  /\ Goto(c, TransferOrSave(escrowData[c]))
  /\ UNCHANGED <<escrow, project, escrowData, contractId, i, failed>>

\* The status is a success from the first batch on.
AddMilestones(c) ==
  LET ids == Batch(i[c])
      next == i[c] + batchSize
  IN  /\ pc[c] = "add"
      /\ \/ /\ Accepts(Target(c), ids)
            /\ contracts' = Extended(Target(c), ids)
            /\ result' = [result EXCEPT ![c].milestonesAdded = TRUE]
            /\ i' = [i EXCEPT ![c] = next]
            /\ Goto(c, IF next < milestoneCount THEN "add"
                       ELSE TransferOrSave(escrowData[c]))
            /\ UNCHANGED <<escrowData, contractId, failed>>
         \/ /\ "lost" \in faults
            /\ Accepts(Target(c), ids)
            /\ contracts' = Extended(Target(c), ids)
            /\ Fail(c)
         \/ /\ "rejected" \in faults \/ ~Accepts(Target(c), ids)
            /\ UNCHANGED contracts
            /\ Fail(c)
      /\ UNCHANGED <<escrow, project>>

HandedOver(id) == [contracts EXCEPT ![id].owner = "purchaser"]

TransferOwnership(c) ==
  /\ pc[c] = "transfer"
  /\ \/ /\ contracts[Target(c)].owner = "mo"
        /\ contracts' = HandedOver(Target(c))
        /\ result' = [result EXCEPT ![c].ownershipTransferred = TRUE]
        /\ Goto(c, "save")
        /\ UNCHANGED <<escrowData, contractId, i, failed>>
     \/ /\ "lost" \in faults
        /\ contracts[Target(c)].owner = "mo"
        /\ contracts' = HandedOver(Target(c))
        /\ Fail(c)
     \/ /\ "rejected" \in faults \/ contracts[Target(c)].owner # "mo"
        /\ UNCHANGED contracts
        /\ Fail(c)
  /\ UNCHANGED <<escrow, project>>

EscrowData(c) == IF failed[c]
                 THEN Caught(escrowData[c], contractId[c], result[c])
                 ELSE Returned(escrowData[c], contractId[c], result[c])

FaultySave(c) ==                      \* faulty: goes on whatever the status
  /\ pc[c] = "save"
  /\ escrow' = EscrowData(c)
  /\ Goto(c, "topic")
  /\ UNCHANGED <<contracts, project, escrowData, contractId, result, i, failed>>

\* updateEscrow writes the whole row, whoever wrote it meanwhile.
Save(c) ==
  /\ pc[c] = "save"
  /\ escrow' = EscrowData(c)
  /\ IF EscrowData(c).transferOwnershipStatus = "SUCCESS"
     THEN /\ Goto(c, "topic")
          /\ UNCHANGED <<escrowData, contractId, result, i, failed>>
     ELSE End(c)
  /\ UNCHANGED <<contracts, project>>

\* createTopic and the new state of the project.
CreateTopic(c) ==
  /\ pc[c] = "topic"
  /\ \/ project' = "CONTRACT_DEPLOYED"
     \/ faults \cap {"rejected", "lost"} # {} /\ UNCHANGED project
  /\ End(c)
  /\ UNCHANGED <<contracts, escrow>>

\* The server that handles the request dies, or the database does not answer.
Crash(c) ==
  /\ "crash" \in faults
  /\ pc[c] # "idle"
  /\ End(c)
  /\ UNCHANGED <<contracts, escrow, project>>

-----------------------------------------------------------------------------
Init ==
  /\ faults \in FaultSets
  /\ callers \in SUBSET Calls
  /\ contracts = << >>
  /\ escrow = NewRow
  /\ project = "ADD_ESCROW"
  /\ pc = [c \in Calls |-> "idle"]
  /\ escrowData = [c \in Calls |-> NewRow]
  /\ contractId = [c \in Calls |-> 0]
  /\ result = [c \in Calls |-> NoResult]
  /\ i = [c \in Calls |-> 0]
  /\ failed = [c \in Calls |-> FALSE]

Continue(c) == \/ ReadEscrow(c)
               \/ Deploy(c)
               \/ Stake(c)
               \/ AddMilestones(c)
               \/ TransferOwnership(c)
               \/ Save(c)
               \/ CreateTopic(c)

Next == \E c \in callers : Request(c) \/ Continue(c) \/ Crash(c)

\* Fairness: a request that was accepted is carried on (the event loop runs
\* every promise that is settled).  Nobody has to send one.
Spec == Init /\ [][Next]_vars /\ \A c \in Calls : WF_vars(Continue(c))

-----------------------------------------------------------------------------
TypeOK ==
  /\ faults \in FaultSets
  /\ callers \subseteq Calls
  /\ contracts \in Seq(Contract) /\ Len(contracts) <= MaxContracts
  /\ escrow \in Row
  /\ project \in {"ADD_ESCROW", "CONTRACT_DEPLOYED"}
  /\ pc \in [Calls -> Steps]
  /\ escrowData \in [Calls -> Row]
  /\ contractId \in [Calls -> ContractId]
  /\ result \in [Calls -> Result]
  /\ i \in [Calls -> Nat]
  /\ failed \in [Calls -> BOOLEAN]

\* What a row claims of a contract is true of it on the chain.
Truthful(row, chain) ==
  LET contract == chain[row.escrowContractId]
  IN  /\ row.escrowDeployedStatus = "SUCCESS" =>
           /\ row.escrowContractId \in 1 .. Len(chain)
           /\ row.escrowAddress = row.escrowContractId
           /\ contract.prepared
      /\ row.addMilestoneStatus = "SUCCESS" =>
           /\ row.escrowDeployedStatus = "SUCCESS"
           /\ Batch(0) \subseteq contract.milestones
      /\ row.transferOwnershipStatus = "SUCCESS" =>
           /\ row.addMilestoneStatus = "SUCCESS"
           /\ contract.owner = "purchaser"

\* However requests overlap and fail, the row claims nothing its contract does
\* not have (HederaService.addEscrow, the two returns; updateEscrow).
RowTruthful == Truthful(escrow, contracts)

OneAtATime == \E c \in Calls : callers = {c}

\* With one request at a time the row of a deployed project is that of the
\* contract the purchaser owns; a topic is made for no other
\* (ProjectsService.addEscrow).
DeployedIsOwned ==
  OneAtATime /\ project = "CONTRACT_DEPLOYED" =>
    /\ escrow.transferOwnershipStatus = "SUCCESS"
    /\ contracts[escrow.escrowContractId].owner = "purchaser"

\* With one request at a time, and as long as what fails has not happened, the
\* next request can go on where the last one stopped: what it will send is not
\* refused for having been done before (HederaService.addEscrow, the three
\* statuses).
RetryPossible ==
  (/\ OneAtATime /\ faults \subseteq {"rejected"}
   /\ project = "ADD_ESCROW" /\ \A c \in Calls : pc[c] = "idle") =>
    \/ DeployOrLater(escrow) = "deploy"
    \/ /\ DeployOrLater(escrow) = "add"
       /\ Accepts(escrow.escrowContractId, Batch(0))
    \/ /\ DeployOrLater(escrow) = "transfer"
       /\ contracts[escrow.escrowContractId].owner = "mo"
    \/ DeployOrLater(escrow) = "save"

\* The comment of the second step says "adding milestones and royalties for
\* project".  When a batch after the first one fails, the status is a success
\* all the same and no later request adds the rest.
AllMilestonesDeployed ==
  project = "CONTRACT_DEPLOYED" =>
    contracts[escrow.escrowContractId].milestones = MilestoneIds

\* Where nothing fails a request that was accepted leads to a project that is
\* deployed with all its milestones, however requests overlap
\* (ProjectsService.addEscrow; HederaService.addEscrow, the loop over the batches).
RequestsSucceed ==
  faults = {} =>
    \A c \in Calls : pc[c] # "idle" ~>
      project = "CONTRACT_DEPLOYED" /\ (faults = {} => AllMilestonesDeployed)
=============================================================================
