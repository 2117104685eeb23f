--------------------------- MODULE MilestoneMirror ---------------------------
(***************************************************************************)
(* The server's copy of what happens on the chain.  Clients send their     *)
(* transactions to the contracts themselves and then report the id to the  *)
(* server (ProjectsService.getTransactions), which decodes the events and  *)
(* updates milestones, funds and project one await after the other; they   *)
(* can also set a milestone's status directly (updateMilestoneStatus).     *)
(* Nothing checks that a transaction is reported once, in order, or at all.*)
(*                                                                         *)
(* The project is CONTRACT_DEPLOYED, and whoever asks is a member of it.   *)
(***************************************************************************)
EXTENDS MilestoneChain, FiniteSets, FiniteSetsExt

CONSTANTS
  Calls,               \* requests that can be in flight at the same time
  Scenarios,           \* projects, and how they are reported on
  price,               \* fundAllocation of a milestone and its royalty
  Roundings,           \* what a difference of two doubles may be off by
  LowestLeft           \* bound: nothing is reported below it

ASSUME MirrorAssumption ==
  /\ IsFiniteSet(Milestones)
  /\ price \in [Milestones \cup SubMilestones -> Nat]
  /\ Roundings \subseteq Int
  /\ LowestLeft \in Int
  /\ \A sc \in Scenarios :
       /\ sc.mode \in Modes
       /\ sc.items \subseteq Milestones \cup SubMilestones
       /\ \A s \in sc.items \cap SubMilestones : Parent[s] \in sc.items
       /\ sc.fundingType \in {"PROJECT", "MILESTONE"}
       /\ sc.fundTransferType \in {"PROJECT_COMPLETE", "MILESTONE_COMPLETE"}
       /\ sc.start \in {"INIT", "IN_REVIEW"}
       /\ sc.limit \in Nat      \* bound: transactions ever sent
       /\ {sc.foreign, sc.whole} \subseteq BOOLEAN
       /\ sc.mode = "orderly" => ~sc.foreign

VARIABLES
  milestone,      \* rows of table Milestones
  funds,          \* rows of table Funds
  project,        \* the row of table Projects and its ProjectDetails
  transactions,   \* rows of table Transactions: what was recorded
  documents,      \* milestones whose rework documents are in table DocumentsLink
  request         \* each request's place in the code and its variables

dbVars == <<milestone, funds, project, transactions, documents>>
vars == <<scenario, chainVars, dbVars, request>>

MilestoneStatus == {"INIT", "IN_PROGRESS", "IN_REVIEW", "REWORK", "COMPLETED",
                    "STOP", "FORCE_CLOSED", "HOLD"}
ProjectUsers == {"PURCHASER", "CP", "IP"}
EndStates == {"COMPLETED", "FORCE_CLOSED"}

SumOfPrices(ms) == MapThenSumSet(LAMBDA m : price[m], ms)

\* What the purchaser entered, taken to be what the milestones cost.
totalProjectFund == SumOfPrices(Mains)

\* The rows at the start, everything that was done until then reported.
NewMilestone(i) ==
  [milestoneStatus |-> IF i \in Mains THEN scenario.start ELSE "INIT",
   revisionsCounter |-> 0, isDeployedOnContract |-> FALSE, reworkDocs |-> FALSE]
NewFunds(i) ==
  [fundTranscationIdToEscrow |-> InReview /\ i \in Mains,
   enableFundTransfer |-> FALSE, fundTransferred |-> FALSE,
   enableRoyalityTransfer |-> FALSE, royalityTransferred |-> FALSE]
NewProject ==
  [status |-> IF InReview THEN "IN_PROGRESS" ELSE "ASSIGNED",
   leftProjectFund |-> IF InReview THEN 0 ELSE totalProjectFund,
   fundTransfered |-> InReview, freeBalanceReleased |-> FALSE]
NewTransactions ==
  IF InReview THEN {"MilestoneFunded", "MilestoneStateChanged"} \X Mains ELSE {}

Idle == [step |-> "idle", tx |-> NoTx, todo |-> {}, forProject |-> FALSE,
         item |-> CHOOSE m \in Milestones : TRUE, asked |-> "INIT", left |-> 0,
         status |-> "INIT", counter |-> 0, docs |-> FALSE,
         open |-> FALSE, working |-> FALSE]

InMode(modes) == scenario.mode \in modes
AllIdle == \A c \in Calls : request[c] = Idle

Update(c, r) == request' = [request EXCEPT ![c] = r]
Goto(c, step) == Update(c, [request[c] EXCEPT !.step = step])

\* Variables that are not read any more are cleared.
GotoWith(c, step, open) ==
  LET r == request[c] IN
  Update(c, [Idle EXCEPT !.step = step, !.tx = r.tx, !.todo = r.todo, !.open = open,
                         !.forProject = r.forProject,
                         !.item = IF r.tx = NoTx THEN @ ELSE r.item])
Return(c) == Update(c, Idle)     \* the handler returns or throws

\* A request starts: alone, unless requests overlap.
MayStart(c) ==
  /\ request[c] = Idle
  /\ InMode({"orderly", "serial"}) => AllIdle

-----------------------------------------------------------------------------
\* The events the server knows; the contracts never emit MilestoneForceClosed.
Event == {"MilestoneFunded", "MilestoneStateChanged", "SubMilestoneStateChanged",
          "MilestonePayout", "RoyaltyPaid", "SubMilestoneAdded",
          "FreeBalanceReleased", "MilestoneForceClosed"}

\* The loop of getTransactions goes on to the next event, or ends.
NextEvent(c) ==
  IF request[c].todo = {} THEN Return(c) ELSE GotoWith(c, "event", FALSE)

FaultyStored(state) == state          \* faulty: FUNDED is stored as it is

\* The status the server stores for a state of the contract.
Stored(state) == IF state = "FUNDED" THEN "INIT" ELSE state

\* Transactions of other contracts, one log each, with the ids of this project.
Foreign ==
  {Tx(event, {i}, state) : event \in Event \ {"FreeBalanceReleased"},
                           i \in Items, state \in States}
    \cup {Tx("FreeBalanceReleased", {}, "COMPLETED")}

\* Nothing compares the recipient of a transaction, or the address its logs
\* are of, with the contract of the project.
Reportable == IF scenario.foreign THEN emitted \cup Foreign ELSE emitted

\* POST project/transaction: the id is decoded, an event at a time.  Whether
\* the whole project was funded the client says, by the name of the function.
Report(c) ==
  \E tx \in Reportable, forProject \in BOOLEAN :
    /\ project.leftProjectFund >= LowestLeft
    /\ MayStart(c)
    /\ forProject => tx.event = "MilestoneFunded"
    /\ InMode({"orderly"}) /\ tx.event = "MilestoneFunded"
         => forProject = (scenario.fundingType = "PROJECT")
    /\ Update(c, [Idle EXCEPT !.step = "event", !.tx = tx, !.todo = tx.items,
                              !.forProject = forProject])
    /\ emitted' = IF InMode({"orderly"}) THEN emitted \ {tx} ELSE emitted
    /\ UNCHANGED <<scenario, chain, dbVars>>

\* getMilestone and createTransaction, then what the event asks for.  A
\* rework reported without its documents throws, and so does a closing, whose
\* event has no state to ask for.
ReadEvent(c) ==
  LET r == request[c] IN
  /\ r.step = "event"
  /\ r.tx.event # "FreeBalanceReleased"
  /\ \E i \in r.todo :
       LET next == [r EXCEPT !.item = i, !.todo = @ \ {i}] IN
       /\ transactions' = transactions \cup {<<r.tx.event, i>>}
       /\ CASE r.tx.event = "MilestoneFunded" ->
                 Update(c, [next EXCEPT !.step = "fund",
                                        !.left = project.leftProjectFund])
            [] r.tx.event \in {"MilestoneStateChanged", "SubMilestoneStateChanged"} ->
                 \/ Update(c, [next EXCEPT !.step = "check",
                                           !.asked = Stored(r.tx.state)])
                 \/ /\ r.tx.state = "REWORK"
                    /\ ~InMode({"orderly"})
                    /\ Return(c)
            [] r.tx.event = "MilestoneForceClosed" -> Return(c)
            [] OTHER -> Update(c, [next EXCEPT !.step = "flags"])
  /\ UNCHANGED <<scenario, chainVars, milestone, funds, project, documents>>

FreeBalance(c) ==
  /\ request[c].step = "event"
  /\ request[c].tx.event = "FreeBalanceReleased"
  /\ project' = [project EXCEPT !.freeBalanceReleased = TRUE]
  /\ Return(c)
  /\ UNCHANGED <<scenario, chainVars, milestone, funds, transactions, documents>>

FaultyAmountLeft(r) ==                \* faulty: the royalty is paid for twice
  IF r.forProject THEN {0} ELSE {r.left - 2 * price[r.item]}

\* The amounts are doubles, read from strings and written back as one: whole
\* numbers (below 2^53) are subtracted exactly, others are rounded.
AmountLeft(r) ==
  IF r.forProject THEN {0}
  ELSE {r.left - price[r.item] + e : e \in IF scenario.whole THEN {0} ELSE Roundings}

\* The amount left is written from the value that was read.  It is compared
\* with '0' as a string, which the string of a number equals or precedes just
\* when the number is 0 or negative.
FundProject(c) ==
  LET r == request[c] IN
  /\ r.step = "fund"
  /\ \E left \in AmountLeft(r) :
       project' = [project EXCEPT !.leftProjectFund = left,
                                  !.fundTransfered = left <= 0]
  /\ GotoWith(c, "flags", FALSE)
  /\ UNCHANGED <<scenario, chainVars, milestone, funds, transactions, documents>>

-----------------------------------------------------------------------------
\* updateMilestoneStatus: who may ask for which status.
Permitted(user, i) ==
  CASE i \in Mains /\ user = "CP" -> {"IN_PROGRESS", "IN_REVIEW"}
    [] i \in Mains /\ user = "PURCHASER" ->
         {"INIT", "COMPLETED", "REWORK", "STOP", "FORCE_CLOSED"}
    [] i \in Subs /\ user = "IP" -> {"IN_PROGRESS", "IN_REVIEW"}
    [] i \in Subs /\ user = "CP" ->
         {"INIT", "IN_PROGRESS", "COMPLETED", "STOP", "REWORK", "FORCE_CLOSED"}
    [] OTHER -> MilestoneStatus

\* validateStateChange: the statuses that may follow one.
ValidNext(status) ==
  CASE status = "INIT" -> {"IN_PROGRESS", "COMPLETED", "STOP", "FORCE_CLOSED"}
    [] status = "IN_PROGRESS" -> {"IN_REVIEW", "COMPLETED", "FORCE_CLOSED"}
    [] status = "IN_REVIEW" -> {"REWORK", "COMPLETED", "FORCE_CLOSED"}
    [] status = "REWORK" -> {"IN_PROGRESS", "COMPLETED", "FORCE_CLOSED"}
    [] status = "STOP" -> {"INIT"}
    [] OTHER -> {}

FaultyAccepts(user, i, row, asked) == \* faulty: an end state can be completed
  /\ asked \in Permitted(user, i)
  /\ asked \in ValidNext(row.milestoneStatus) \cup {"COMPLETED"}

FaultyAcceptsRevision(user, i, row, asked) ==  \* faulty: <= in place of <
  /\ row.milestoneStatus \notin EndStates
  /\ asked \in Permitted(user, i)
  /\ asked \in ValidNext(row.milestoneStatus)
  /\ asked = "REWORK" => row.revisionsCounter <= revisions[i]

Accepts(user, i, row, asked) ==
  /\ row.milestoneStatus \notin EndStates
  /\ asked \in Permitted(user, i)
  /\ asked \in ValidNext(row.milestoneStatus)
  /\ asked = "REWORK" => row.revisionsCounter < revisions[i]

\* Whom the contract lets make a change, and who then reports it.
Sender(i, status) ==
  IF status \in {"IN_PROGRESS", "IN_REVIEW"}
  THEN IF i \in Mains THEN "CP" ELSE "IP"
  ELSE IF i \in Mains THEN "PURCHASER" ELSE "CP"

\* getMilestone, and all checks on what it returns.
Checked(c, r) ==
  LET row == milestone[r.item] IN
  \E user \in ProjectUsers :
    /\ InMode({"orderly"}) => user = Sender(r.item, r.asked)
    /\ IF Accepts(user, r.item, row, r.asked)
       THEN Update(c, [r EXCEPT
              !.step = IF r.asked = "REWORK" THEN "rework" ELSE "write",
              !.status = row.milestoneStatus,
              !.counter = row.revisionsCounter,
              !.docs = row.reworkDocs])
       ELSE Return(c)

Check(c) ==
  /\ request[c].step = "check"
  /\ Checked(c, request[c])
  /\ UNCHANGED <<scenario, chainVars, dbVars>>

\* PATCH milestone/status, for one of the statuses that get somewhere.
Patch(c) ==
  /\ ~InMode({"orderly"})
  /\ MayStart(c)
  /\ \E i \in Items :
       \E asked \in ValidNext(milestone[i].milestoneStatus) :
         Checked(c, [Idle EXCEPT !.item = i, !.asked = asked])
  /\ UNCHANGED <<scenario, chainVars, dbVars>>

\* The documents of a rework replace those of the rework before.  Those are
\* looked up by a column that was not selected, undefined; to the database
\* client that is no condition at all, and every document goes.  The new ones
\* come with a report only: the validation of a PATCH strips them, and it
\* throws here, after the deletion.
ReworkDocuments(c) ==
  LET r == request[c] IN
  /\ r.step = "rework"
  /\ documents' = (IF r.docs THEN {} ELSE documents)
                    \cup (IF r.tx = NoTx THEN {} ELSE {r.item})
  /\ IF r.tx = NoTx THEN Return(c) ELSE Goto(c, "write")
  /\ UNCHANGED <<scenario, chainVars, milestone, funds, project, transactions>>

\* What was read decides what is written; a completed milestone takes all its
\* sub-milestones with it.
Write(c) ==
  LET r == request[c] IN
  /\ r.step = "write"
  /\ milestone' = [i \in Items |->
       IF i = r.item
       THEN [milestone[i] EXCEPT
               !.milestoneStatus = r.asked,
               !.revisionsCounter = IF r.asked = "REWORK" THEN r.counter + 1 ELSE @,
               !.reworkDocs = @ \/ r.asked = "REWORK"]
       ELSE IF r.asked = "COMPLETED" /\ i \in Subs /\ Parent[i] = r.item
       THEN [milestone[i] EXCEPT !.milestoneStatus = "COMPLETED"]
       ELSE milestone[i]]
  /\ GotoWith(c, "open", FALSE)
  /\ UNCHANGED <<scenario, chainVars, funds, project, transactions, documents>>

FaultyMilestoneIn(states) ==          \* faulty: sub-milestones count too
  \E i \in Items : milestone[i].milestoneStatus \in states

\* getMilestoneCount, of the milestones proper
MilestoneIn(states) == \E m \in Mains : milestone[m].milestoneStatus \in states

CountOpen(c) ==
  /\ request[c].step = "open"
  /\ GotoWith(c, "working", MilestoneIn(MilestoneStatus \ EndStates))
  /\ UNCHANGED <<scenario, chainVars, dbVars>>

CountWorking(c) ==
  /\ request[c].step = "working"
  /\ Update(c, [request[c] EXCEPT !.step = "status",
                                  !.working = MilestoneIn({"IN_PROGRESS"})])
  /\ UNCHANGED <<scenario, chainVars, dbVars>>

\* The status of the project follows the counts.
UpdateProject(c) ==
  LET r == request[c] IN
  /\ r.step = "status"
  /\ project' = [project EXCEPT !.status = IF r.working THEN "IN_PROGRESS"
                                           ELSE IF ~r.open THEN "COMPLETE" ELSE @]
  /\ IF r.tx = NoTx THEN Return(c) ELSE GotoWith(c, "flags", FALSE)
  /\ UNCHANGED <<scenario, chainVars, milestone, funds, transactions, documents>>

-----------------------------------------------------------------------------
\* The columns of table Funds an event sets ...
Flags(tx, f) ==
  CASE tx.event = "MilestoneFunded" ->
         [f EXCEPT !.fundTranscationIdToEscrow = TRUE]
    [] tx.event = "MilestoneStateChanged" /\ tx.state = "COMPLETED" ->
         [f EXCEPT !.enableFundTransfer = TRUE]
    [] tx.event = "MilestonePayout" ->
         [f EXCEPT !.enableFundTransfer = FALSE, !.fundTransferred = TRUE,
                   !.enableRoyalityTransfer = TRUE]
    [] tx.event = "RoyaltyPaid" ->
         [f EXCEPT !.enableRoyalityTransfer = FALSE, !.royalityTransferred = TRUE]
    [] OTHER -> f

FaultyFlagged(tx, i) ==               \* faulty: all milestones count as paid
  {i} \cup (IF tx.event = "MilestonePayout" THEN Items ELSE {})

\* ... in the rows of the milestone, and of its sub-milestones if it is paid.
Flagged(tx, i) ==
  {i} \cup (IF tx.event = "MilestonePayout" THEN SubsOf(i) ELSE {})

UpdateManyFunds(c) ==
  LET r == request[c] IN
  /\ r.step = "flags"
  /\ funds' = [i \in Items |-> IF i \in Flagged(r.tx, r.item)
                               THEN Flags(r.tx, funds[i]) ELSE funds[i]]
  /\ milestone' = IF r.tx.event = "SubMilestoneAdded"
                  THEN [milestone EXCEPT ![r.item].isDeployedOnContract = TRUE]
                  ELSE milestone
  /\ NextEvent(c)
  /\ UNCHANGED <<scenario, chainVars, project, transactions, documents>>

\* A process can die, or the database fail, at any await.
Stop(c) ==
  /\ InMode({"overlap"})
  /\ request[c] # Idle
  /\ Return(c)
  /\ UNCHANGED <<scenario, chainVars, dbVars>>

-----------------------------------------------------------------------------
\* What orderly clients do: they wait for what was sent to be reported, fund a
\* milestone once, before the work, and change states as the server allows.
Orderly(guard) == InMode({"orderly"}) => /\ emitted = {} /\ AllIdle /\ guard

Fresh(ms) == \A m \in ms : /\ m \notin chain.funded
                           /\ chain.state[m] = "INIT"
                           /\ milestone[m].milestoneStatus = "INIT"

Send ==
  /\ InMode({"serial", "overlap"}) => Cardinality(emitted) < scenario.limit
  /\ \/ Orderly(Fresh(Mains)) /\ FundAll
     \/ \E m \in Mains : Orderly(Fresh({m})) /\ FundOne(m)
     \/ \E s \in Subs : Orderly(TRUE) /\ addSubMilestones(s)
     \/ \E i \in Items, state \in States :
          LET asked == Stored(state) IN
          /\ Orderly(Accepts(Sender(i, asked), i, milestone[i], asked))
          /\ changeState(i, state)
     \/ Orderly(TRUE) /\ payoutProject
     \/ \E m \in Mains : Orderly(TRUE) /\ payoutMilestone(m)
     \/ \E m \in Mains : Orderly(TRUE) /\ payoutMilestoneRoyalty(m)
     \/ Orderly(TRUE) /\ releaseFreeBalance
  /\ UNCHANGED <<scenario, dbVars, request>>

Init ==
  /\ scenario \in Scenarios
  /\ ChainInit
  /\ milestone = [i \in Items |-> NewMilestone(i)]
  /\ funds = [i \in Items |-> NewFunds(i)]
  /\ project = NewProject
  /\ transactions = NewTransactions
  /\ documents = {}
  /\ request = [c \in Calls |-> Idle]

Handle(c) ==
  \/ Report(c) \/ Patch(c)
  \/ ReadEvent(c) \/ FreeBalance(c) \/ FundProject(c)
  \/ Check(c) \/ ReworkDocuments(c) \/ Write(c)
  \/ CountOpen(c) \/ CountWorking(c) \/ UpdateProject(c)
  \/ UpdateManyFunds(c) \/ Stop(c)

Next == Send \/ \E c \in Calls : Handle(c)

Spec == Init /\ [][Next]_vars

-----------------------------------------------------------------------------
Transaction == [event : Event, items : SUBSET Items, state : States]
Step == {"idle", "event", "fund", "check", "rework", "write", "open", "working",
         "status", "flags"}

\* The types of the rows and of the requests' variables; no row ever holds a
\* status the tables do not have, such as FUNDED (schema.prisma).
TypeOK ==
  /\ scenario \in Scenarios
  /\ chain.state \in [Items -> States]
  /\ chain.revisionCounter \in [Items -> Nat]
  /\ chain.added \subseteq Items
  /\ chain.paid \subseteq Mains
  /\ chain.settled \subseteq chain.paid
  /\ emitted \subseteq Transaction
  /\ milestone \in [Items -> [milestoneStatus : MilestoneStatus,
                              revisionsCounter : Nat,
                              isDeployedOnContract : BOOLEAN,
                              reworkDocs : BOOLEAN]]
  /\ funds \in [Items -> [fundTranscationIdToEscrow : BOOLEAN,
                          enableFundTransfer : BOOLEAN,
                          fundTransferred : BOOLEAN,
                          enableRoyalityTransfer : BOOLEAN,
                          royalityTransferred : BOOLEAN]]
  /\ project \in [status : {"ASSIGNED", "IN_PROGRESS", "COMPLETE"},
                  leftProjectFund : Int, fundTransfered : BOOLEAN,
                  freeBalanceReleased : BOOLEAN]
  /\ transactions \subseteq Event \X Items
  /\ documents \subseteq Items
  /\ request \in [Calls -> [step : Step, tx : Transaction \cup {NoTx},
                            todo : SUBSET Items, item : Milestones \cup SubMilestones,
                            forProject : BOOLEAN, docs : BOOLEAN,
                            asked : MilestoneStatus, left : Int,
                            status : MilestoneStatus, counter : Nat,
                            open : BOOLEAN, working : BOOLEAN]]

\* However often transactions are reported, in whatever order, and wherever a
\* request is cut off: a payment is marked as made only if one is recorded, and
\* its royalty offered only then; and where the transactions are those of the
\* project's own contract, which nothing checks, the database claims no funding,
\* payment or release the chain did not make, and offers a payment only of a
\* milestone that was completed (getTransactions, createTransaction before
\* updateManyFunds).
FundsTruthful ==
  LET main(i) == IF i \in Mains THEN i ELSE Parent[i] IN
  /\ \A i \in Items :
       /\ funds[i].fundTransferred =>
            \E m \in {i, main(i)} : <<"MilestonePayout", m>> \in transactions
       /\ funds[i].enableRoyalityTransfer => funds[i].fundTransferred
       /\ funds[i].royalityTransferred => <<"RoyaltyPaid", i>> \in transactions
  /\ ~scenario.foreign =>
       /\ \A i \in Items :
            /\ funds[i].fundTranscationIdToEscrow => i \in chain.funded
            /\ funds[i].enableFundTransfer => i \in chain.completed
            /\ funds[i].fundTransferred => main(i) \in chain.paid
            /\ funds[i].royalityTransferred => i \in chain.settled
            /\ milestone[i].isDeployedOnContract => i \in chain.added
       /\ project.freeBalanceReleased => chain.released

\* As long as requests do not overlap, a milestone goes back for rework only by
\* using up one of the revisions agreed on, and nothing else uses one up
\* (updateMilestoneStatus, revisionsCounter checked in one query and written in
\* another).
EveryReworkCounted ==
  [][InMode({"orderly", "serial"}) =>
       \A i \in Items :
         LET goesBack == /\ milestone[i].milestoneStatus # "REWORK"
                         /\ milestone'[i].milestoneStatus = "REWORK"
         IN  /\ milestone'[i].revisionsCounter =
                  milestone[i].revisionsCounter + (IF goesBack THEN 1 ELSE 0)
             /\ goesBack => milestone[i].revisionsCounter < revisions[i]]_vars

Ended(m) == milestone[m].milestoneStatus \in EndStates

\* As long as requests do not overlap, nothing moves a milestone out of an end
\* state (updateMilestoneStatus, END_STATUS_RESTRICT).
EndStatesFinal ==
  [][InMode({"orderly", "serial"}) =>
       \A m \in Mains : Ended(m) =>
         milestone'[m].milestoneStatus = milestone[m].milestoneStatus]_vars

\* As long as requests do not overlap, a project is complete exactly when it has
\* milestones and all of them ended, and in progress when one of them is
\* (updateMilestoneStatus, the two counts).
ProjectStatusCurrent ==
  InMode({"orderly", "serial"}) /\ AllIdle =>
    /\ project.status = "COMPLETE" <=> Mains # {} /\ \A m \in Mains : Ended(m)
    /\ MilestoneIn({"IN_PROGRESS"}) => project.status = "IN_PROGRESS"

\* A row shows the state of the contract.  Sub-milestones completed with their
\* milestone, or funded anew with it, are only so on one of the two sides.
Shows(i) ==
  /\ milestone[i].revisionsCounter = chain.revisionCounter[i]
  /\ milestone[i].isDeployedOnContract <=> i \in Subs /\ i \in chain.added
  /\ \/ milestone[i].milestoneStatus = Stored(chain.state[i])
     \/ /\ i \in Subs
        /\ chain.state[i] = "FUNDED" \/ milestone[Parent[i]].milestoneStatus = "COMPLETED"

\* Where clients report every transaction before the next one is sent, with the
\* function they called, the database is an exact copy: the server refuses none
\* of them, states, revisions and payments are those of the chain, and payments
\* are offered exactly when the contract would make them.  What is left to fund
\* is what the milestones not yet funded cost, and the project counts as funded
\* when they all are, or as soon as those that are not cost nothing; in a project
\* funded milestone by milestone only where amounts are whole numbers
\* (getTransactions as a whole).
MirrorExact ==
  InMode({"orderly"}) /\ AllIdle /\ emitted = {} =>
    /\ \A i \in Items : Shows(i)
    /\ \A m \in Mains :
         /\ funds[m].fundTranscationIdToEscrow <=> m \in chain.funded
         /\ funds[m].enableFundTransfer <=> Payable({m})
         /\ funds[m].enableRoyalityTransfer <=> m \in chain.paid \ chain.settled
         /\ funds[m].royalityTransferred <=> m \in chain.settled
         /\ \A i \in {m} \cup SubsOf(m) : funds[i].fundTransferred <=> m \in chain.paid
    /\ scenario.whole \/ scenario.fundingType = "PROJECT" =>
         /\ project.leftProjectFund = totalProjectFund - SumOfPrices(chain.funded)
         /\ Mains # {} /\ chain.funded = Mains => project.fundTransfered
         /\ project.fundTransfered => \A m \in Mains \ chain.funded : price[m] = 0
    /\ project.freeBalanceReleased <=> chain.released

\* The comment of the block says "to upload reowrk details".  The documents a
\* milestone refers to are there to be looked at.
ReworkDocumentsKept ==
  AllIdle => \A i \in Items : milestone[i].reworkDocs => i \in documents
=============================================================================
