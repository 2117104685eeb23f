--------------------------- MODULE MilestoneChain ---------------------------
(***************************************************************************)
(* The deployed Escrow contract as the server sees it: which transactions  *)
(* of a project can succeed, and the events they leave in the logs of the  *)
(* network for clients to report.  Amounts, dates and callers are those of *)
(* EscrowContract and are left out here.                                   *)
(***************************************************************************)
EXTENDS Integers

CONSTANTS
  Milestones, SubMilestones,   \* rows of table Milestones
  Parent,                      \* milestoneId of a sub-milestone
  revisions                    \* reworks the parties agreed on

ASSUME ChainAssumption ==
  /\ Milestones # {}
  /\ Milestones \cap SubMilestones = {}
  /\ Parent \in [SubMilestones -> Milestones]
  /\ revisions \in [Milestones \cup SubMilestones -> Nat]

VARIABLES
  scenario,   \* the project and how its transactions are reported
  chain,      \* what the contracts store
  emitted     \* transactions a client may report to the server

chainVars == <<chain, emitted>>

States == {"INIT", "FUNDED", "IN_PROGRESS", "IN_REVIEW", "REWORK",
           "COMPLETED", "STOP", "FORCE_CLOSED"}

\* orderly: a client reports each transaction, before anybody sends another
\* serial:  one request at a time, whatever is reported and however often
\* overlap: requests overlap, and may be cut off
Modes == {"orderly", "serial", "overlap"}

\* The items of the project at hand; a sub-milestone comes with its parent.
Items == scenario.items
Mains == Items \cap Milestones
Subs == Items \cap SubMilestones
SubsOf(m) == {s \in Subs : Parent[s] = m}

\* The logs of a transaction are one event for each of its items; the order
\* of the items is left open.
Tx(event, items, state) == [event |-> event, items |-> items, state |-> state]
NoTx == Tx("none", {}, "INIT")

\* A project starts with nothing funded, or with all milestones in review.
InReview == scenario.start = "IN_REVIEW"

ChainInit ==
  /\ chain = [state |-> [i \in Items |-> IF i \in Mains THEN scenario.start ELSE "INIT"],
              revisionCounter |-> [i \in Items |-> 0],
              added |-> Mains, funded |-> IF InReview THEN Mains ELSE {},
              completed |-> {}, paid |-> {}, settled |-> {}, released |-> FALSE]
  /\ emitted = {}

\* A transaction that succeeds can be reported from then on.
Emit(tx) == emitted' = emitted \cup {tx}

\* changeState and checkStateChange of Milestone.sol
Allowed(newState, currentState) ==
  /\ newState = "IN_PROGRESS" => currentState \in {"FUNDED", "REWORK"}
  /\ newState = "IN_REVIEW" => currentState = "IN_PROGRESS"
  /\ newState = "REWORK" => currentState = "IN_REVIEW"
  /\ newState = "STOP" => currentState = "FUNDED"

\* Funding a milestone funds its sub-milestones too, except those on hold.
Funded(ms) ==
  [i \in Items |->
    IF i \in ms \/ /\ i \in Subs \cap chain.added
                   /\ Parent[i] \in ms
                   /\ chain.state[i] # "STOP"
    THEN "FUNDED" ELSE chain.state[i]]

FundAll ==            \* fundProject, fundUsdcToProject
  /\ scenario.fundingType = "PROJECT"
  /\ chain' = [chain EXCEPT !.state = Funded(Mains), !.funded = Mains]
  /\ Emit(Tx("MilestoneFunded", Mains, "FUNDED"))

FundOne(m) ==         \* fundMilestone, fundUsdcToMilestone
  /\ scenario.fundingType = "MILESTONE"
  /\ chain' = [chain EXCEPT !.state = Funded({m}), !.funded = @ \cup {m}]
  /\ Emit(Tx("MilestoneFunded", {m}, "FUNDED"))

\* A sub-milestone of a funded milestone is funded from the start.
addSubMilestones(s) ==
  /\ s \notin chain.added
  /\ chain.state[Parent[s]] # "COMPLETED"
  /\ chain' = [chain EXCEPT
       !.added = @ \cup {s},
       !.state[s] = IF chain.state[Parent[s]] = "FUNDED" THEN "FUNDED" ELSE "INIT"]
  /\ Emit(Tx("SubMilestoneAdded", {s}, "INIT"))

changeState(i, newState) ==
  /\ i \in chain.added
  /\ Allowed(newState, chain.state[i])
  /\ newState = "REWORK" => chain.revisionCounter[i] < revisions[i]
  /\ chain' = [chain EXCEPT
       !.state = IF newState = "FUNDED" THEN Funded({i})
                 ELSE [@ EXCEPT ![i] = newState],
       !.revisionCounter[i] = IF newState = "REWORK" THEN @ + 1 ELSE @,
       !.completed = IF newState = "COMPLETED" THEN @ \cup {i} ELSE @]
  /\ Emit(Tx(IF i \in Mains THEN "MilestoneStateChanged"
                            ELSE "SubMilestoneStateChanged", {i}, newState))

Payable(ms) == \A m \in ms : chain.state[m] = "COMPLETED" /\ m \notin chain.paid

payoutProject ==
  /\ scenario.fundTransferType = "PROJECT_COMPLETE"
  /\ Payable(Mains)
  /\ chain' = [chain EXCEPT !.paid = Mains]
  /\ Emit(Tx("MilestonePayout", Mains, "COMPLETED"))

payoutMilestone(m) ==
  /\ scenario.fundTransferType = "MILESTONE_COMPLETE"
  /\ Payable({m})
  /\ chain' = [chain EXCEPT !.paid = @ \cup {m}]
  /\ Emit(Tx("MilestonePayout", {m}, "COMPLETED"))

payoutMilestoneRoyalty(m) ==
  /\ m \in chain.paid \ chain.settled
  /\ chain' = [chain EXCEPT !.settled = @ \cup {m}]
  /\ Emit(Tx("RoyaltyPaid", {m}, "COMPLETED"))

releaseFreeBalance ==
  /\ Mains \subseteq chain.paid
  /\ ~chain.released
  /\ chain' = [chain EXCEPT !.released = TRUE]
  /\ Emit(Tx("FreeBalanceReleased", {}, "COMPLETED"))
=============================================================================
