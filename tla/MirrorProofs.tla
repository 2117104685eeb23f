---------------------------- MODULE MirrorProofs ----------------------------
(***************************************************************************)
(* Proofs about MilestoneMirror, for any milestones, prices, revisions,    *)
(* projects and number of requests in flight.                              *)
(***************************************************************************)
EXTENDS MilestoneMirror, Sums, TLAPS

-----------------------------------------------------------------------------
(* The inductive invariant.                                                *)

Chain ==
  [state : [Items -> States], revisionCounter : [Items -> Nat],
   added : SUBSET Items, funded : SUBSET Mains, completed : SUBSET Items,
   paid : SUBSET Mains, settled : SUBSET Mains, released : BOOLEAN]

Request ==
  [step : Step, tx : Transaction \cup {NoTx}, todo : SUBSET Items,
   item : Milestones \cup SubMilestones, forProject : BOOLEAN, docs : BOOLEAN,
   asked : MilestoneStatus, left : Int, status : MilestoneStatus, counter : Nat,
   open : BOOLEAN, working : BOOLEAN]

\* What the chain ch did is what transaction tx says.
Truthful(tx, ch) ==
  /\ tx.event = "MilestoneFunded" => tx.items \subseteq ch.funded
  /\ tx.event = "MilestoneStateChanged" /\ tx.state = "COMPLETED"
       => tx.items \subseteq ch.completed
  /\ tx.event = "MilestonePayout" => tx.items \subseteq ch.paid
  /\ tx.event = "RoyaltyPaid" => tx.items \subseteq ch.settled
  /\ tx.event = "SubMilestoneAdded" => tx.items \subseteq ch.added
  /\ tx.event = "FreeBalanceReleased" => ch.released

\* The transactions reported are those of the project's own contract.
Own == ~scenario.foreign

\* Request r is about a transaction the table has, and the chain did if it is
\* its own, and holds a count of revisions that leaves room for what it will
\* write.
Sound(r, ch, recorded, items, own) ==
  /\ r.tx # NoTx => (own => Truthful(r.tx, ch)) /\ r.todo \subseteq r.tx.items
  /\ r.step \in {"event", "fund", "flags"} => r.tx # NoTx
  /\ r.step = "fund" => r.tx.event = "MilestoneFunded"
  /\ r.step \notin {"idle", "event"} /\ r.tx # NoTx =>
       r.item \in r.tx.items /\ <<r.tx.event, r.item>> \in recorded
  /\ r.step \in {"fund", "check", "rework", "write"} => r.item \in items
  /\ r.step \in {"rework", "write"} /\ r.asked = "REWORK" => r.counter < revisions[r.item]

\* Nothing happens to a sub-milestone before it is added.
Unadded(ch) == \A s \in Subs \ ch.added : ch.state[s] = "INIT"

\* Whatever clients send, in whatever order.
Inv ==
  /\ TypeOK
  /\ chain \in Chain
  /\ Unadded(chain)
  /\ \A tx \in emitted : Truthful(tx, chain)
  /\ \A c \in Calls : Sound(request[c], chain, transactions, Items, Own)
  /\ FundsTruthful

-----------------------------------------------------------------------------
(* The project at hand.                                                    *)

LEMMA ProjectFacts ==
  ASSUME scenario \in Scenarios
  PROVE  /\ Items \subseteq Milestones \cup SubMilestones
         /\ Mains \subseteq Items /\ Subs \subseteq Items /\ Items = Mains \cup Subs
         /\ Mains \subseteq Milestones /\ Mains \cap Subs = {}
         /\ \A s \in Subs : Parent[s] \in Mains
         /\ scenario.start \in {"INIT", "IN_REVIEW"}
         /\ IsFiniteSet(Mains)
<1>1. Items \subseteq Milestones \cup SubMilestones
  BY MirrorAssumption DEF Items
<1>2. Mains \cap Subs = {} /\ Mains \cup Subs = Items
  BY <1>1, ChainAssumption DEF Mains, Subs
<1>3. \A s \in Subs : Parent[s] \in Mains
  BY ChainAssumption, MirrorAssumption DEF Items, Mains, Subs
<1>4. IsFiniteSet(Mains)
  BY MirrorAssumption, FS_Subset DEF Mains
<1>5. QED
  BY <1>1, <1>2, <1>3, <1>4, MirrorAssumption DEF Mains, Subs

\* A project does not change.
LEMMA SameProject ==
  ASSUME scenario' = scenario
  PROVE  /\ Items' = Items /\ Mains' = Mains /\ Subs' = Subs
         /\ Chain' = Chain /\ Transaction' = Transaction /\ Request' = Request
         /\ (Own' <=> Own) /\ \A modes : InMode(modes)' <=> InMode(modes)
  BY DEF Own, Items, Mains, Subs, Chain, Transaction, Request, InMode

LEMMA IdleFacts ==
  /\ Idle \in Request /\ Idle.step = "idle" /\ Idle.tx = NoTx
  /\ \A ch, recorded, items, own : Sound(Idle, ch, recorded, items, own)
<1>1. (CHOOSE m \in Milestones : TRUE) \in Milestones
  BY ChainAssumption
<1>2. Idle \in Request
  BY <1>1 DEF Idle, Request, Step, MilestoneStatus
<1>3. QED
  BY <1>2 DEF Idle, Sound

LEMMA NoTxFacts == NoTx \notin Transaction /\ NoTx.event = "none"
  BY DEF NoTx, Tx, Transaction, Event

\* Where a request goes on with some of its variables.
LEMMA GotoWithFacts ==
  ASSUME NEW c \in Calls, request \in [Calls -> Request], NEW step \in Step,
         NEW open \in BOOLEAN, GotoWith(c, step, open)
  PROVE  LET r == request[c]
             next == request'[c]
         IN  /\ request' = [request EXCEPT ![c] = next]
             /\ next \in Request
             /\ next.step = step /\ next.open = open
             /\ next.tx = r.tx /\ next.todo = r.todo /\ next.forProject = r.forProject
             /\ r.tx # NoTx => next.item = r.item
<1> DEFINE r == request[c]
           next == [Idle EXCEPT !.step = step, !.tx = r.tx, !.todo = r.todo, !.open = open,
                                !.forProject = r.forProject,
                                !.item = IF r.tx = NoTx THEN @ ELSE r.item]
<1>1. request' = [request EXCEPT ![c] = next]
  BY DEF GotoWith, Update
<1>2. request'[c] = next
  BY <1>1
<1>3. next \in Request
  BY IdleFacts DEF Request
<1>4. /\ next.step = step /\ next.open = open
      /\ next.tx = r.tx /\ next.todo = r.todo /\ next.forProject = r.forProject
      /\ r.tx # NoTx => next.item = r.item
  BY IdleFacts DEF Request
<1> HIDE DEF next
<1>5. QED
  BY <1>1, <1>2, <1>3, <1>4

-----------------------------------------------------------------------------
(* The chain only adds to what it did.                                     *)

Grows(ch, later) ==
  /\ ch.added \subseteq later.added /\ ch.funded \subseteq later.funded
  /\ ch.completed \subseteq later.completed /\ ch.paid \subseteq later.paid
  /\ ch.settled \subseteq later.settled /\ (ch.released => later.released)

LEMMA TruthfulLater ==
  ASSUME NEW tx, NEW ch, NEW later, Truthful(tx, ch), Grows(ch, later)
  PROVE  Truthful(tx, later)
  BY DEF Truthful, Grows

LEMMA SoundLater ==
  ASSUME NEW r, NEW ch, NEW later, NEW old, NEW new, NEW items,
         NEW own, Sound(r, ch, old, items, own), Grows(ch, later), old \subseteq new
  PROVE  Sound(r, later, new, items, own)
  BY TruthfulLater DEF Sound

LEMMA FundedType ==
  ASSUME chain \in Chain, NEW ms
  PROVE  Funded(ms) \in [Items -> States]
  BY DEF Funded, Chain, States

\* What one transaction of a client does.
ChainStep ==
  /\ chain' \in Chain /\ Grows(chain, chain')
  /\ chain'.settled \subseteq chain'.paid
  /\ \E tx \in Transaction : Truthful(tx, chain') /\ emitted' = emitted \cup {tx}

LEMMA SendChain ==
  ASSUME Inv, Send
  PROVE  ChainStep
<1> USE DEF Inv, ChainStep, Grows, Truthful, Emit, Tx
<1>1. /\ scenario \in Scenarios /\ chain \in Chain /\ chain.settled \subseteq chain.paid
  BY DEF TypeOK
<1>2. /\ Mains \subseteq Items /\ Subs \subseteq Items
  BY <1>1, ProjectFacts
<1>3. CASE FundAll
  <2>1. chain' = [chain EXCEPT !.state = Funded(Mains), !.funded = Mains]
    BY <1>3 DEF FundAll
  <2>2. chain' \in Chain /\ Grows(chain, chain') /\ chain'.settled \subseteq chain'.paid
        /\ chain'.funded = Mains
    BY <1>1, <2>1, FundedType DEF Chain
  <2>3. Tx("MilestoneFunded", Mains, "FUNDED") \in Transaction
    BY <1>2 DEF Transaction, Event, States
  <2>4. QED
    BY <1>3, <2>2, <2>3 DEF FundAll
<1>4. ASSUME NEW m \in Mains, FundOne(m)
      PROVE  ChainStep
  <2>1. chain' = [chain EXCEPT !.state = Funded({m}), !.funded = @ \cup {m}]
    BY <1>4 DEF FundOne
  <2>2. chain' \in Chain /\ Grows(chain, chain') /\ chain'.settled \subseteq chain'.paid
        /\ m \in chain'.funded
    BY <1>1, <2>1, FundedType DEF Chain
  <2>3. Tx("MilestoneFunded", {m}, "FUNDED") \in Transaction
    BY <1>2 DEF Transaction, Event, States
  <2>4. QED
    BY <1>4, <2>2, <2>3 DEF FundOne
<1>5. ASSUME NEW s \in Subs, addSubMilestones(s)
      PROVE  ChainStep
  <2>1. PICK state \in States :
          chain' = [chain EXCEPT !.added = @ \cup {s}, !.state[s] = state]
    BY <1>5 DEF addSubMilestones, States
  <2>2. chain' \in Chain /\ Grows(chain, chain') /\ chain'.settled \subseteq chain'.paid
        /\ s \in chain'.added
    BY <1>1, <1>2, <2>1 DEF Chain
  <2>3. Tx("SubMilestoneAdded", {s}, "INIT") \in Transaction
    BY <1>2 DEF Transaction, Event, States
  <2>4. QED
    BY <1>5, <2>2, <2>3 DEF addSubMilestones
<1>6. ASSUME NEW i \in Items, NEW state \in States, changeState(i, state)
      PROVE  ChainStep
  <2> DEFINE newState == IF state = "FUNDED" THEN Funded({i})
                         ELSE [chain.state EXCEPT ![i] = state]
             newCounter == [chain.revisionCounter EXCEPT
                              ![i] = IF state = "REWORK" THEN @ + 1 ELSE @]
             newCompleted == IF state = "COMPLETED" THEN chain.completed \cup {i}
                             ELSE chain.completed
             tx == Tx(IF i \in Mains THEN "MilestoneStateChanged"
                                     ELSE "SubMilestoneStateChanged", {i}, state)
  <2>1. chain' = [chain EXCEPT !.state = newState, !.revisionCounter = newCounter,
                               !.completed = newCompleted]
    BY <1>1, <1>6 DEF changeState, Chain
  <2>2. /\ newState \in [Items -> States] /\ newCounter \in [Items -> Nat]
        /\ newCompleted \in SUBSET Items /\ chain.completed \subseteq newCompleted
        /\ state = "COMPLETED" => i \in newCompleted
    BY <1>1, FundedType DEF Chain
  <2> HIDE DEF newState, newCounter, newCompleted
  <2>3. chain' \in Chain /\ Grows(chain, chain') /\ chain'.settled \subseteq chain'.paid
        /\ chain'.completed = newCompleted
    BY <1>1, <2>1, <2>2 DEF Chain
  <2>4. tx \in Transaction
    BY DEF Transaction, Event
  <2>5. emitted' = emitted \cup {tx}
    BY <1>6 DEF changeState
  <2>6. Truthful(tx, chain')
    BY <2>2, <2>3
  <2>7. QED
    BY <2>3, <2>4, <2>5, <2>6
<1>7. CASE payoutProject
  <2>1. chain' = [chain EXCEPT !.paid = Mains]
    BY <1>7 DEF payoutProject
  <2>2. chain' \in Chain /\ Grows(chain, chain') /\ chain'.settled \subseteq chain'.paid
        /\ chain'.paid = Mains
    BY <1>1, <2>1 DEF Chain
  <2>3. Tx("MilestonePayout", Mains, "COMPLETED") \in Transaction
    BY <1>2 DEF Transaction, Event, States
  <2>4. QED
    BY <1>7, <2>2, <2>3 DEF payoutProject
<1>8. ASSUME NEW m \in Mains, payoutMilestone(m)
      PROVE  ChainStep
  <2>1. chain' = [chain EXCEPT !.paid = @ \cup {m}]
    BY <1>8 DEF payoutMilestone
  <2>2. chain' \in Chain /\ Grows(chain, chain') /\ chain'.settled \subseteq chain'.paid
        /\ m \in chain'.paid
    BY <1>1, <2>1 DEF Chain
  <2>3. Tx("MilestonePayout", {m}, "COMPLETED") \in Transaction
    BY <1>2 DEF Transaction, Event, States
  <2>4. QED
    BY <1>8, <2>2, <2>3 DEF payoutMilestone
<1>9. ASSUME NEW m \in Mains, payoutMilestoneRoyalty(m)
      PROVE  ChainStep
  <2>1. chain' = [chain EXCEPT !.settled = @ \cup {m}] /\ m \in chain.paid
    BY <1>9 DEF payoutMilestoneRoyalty
  <2>2. chain' \in Chain /\ Grows(chain, chain') /\ chain'.settled \subseteq chain'.paid
        /\ m \in chain'.settled
    BY <1>1, <2>1 DEF Chain
  <2>3. Tx("RoyaltyPaid", {m}, "COMPLETED") \in Transaction
    BY <1>2 DEF Transaction, Event, States
  <2>4. QED
    BY <1>9, <2>2, <2>3 DEF payoutMilestoneRoyalty
<1>10. CASE releaseFreeBalance
  <2>1. chain' = [chain EXCEPT !.released = TRUE]
    BY <1>10 DEF releaseFreeBalance
  <2>2. chain' \in Chain /\ Grows(chain, chain') /\ chain'.settled \subseteq chain'.paid
        /\ chain'.released
    BY <1>1, <2>1 DEF Chain
  <2>3. Tx("FreeBalanceReleased", {}, "COMPLETED") \in Transaction
    BY DEF Transaction, Event, States
  <2>4. QED
    BY <1>10, <2>2, <2>3 DEF releaseFreeBalance
<1>11. QED
  BY <1>3, <1>4, <1>5, <1>6, <1>7, <1>8, <1>9, <1>10 DEF Send

LEMMA SendUnadded ==
  ASSUME Inv, Send
  PROVE  Unadded(chain')
<1>1. scenario \in Scenarios /\ chain \in Chain /\ Unadded(chain)
  BY DEF Inv, TypeOK
<1>2. Mains \subseteq Items /\ Subs \subseteq Items /\ Mains \cap Subs = {}
  BY <1>1, ProjectFacts
<1>3. ASSUME NEW ms, ms \cap Subs \subseteq chain.added
      PROVE  \A s \in Subs \ chain.added : Funded(ms)[s] = "INIT"
  BY <1>1, <1>2, <1>3 DEF Funded, Unadded
<1>4. SUFFICES ASSUME NEW s \in Subs \ chain'.added
               PROVE  chain'.state[s] = "INIT"
  BY DEF Unadded
<1>5. CASE FundAll
  BY <1>1, <1>2, <1>3, <1>4, <1>5 DEF FundAll, Chain
<1>6. ASSUME NEW m \in Mains, FundOne(m)
      PROVE  chain'.state[s] = "INIT"
  BY <1>1, <1>2, <1>3, <1>4, <1>6 DEF FundOne, Chain
<1>7. ASSUME NEW t \in Subs, addSubMilestones(t)
      PROVE  chain'.state[s] = "INIT"
  <2>1. PICK state :
          chain' = [chain EXCEPT !.added = @ \cup {t}, !.state[t] = state]
    BY <1>7 DEF addSubMilestones
  <2>2. chain'.added = chain.added \cup {t} /\ chain'.state = [chain.state EXCEPT ![t] = state]
    BY <1>1, <2>1 DEF Chain
  <2>3. QED
    BY <1>1, <1>2, <1>4, <2>2 DEF Chain, Unadded
<1>8. ASSUME NEW i \in Items, NEW state \in States, changeState(i, state)
      PROVE  chain'.state[s] = "INIT"
  <2>1. i \in chain.added
    BY <1>8 DEF changeState
  <2>2. /\ chain'.added = chain.added
        /\ chain'.state = IF state = "FUNDED" THEN Funded({i})
                          ELSE [chain.state EXCEPT ![i] = state]
    BY <1>1, <1>8 DEF changeState, Chain
  <2>3. QED
    BY <1>1, <1>2, <1>3, <1>4, <2>1, <2>2 DEF Chain, Unadded
<1>9. CASE payoutProject \/ releaseFreeBalance \/ \E m \in Mains : payoutMilestone(m) \/ payoutMilestoneRoyalty(m)
  BY <1>1, <1>4, <1>9 DEF payoutProject, releaseFreeBalance, payoutMilestone,
     payoutMilestoneRoyalty, Chain, Unadded
<1>10. QED
  BY <1>5, <1>6, <1>7, <1>8, <1>9 DEF Send

-----------------------------------------------------------------------------
(* The server: every await of a handler keeps the invariant.               *)

RowsType ==
  /\ milestone \in [Items -> [milestoneStatus : MilestoneStatus,
                              revisionsCounter : Nat,
                              isDeployedOnContract : BOOLEAN,
                              reworkDocs : BOOLEAN]]
  /\ funds \in [Items -> [fundTranscationIdToEscrow : BOOLEAN,
                          enableFundTransfer : BOOLEAN,
                          fundTransferred : BOOLEAN,
                          enableRoyalityTransfer : BOOLEAN,
                          royalityTransferred : BOOLEAN]]
  /\ project \in [status : {"ASSIGNED", "IN_PROGRESS", "COMPLETE"},
                  leftProjectFund : Int, fundTransfered : BOOLEAN,
                  freeBalanceReleased : BOOLEAN]
  /\ transactions \subseteq Event \X Items
  /\ documents \subseteq Items

LEMMA TypeByParts ==
  /\ TypeOK /\ chain \in Chain <=>
       /\ scenario \in Scenarios /\ chain \in Chain /\ chain.settled \subseteq chain.paid
       /\ emitted \subseteq Transaction /\ RowsType /\ request \in [Calls -> Request]
  /\ TypeOK' /\ chain' \in Chain' <=>
       /\ scenario' \in Scenarios /\ chain' \in Chain' /\ chain'.settled \subseteq chain'.paid
       /\ emitted' \subseteq Transaction' /\ RowsType' /\ request' \in [Calls -> Request']
  BY DEF TypeOK, RowsType, Request, Chain

\* Rows that are not written stay true while the chain goes on.
LEMMA RowsLater ==
  ASSUME FundsTruthful, chain \in Chain, chain' \in Chain, scenario' = scenario,
         Grows(chain, chain'), UNCHANGED <<milestone, funds, project>>,
         transactions \subseteq transactions'
  PROVE  FundsTruthful'
<1>1. Items' = Items /\ Mains' = Mains
  BY SameProject
<1>2. QED
  BY <1>1 DEF FundsTruthful, Grows

\* One request took a step.
LEMMA RequestStep ==
  ASSUME Inv, NEW c \in Calls, UNCHANGED <<scenario, chain>>, emitted' \subseteq emitted,
         transactions \subseteq transactions', RowsType',
         request' = [request EXCEPT ![c] = request'[c]], request'[c] \in Request,
         Sound(request'[c], chain, transactions', Items, Own),
         FundsTruthful'
  PROVE  Inv'
<1>1. /\ Items' = Items /\ Chain' = Chain /\ Transaction' = Transaction
      /\ Request' = Request /\ (Own' <=> Own)
  BY SameProject
<1>2. /\ scenario \in Scenarios /\ chain \in Chain /\ chain.settled \subseteq chain.paid
      /\ emitted \subseteq Transaction /\ request \in [Calls -> Request]
  BY TypeByParts DEF Inv
<1>3. request' \in [Calls -> Request]
  BY <1>2
<1>4. TypeOK' /\ chain' \in Chain'
  BY <1>1, <1>2, <1>3, TypeByParts
<1>5. \A tx \in emitted' : Truthful(tx, chain')
  BY DEF Inv
<1>6. Grows(chain, chain)
  BY DEF Grows
<1>7. \A d \in Calls : Sound(request'[d], chain', transactions', Items', Own')
  <2> SUFFICES ASSUME NEW d \in Calls
               PROVE  Sound(request'[d], chain, transactions', Items, Own)
    BY <1>1
  <2>1. CASE d = c
    BY <2>1
  <2>2. CASE d # c
    <3>1. request'[d] = request[d] /\ Sound(request[d], chain, transactions, Items, Own)
      BY <1>2, <2>2 DEF Inv
    <3>2. QED
      BY <1>6, <3>1, SoundLater
  <2>3. QED
    BY <2>1, <2>2
<1>8. Unadded(chain)'
  BY SameProject DEF Inv, Unadded
<1>9. QED
  BY <1>4, <1>5, <1>7, <1>8 DEF Inv

\* ... and wrote nothing.
LEMMA ReadingStep ==
  ASSUME Inv, NEW c \in Calls, UNCHANGED <<scenario, chain, dbVars>>, emitted' \subseteq emitted,
         request' = [request EXCEPT ![c] = request'[c]], request'[c] \in Request,
         Sound(request'[c], chain, transactions, Items, Own)
  PROVE  Inv'
<1>1. Items' = Items /\ Mains' = Mains /\ chain \in Chain /\ Grows(chain, chain)
  BY SameProject DEF Inv, Grows
<1>2. RowsType'
  BY <1>1, TypeByParts DEF Inv, RowsType, dbVars
<1>3. FundsTruthful'
  BY <1>1, RowsLater DEF Inv, dbVars
<1>4. QED
  BY <1>2, <1>3, RequestStep DEF dbVars

\* ... or returned, which is always sound.
LEMMA ReturnFacts ==
  ASSUME NEW c \in Calls, request \in [Calls -> Request], Return(c)
  PROVE  /\ request' = [request EXCEPT ![c] = request'[c]] /\ request'[c] \in Request
         /\ request'[c] = Idle
         /\ \A ch, recorded, items, own : Sound(request'[c], ch, recorded, items, own)
  BY IdleFacts DEF Return, Update

LEMMA UpdateFacts ==
  ASSUME NEW c \in Calls, request \in [Calls -> Request], NEW r \in Request, Update(c, r)
  PROVE  /\ request' = [request EXCEPT ![c] = request'[c]] /\ request'[c] \in Request
         /\ request'[c] = r
  BY DEF Update

LEMMA RequestFacts ==
  ASSUME Inv, NEW c \in Calls
  PROVE  /\ request \in [Calls -> Request] /\ request[c] \in Request
         /\ Sound(request[c], chain, transactions, Items, Own)
         /\ scenario \in Scenarios /\ RowsType
  BY TypeByParts DEF Inv

LEMMA InvSend ==
  ASSUME Inv, Send
  PROVE  Inv'
<1>1. ChainStep
  BY SendChain
<1>2. UNCHANGED <<scenario, dbVars, request>>
  BY DEF Send
<1>3. /\ Items' = Items /\ Mains' = Mains /\ Chain' = Chain /\ (Own' <=> Own)
      /\ Transaction' = Transaction /\ Request' = Request
  BY <1>2, SameProject
<1>4. chain' \in Chain /\ Grows(chain, chain') /\ chain'.settled \subseteq chain'.paid
  BY <1>1 DEF ChainStep
<1>5. PICK tx \in Transaction : Truthful(tx, chain') /\ emitted' = emitted \cup {tx}
  BY <1>1 DEF ChainStep
<1>6. /\ TypeOK /\ chain \in Chain /\ scenario \in Scenarios
      /\ emitted \subseteq Transaction /\ RowsType /\ request \in [Calls -> Request]
  BY TypeByParts DEF Inv
<1>7. RowsType'
  BY <1>2, <1>3, <1>6 DEF RowsType, dbVars
<1>8. TypeOK' /\ chain' \in Chain'
  BY <1>2, <1>3, <1>4, <1>5, <1>6, <1>7, TypeByParts
<1>9. \A t \in emitted' : Truthful(t, chain')
  BY <1>4, <1>5, TruthfulLater DEF Inv
<1>10. \A c \in Calls : Sound(request'[c], chain', transactions', Items', Own')
  BY <1>2, <1>3, <1>4, SoundLater DEF Inv, dbVars
<1>11. FundsTruthful'
  BY <1>2, <1>4, <1>6, RowsLater DEF Inv, dbVars
<1>12. Unadded(chain)'
  BY <1>2, SameProject, SendUnadded DEF Unadded
<1>13. QED
  BY <1>8, <1>9, <1>10, <1>11, <1>12 DEF Inv

\* What can be reported: anything, where the transactions are of other contracts.
LEMMA ReportableFacts ==
  ASSUME Inv, NEW tx \in Reportable
  PROVE  tx \in Transaction /\ (Own => Truthful(tx, chain))
<1>1. ASSUME NEW foreign \in Foreign
      PROVE  foreign \in Transaction
  BY DEF Foreign, Transaction, Tx, Event, States
<1>2. \A t \in emitted : t \in Transaction /\ Truthful(t, chain)
  BY TypeByParts DEF Inv
<1>3. QED
  BY <1>1, <1>2 DEF Reportable, Own

LEMMA InvReport ==
  ASSUME Inv, NEW c \in Calls, Report(c)
  PROVE  Inv'
<1>1. PICK tx \in Reportable, forProject \in BOOLEAN :
        Update(c, [Idle EXCEPT !.step = "event", !.tx = tx, !.todo = tx.items,
                               !.forProject = forProject])
  BY DEF Report
<1> DEFINE r == [Idle EXCEPT !.step = "event", !.tx = tx, !.todo = tx.items,
                             !.forProject = forProject]
<1>2. tx \in Transaction /\ (Own => Truthful(tx, chain))
  BY ReportableFacts
<1>3. tx.items \in SUBSET Items
  BY <1>2 DEF Transaction
<1>4. r \in Request
  BY <1>2, <1>3, IdleFacts DEF Request, Step
<1>5. r.step = "event" /\ r.tx = tx /\ r.todo = tx.items
  BY IdleFacts DEF Request
<1>6. tx # NoTx
  BY <1>2, NoTxFacts
<1> HIDE DEF r
<1>7. Sound(r, chain, transactions, Items, Own)
  BY <1>2, <1>5, <1>6 DEF Sound
<1>8. /\ request' = [request EXCEPT ![c] = request'[c]] /\ request'[c] \in Request
      /\ request'[c] = r
  BY <1>1, <1>4, RequestFacts, UpdateFacts DEF r
<1>9. UNCHANGED <<scenario, chain, dbVars>> /\ emitted' \subseteq emitted
  BY DEF Report
<1>10. QED
  BY <1>7, <1>8, <1>9, ReadingStep

LEMMA StoredType == \A state \in States : Stored(state) \in MilestoneStatus
  BY DEF States, Stored, MilestoneStatus

LEMMA InvReadEvent ==
  ASSUME Inv, NEW c \in Calls, ReadEvent(c)
  PROVE  Inv'
<1> DEFINE r == request[c]
<1>1. /\ r \in Request /\ Sound(r, chain, transactions, Items, Own) /\ r.step = "event"
      /\ scenario \in Scenarios /\ RowsType /\ request \in [Calls -> Request]
  BY RequestFacts DEF ReadEvent
<1>2. /\ r.tx # NoTx /\ r.tx \in Transaction /\ (Own => Truthful(r.tx, chain))
      /\ r.todo \subseteq r.tx.items /\ r.tx.event \in Event /\ r.tx.items \subseteq Items
  BY <1>1 DEF Sound, Request, Transaction
<1>3. PICK i \in r.todo :
        /\ transactions' = transactions \cup {<<r.tx.event, i>>}
        /\ CASE r.tx.event = "MilestoneFunded" ->
                  Update(c, [[r EXCEPT !.item = i, !.todo = @ \ {i}] EXCEPT
                               !.step = "fund", !.left = project.leftProjectFund])
             [] r.tx.event \in {"MilestoneStateChanged", "SubMilestoneStateChanged"} ->
                  \/ Update(c, [[r EXCEPT !.item = i, !.todo = @ \ {i}] EXCEPT
                                  !.step = "check", !.asked = Stored(r.tx.state)])
                  \/ /\ r.tx.state = "REWORK"
                     /\ ~InMode({"orderly"})
                     /\ Return(c)
             [] r.tx.event = "MilestoneForceClosed" -> Return(c)
             [] OTHER -> Update(c, [[r EXCEPT !.item = i, !.todo = @ \ {i}] EXCEPT
                                      !.step = "flags"])
  BY DEF ReadEvent
<1>4. i \in r.tx.items /\ i \in Items /\ i \in Milestones \cup SubMilestones
  BY <1>1, <1>2, ProjectFacts
<1> DEFINE next == [r EXCEPT !.item = i, !.todo = @ \ {i}]
<1>5. /\ next \in Request /\ next.tx = r.tx /\ next.item = i
      /\ next.todo \subseteq r.tx.items
  BY <1>1, <1>2, <1>4 DEF Request
<1>6. <<r.tx.event, i>> \in transactions' /\ transactions \subseteq transactions'
  BY <1>3
<1>7. /\ request' = [request EXCEPT ![c] = request'[c]] /\ request'[c] \in Request
      /\ Sound(request'[c], chain, transactions', Items, Own)
  <2> DEFINE Goal == /\ request' = [request EXCEPT ![c] = request'[c]]
                     /\ request'[c] \in Request
                     /\ Sound(request'[c], chain, transactions', Items, Own)
  <2> HIDE DEF next
  <2>1. CASE r.tx.event = "MilestoneFunded"
    <3> DEFINE q == [next EXCEPT !.step = "fund", !.left = project.leftProjectFund]
    <3>1. /\ q \in Request /\ q.tx = r.tx /\ q.item = i /\ q.step = "fund" /\ q.todo = next.todo
      BY <1>1, <1>5 DEF Request, Step, RowsType
    <3>2. Update(c, q)
      BY <1>3, <2>1 DEF next
    <3> HIDE DEF q
    <3>3. Sound(q, chain, transactions', Items, Own)
      BY <1>2, <1>4, <1>5, <1>6, <2>1, <3>1 DEF Sound
    <3>4. QED
      BY <1>1, <3>1, <3>2, <3>3, UpdateFacts
  <2>2. CASE Return(c)
    BY <1>1, <2>2, ReturnFacts
  <2>3. CASE Update(c, [next EXCEPT !.step = "check", !.asked = Stored(r.tx.state)])
    <3> DEFINE q == [next EXCEPT !.step = "check", !.asked = Stored(r.tx.state)]
    <3>1. Stored(r.tx.state) \in MilestoneStatus
      BY <1>2, StoredType DEF Transaction
    <3>2. /\ q \in Request /\ q.tx = r.tx /\ q.item = i /\ q.step = "check" /\ q.todo = next.todo
      BY <1>5, <3>1 DEF Request, Step
    <3>3. Update(c, q)
      BY <2>3
    <3> HIDE DEF q
    <3>4. Sound(q, chain, transactions', Items, Own)
      BY <1>2, <1>4, <1>5, <1>6, <3>2 DEF Sound
    <3>5. QED
      BY <1>1, <3>2, <3>3, <3>4, UpdateFacts
  <2>4. CASE Update(c, [next EXCEPT !.step = "flags"])
    <3> DEFINE q == [next EXCEPT !.step = "flags"]
    <3>1. /\ q \in Request /\ q.tx = r.tx /\ q.item = i /\ q.step = "flags" /\ q.todo = next.todo
      BY <1>5 DEF Request, Step
    <3>2. Update(c, q)
      BY <2>4
    <3> HIDE DEF q
    <3>3. Sound(q, chain, transactions', Items, Own)
      BY <1>2, <1>4, <1>5, <1>6, <3>1 DEF Sound
    <3>4. QED
      BY <1>1, <3>1, <3>2, <3>3, UpdateFacts
  <2>5. QED
    BY <1>3, <2>1, <2>2, <2>3, <2>4 DEF next
<1>8. UNCHANGED <<scenario, chainVars, milestone, funds, project, documents>>
  BY DEF ReadEvent
<1>9. Items' = Items /\ chain \in Chain /\ Grows(chain, chain) /\ UNCHANGED chain /\ emitted' = emitted
  BY <1>8, SameProject DEF Inv, Grows, chainVars
<1>10. RowsType'
  BY <1>1, <1>2, <1>3, <1>4, <1>8, <1>9 DEF RowsType
<1>11. FundsTruthful'
  BY <1>6, <1>8, <1>9, RowsLater DEF Inv
<1>12. QED
  BY <1>6, <1>7, <1>8, <1>9, <1>10, <1>11, RequestStep

LEMMA InvFreeBalance ==
  ASSUME Inv, NEW c \in Calls, FreeBalance(c)
  PROVE  Inv'
<1>1. /\ Sound(request[c], chain, transactions, Items, Own)
      /\ RowsType /\ request \in [Calls -> Request]
  BY RequestFacts
<1>2. Own => chain.released
  BY <1>1, NoTxFacts DEF FreeBalance, Sound, Truthful
<1>3. /\ request' = [request EXCEPT ![c] = request'[c]] /\ request'[c] \in Request
      /\ Sound(request'[c], chain, transactions, Items, Own)
  BY <1>1, ReturnFacts DEF FreeBalance
<1>4. /\ UNCHANGED <<scenario, chain, emitted, milestone, funds, transactions, documents>>
      /\ Items' = Items /\ Mains' = Mains
  BY SameProject DEF FreeBalance, chainVars
<1>5. project' = [project EXCEPT !.freeBalanceReleased = TRUE]
  BY DEF FreeBalance
<1>6. RowsType'
  BY <1>1, <1>4, <1>5 DEF RowsType
<1>7. FundsTruthful'
  BY <1>2, <1>4 DEF Inv, FundsTruthful, Own
<1>8. QED
  BY <1>3, <1>4, <1>6, <1>7, RequestStep

LEMMA InvFundProject ==
  ASSUME Inv, NEW c \in Calls, FundProject(c)
  PROVE  Inv'
<1> DEFINE r == request[c]
<1>1. /\ r \in Request /\ Sound(r, chain, transactions, Items, Own) /\ r.step = "fund"
      /\ scenario \in Scenarios /\ RowsType /\ request \in [Calls -> Request]
      /\ chain \in Chain
  BY RequestFacts DEF FundProject, Inv
<1>2. /\ r.tx # NoTx /\ (Own => Truthful(r.tx, chain))
      /\ r.todo \subseteq r.tx.items /\ r.item \in r.tx.items
      /\ <<r.tx.event, r.item>> \in transactions
  BY <1>1 DEF Sound
<1>3. PICK left \in AmountLeft(r) :
        project' = [project EXCEPT !.leftProjectFund = left, !.fundTransfered = left <= 0]
  BY DEF FundProject
<1>4. r.item \in Milestones \cup SubMilestones /\ r.left \in Int
  BY <1>1 DEF Request
<1>5. left \in Int
  BY <1>4, MirrorAssumption DEF AmountLeft
<1>6. GotoWith(c, "flags", FALSE)
  BY DEF FundProject
<1> DEFINE next == request'[c]
<1>7. /\ request' = [request EXCEPT ![c] = next] /\ next \in Request
      /\ next.step = "flags" /\ next.tx = r.tx /\ next.todo = r.todo /\ next.item = r.item
  BY <1>1, <1>2, <1>6, GotoWithFacts DEF Step
<1> HIDE DEF next
<1>8. Sound(next, chain, transactions, Items, Own)
  BY <1>2, <1>7 DEF Sound
<1>9. /\ UNCHANGED <<scenario, chain, emitted, milestone, funds, transactions, documents>>
      /\ Items' = Items /\ Mains' = Mains
  BY SameProject DEF FundProject, chainVars
<1>10. (left <= 0) \in BOOLEAN
  OBVIOUS
<1>11. RowsType' /\ project'.freeBalanceReleased = project.freeBalanceReleased
  BY <1>1, <1>3, <1>5, <1>9, <1>10 DEF RowsType
<1>12. FundsTruthful'
  BY <1>9, <1>11 DEF Inv, FundsTruthful
<1>13. QED
  BY <1>7, <1>8, <1>9, <1>11, <1>12, RequestStep DEF next

\* The checks of updateMilestoneStatus, for a report and for a PATCH.
LEMMA CheckedFacts ==
  ASSUME Inv, NEW c \in Calls, NEW r \in Request, Checked(c, r), r.item \in Items,
         r.tx # NoTx => /\ Own => Truthful(r.tx, chain)
                        /\ r.todo \subseteq r.tx.items /\ r.item \in r.tx.items
                        /\ <<r.tx.event, r.item>> \in transactions
  PROVE  /\ request' = [request EXCEPT ![c] = request'[c]] /\ request'[c] \in Request
         /\ Sound(request'[c], chain, transactions, Items, Own)
<1>1. RowsType /\ request \in [Calls -> Request]
  BY RequestFacts
<1> DEFINE row == milestone[r.item]
           next(step) == [r EXCEPT !.step = step, !.status = row.milestoneStatus,
                                   !.counter = row.revisionsCounter,
                                   !.docs = row.reworkDocs]
<1>2. PICK user \in ProjectUsers :
        IF Accepts(user, r.item, row, r.asked)
        THEN Update(c, next(IF r.asked = "REWORK" THEN "rework" ELSE "write"))
        ELSE Return(c)
  BY DEF Checked
<1>3. /\ row.milestoneStatus \in MilestoneStatus /\ row.revisionsCounter \in Nat
      /\ row.reworkDocs \in BOOLEAN
  BY <1>1 DEF RowsType
<1>4. CASE ~Accepts(user, r.item, row, r.asked)
  BY <1>1, <1>2, <1>4, ReturnFacts
<1>5. CASE Accepts(user, r.item, row, r.asked)
  <2>1. PICK step \in {"rework", "write"} : Update(c, next(step))
    BY <1>2, <1>5
  <2>2. r.asked = "REWORK" => row.revisionsCounter < revisions[r.item]
    BY <1>5 DEF Accepts
  <2> DEFINE q == next(step)
  <2>3. /\ q \in Request /\ q.step = step /\ q.tx = r.tx /\ q.todo = r.todo
        /\ q.item = r.item /\ q.asked = r.asked /\ q.counter = row.revisionsCounter
    BY <1>3 DEF Request, Step
  <2> HIDE DEF q, next, row
  <2>4. Sound(q, chain, transactions, Items, Own)
    BY <2>2, <2>3 DEF Sound
  <2>5. Update(c, q)
    BY <2>1 DEF q
  <2>6. QED
    BY <1>1, <2>3, <2>4, <2>5, UpdateFacts
<1>6. QED
  BY <1>4, <1>5

LEMMA InvCheck ==
  ASSUME Inv, NEW c \in Calls, Check(c)
  PROVE  Inv'
<1> DEFINE r == request[c]
<1>1. r \in Request /\ Sound(r, chain, transactions, Items, Own) /\ r.step = "check"
  BY RequestFacts DEF Check
<1>2. /\ r.item \in Items
      /\ r.tx # NoTx => /\ Own => Truthful(r.tx, chain)
                        /\ r.todo \subseteq r.tx.items /\ r.item \in r.tx.items
                        /\ <<r.tx.event, r.item>> \in transactions
  BY <1>1 DEF Sound
<1>3. Checked(c, r)
  BY DEF Check
<1>4. /\ request' = [request EXCEPT ![c] = request'[c]] /\ request'[c] \in Request
      /\ Sound(request'[c], chain, transactions, Items, Own)
  BY <1>1, <1>2, <1>3, CheckedFacts
<1>5. QED
  BY <1>4, ReadingStep DEF Check, chainVars

LEMMA InvPatch ==
  ASSUME Inv, NEW c \in Calls, Patch(c)
  PROVE  Inv'
<1>1. PICK i \in Items : \E asked \in ValidNext(milestone[i].milestoneStatus) :
                           Checked(c, [Idle EXCEPT !.item = i, !.asked = asked])
  BY DEF Patch
<1>2. PICK asked \in ValidNext(milestone[i].milestoneStatus) :
        Checked(c, [Idle EXCEPT !.item = i, !.asked = asked])
  BY <1>1
<1>3. asked \in MilestoneStatus
  BY DEF ValidNext, MilestoneStatus
<1> DEFINE r == [Idle EXCEPT !.item = i, !.asked = asked]
<1>4. i \in Milestones \cup SubMilestones
  BY RequestFacts, ProjectFacts
<1>5. r \in Request /\ r.item = i /\ r.tx = NoTx
  BY <1>3, <1>4, IdleFacts DEF Request
<1> HIDE DEF r
<1>6. /\ request' = [request EXCEPT ![c] = request'[c]] /\ request'[c] \in Request
      /\ Sound(request'[c], chain, transactions, Items, Own)
  BY <1>2, <1>5, CheckedFacts DEF r
<1>7. QED
  BY <1>6, ReadingStep DEF Patch, chainVars

LEMMA InvReworkDocuments ==
  ASSUME Inv, NEW c \in Calls, ReworkDocuments(c)
  PROVE  Inv'
<1> DEFINE r == request[c]
           next == [r EXCEPT !.step = "write"]
<1>1. /\ r \in Request /\ Sound(r, chain, transactions, Items, Own) /\ r.step = "rework"
      /\ RowsType /\ request \in [Calls -> Request] /\ r.item \in Items
  BY RequestFacts DEF ReworkDocuments, Sound
<1>2. /\ next \in Request /\ next.step = "write" /\ next.tx = r.tx /\ next.todo = r.todo
      /\ next.item = r.item /\ next.asked = r.asked /\ next.counter = r.counter
  BY <1>1 DEF Request, Step
<1>3. Return(c) \/ Update(c, next)
  BY DEF ReworkDocuments, Goto
<1> HIDE DEF next
<1>4. Sound(next, chain, transactions, Items, Own)
  BY <1>1, <1>2 DEF Sound
<1>5. /\ request' = [request EXCEPT ![c] = request'[c]] /\ request'[c] \in Request
      /\ Sound(request'[c], chain, transactions, Items, Own)
  <2>1. CASE Return(c)
    BY <1>1, <2>1, ReturnFacts
  <2>2. CASE Update(c, next)
    BY <1>1, <1>2, <1>4, <2>2, UpdateFacts
  <2>3. QED
    BY <1>3, <2>1, <2>2
<1>6. /\ UNCHANGED <<scenario, chain, emitted, milestone, funds, project, transactions>>
      /\ Items' = Items /\ Mains' = Mains
  BY SameProject DEF ReworkDocuments, chainVars
<1>7. documents' \subseteq Items
  BY <1>1 DEF ReworkDocuments, RowsType
<1>8. RowsType'
  BY <1>1, <1>6, <1>7 DEF RowsType
<1>9. FundsTruthful'
  BY <1>6 DEF Inv, FundsTruthful
<1>10. QED
  BY <1>5, <1>6, <1>8, <1>9, RequestStep

\* The steps after a write, and what they need of the request.
LEMMA AfterWrite ==
  ASSUME Inv, NEW c \in Calls, NEW open \in BOOLEAN, NEW step \in Step,
         request[c].step \notin {"idle", "event"},
         step \in {"open", "working"} \/ (step = "flags" /\ request[c].tx # NoTx),
         GotoWith(c, step, open)
  PROVE  /\ request' = [request EXCEPT ![c] = request'[c]] /\ request'[c] \in Request
         /\ Sound(request'[c], chain, transactions, Items, Own)
<1> DEFINE r == request[c]
           next == request'[c]
<1>1. /\ r \in Request /\ Sound(r, chain, transactions, Items, Own)
      /\ request \in [Calls -> Request]
  BY RequestFacts
<1>2. /\ request' = [request EXCEPT ![c] = next] /\ next \in Request
      /\ next.step = step /\ next.tx = r.tx /\ next.todo = r.todo
      /\ r.tx # NoTx => next.item = r.item
  BY <1>1, GotoWithFacts
<1> HIDE DEF next
<1>3. Sound(next, chain, transactions, Items, Own)
  BY <1>1, <1>2 DEF Sound
<1>4. QED
  BY <1>2, <1>3 DEF next

LEMMA InvWrite ==
  ASSUME Inv, NEW c \in Calls, Write(c)
  PROVE  Inv'
<1> DEFINE r == request[c]
<1>1. /\ r \in Request /\ Sound(r, chain, transactions, Items, Own) /\ r.step = "write"
      /\ RowsType /\ request \in [Calls -> Request] /\ r.item \in Items
      /\ r.counter \in Nat /\ r.asked \in MilestoneStatus
      /\ Items \subseteq Milestones \cup SubMilestones
  BY RequestFacts, ProjectFacts DEF Write, Sound, Request
<1>2. /\ request' = [request EXCEPT ![c] = request'[c]] /\ request'[c] \in Request
      /\ Sound(request'[c], chain, transactions, Items, Own)
  <2>1. GotoWith(c, "open", FALSE)
    BY DEF Write
  <2>2. "open" \in Step /\ r.step \notin {"idle", "event"}
    BY <1>1 DEF Step
  <2>3. QED
    BY <2>1, <2>2, AfterWrite
<1>3. /\ UNCHANGED <<scenario, chain, emitted, funds, project, transactions, documents>>
      /\ Items' = Items /\ Mains' = Mains
  BY SameProject DEF Write, chainVars
<1> DEFINE new(i) == IF i = r.item
             THEN [milestone[i] EXCEPT
                     !.milestoneStatus = r.asked,
                     !.revisionsCounter = IF r.asked = "REWORK" THEN r.counter + 1 ELSE @,
                     !.reworkDocs = @ \/ r.asked = "REWORK"]
             ELSE IF r.asked = "COMPLETED" /\ i \in Subs /\ Parent[i] = r.item
             THEN [milestone[i] EXCEPT !.milestoneStatus = "COMPLETED"]
             ELSE milestone[i]
           Row == [milestoneStatus : MilestoneStatus, revisionsCounter : Nat,
                   isDeployedOnContract : BOOLEAN, reworkDocs : BOOLEAN]
<1>4. milestone' = [i \in Items |-> new(i)]
  BY DEF Write
<1>5. ASSUME NEW i \in Items
      PROVE  /\ new(i) \in Row
             /\ new(i).isDeployedOnContract = milestone[i].isDeployedOnContract
  <2>1. milestone[i] \in Row
    BY <1>1 DEF RowsType
  <2>2. CASE i = r.item
    <3>1. (milestone[i].reworkDocs \/ r.asked = "REWORK") \in BOOLEAN
      OBVIOUS
    <3>2. (IF r.asked = "REWORK" THEN r.counter + 1 ELSE milestone[i].revisionsCounter) \in Nat
      BY <1>1, <2>1
    <3>3. QED
      BY <1>1, <2>1, <2>2, <3>1, <3>2
  <2>3. CASE i # r.item
    BY <2>1, <2>3 DEF MilestoneStatus
  <2>4. QED
    BY <2>2, <2>3
<1> HIDE DEF new
<1>6. /\ milestone' \in [Items -> Row]
      /\ \A i \in Items : milestone'[i].isDeployedOnContract = milestone[i].isDeployedOnContract
  BY <1>4, <1>5
<1>7. RowsType'
  BY <1>1, <1>3, <1>6 DEF RowsType
<1>8. FundsTruthful'
  BY <1>3, <1>6 DEF Inv, FundsTruthful
<1>9. QED
  BY <1>2, <1>3, <1>7, <1>8, RequestStep

LEMMA InvCounts ==
  ASSUME Inv, NEW c \in Calls, CountOpen(c) \/ CountWorking(c)
  PROVE  Inv'
<1>1. /\ request[c] \in Request /\ Sound(request[c], chain, transactions, Items, Own)
      /\ request \in [Calls -> Request]
  BY RequestFacts
<1>2. CASE CountOpen(c)
  <2> DEFINE open == MilestoneIn(MilestoneStatus \ EndStates)
  <2>1. open \in BOOLEAN /\ "working" \in Step /\ request[c].step \notin {"idle", "event"}
    BY <1>2 DEF MilestoneIn, CountOpen, Step
  <2>2. /\ request' = [request EXCEPT ![c] = request'[c]] /\ request'[c] \in Request
        /\ Sound(request'[c], chain, transactions, Items, Own)
    <3>1. GotoWith(c, "working", open)
      BY <1>2 DEF CountOpen
    <3> HIDE DEF open
    <3>2. QED
      BY <2>1, <3>1, AfterWrite
  <2>3. QED
    BY <1>2, <2>2, ReadingStep DEF CountOpen, chainVars
<1>3. CASE CountWorking(c)
  <2> DEFINE r == request[c]
             next == [r EXCEPT !.step = "status", !.working = MilestoneIn({"IN_PROGRESS"})]
  <2>1. MilestoneIn({"IN_PROGRESS"}) \in BOOLEAN
    BY DEF MilestoneIn
  <2>2. /\ next \in Request /\ next.step = "status" /\ next.tx = r.tx /\ next.todo = r.todo
        /\ next.item = r.item
    BY <1>1, <2>1 DEF Request, Step
  <2>3. Update(c, next) /\ r.step = "working"
    BY <1>3 DEF CountWorking
  <2> HIDE DEF next
  <2>4. Sound(next, chain, transactions, Items, Own)
    BY <1>1, <2>2, <2>3 DEF Sound
  <2>5. /\ request' = [request EXCEPT ![c] = request'[c]] /\ request'[c] \in Request
        /\ request'[c] = next
    BY <1>1, <2>2, <2>3, UpdateFacts
  <2>6. QED
    BY <1>3, <2>4, <2>5, ReadingStep DEF CountWorking, chainVars
<1>4. QED
  BY <1>2, <1>3

LEMMA InvUpdateProject ==
  ASSUME Inv, NEW c \in Calls, UpdateProject(c)
  PROVE  Inv'
<1> DEFINE r == request[c]
<1>1. /\ r \in Request /\ request \in [Calls -> Request] /\ RowsType /\ r.step = "status"
  BY RequestFacts DEF UpdateProject
<1>2. /\ request' = [request EXCEPT ![c] = request'[c]] /\ request'[c] \in Request
      /\ Sound(request'[c], chain, transactions, Items, Own)
  <2>1. CASE r.tx = NoTx
    BY <1>1, <2>1, ReturnFacts DEF UpdateProject
  <2>2. CASE r.tx # NoTx
    BY <1>1, <2>2, AfterWrite DEF UpdateProject, Step
  <2>3. QED
    BY <2>1, <2>2
<1>3. /\ UNCHANGED <<scenario, chain, emitted, milestone, funds, transactions, documents>>
      /\ Items' = Items /\ Mains' = Mains
  BY SameProject DEF UpdateProject, chainVars
<1>4. RowsType' /\ project'.freeBalanceReleased = project.freeBalanceReleased
  BY <1>1, <1>3 DEF RowsType, UpdateProject
<1>5. FundsTruthful'
  BY <1>3, <1>4 DEF Inv, FundsTruthful
<1>6. QED
  BY <1>2, <1>3, <1>4, <1>5, RequestStep

LEMMA InvUpdateManyFunds ==
  ASSUME Inv, NEW c \in Calls, UpdateManyFunds(c)
  PROVE  Inv'
<1> DEFINE r == request[c]
<1>1. /\ r \in Request /\ Sound(r, chain, transactions, Items, Own) /\ r.step = "flags"
      /\ scenario \in Scenarios /\ RowsType /\ request \in [Calls -> Request]
      /\ chain \in Chain
  BY RequestFacts DEF UpdateManyFunds, Inv
<1>2. /\ r.tx # NoTx /\ r.tx \in Transaction /\ (Own => Truthful(r.tx, chain))
      /\ r.todo \subseteq r.tx.items /\ r.item \in r.tx.items
      /\ <<r.tx.event, r.item>> \in transactions /\ r.tx.items \subseteq Items
  BY <1>1 DEF Sound, Request, Transaction
<1>3. /\ request' = [request EXCEPT ![c] = request'[c]] /\ request'[c] \in Request
      /\ Sound(request'[c], chain, transactions, Items, Own)
  <2>1. CASE Return(c)
    BY <1>1, <2>1, ReturnFacts
  <2>2. CASE GotoWith(c, "event", FALSE)
    <3> DEFINE next == request'[c]
    <3>1. /\ request' = [request EXCEPT ![c] = next] /\ next \in Request
          /\ next.step = "event" /\ next.tx = r.tx /\ next.todo = r.todo
      BY <1>1, <2>2, GotoWithFacts DEF Step
    <3> HIDE DEF next
    <3>2. Sound(next, chain, transactions, Items, Own)
      BY <1>2, <3>1 DEF Sound
    <3>3. QED
      BY <3>1, <3>2 DEF next
  <2>3. QED
    BY <2>1, <2>2 DEF UpdateManyFunds, NextEvent
<1>4. /\ UNCHANGED <<scenario, chain, emitted, project, transactions, documents>>
      /\ Items' = Items /\ Mains' = Mains
  BY SameProject DEF UpdateManyFunds, chainVars
<1> DEFINE new(i) == IF i \in Flagged(r.tx, r.item) THEN Flags(r.tx, funds[i]) ELSE funds[i]
           Row == [fundTranscationIdToEscrow : BOOLEAN, enableFundTransfer : BOOLEAN,
                   fundTransferred : BOOLEAN, enableRoyalityTransfer : BOOLEAN,
                   royalityTransferred : BOOLEAN]
<1>5. funds' = [i \in Items |-> new(i)]
  BY DEF UpdateManyFunds
<1>6. /\ milestone' \in [Items -> [milestoneStatus : MilestoneStatus, revisionsCounter : Nat,
                                   isDeployedOnContract : BOOLEAN, reworkDocs : BOOLEAN]]
      /\ \A i \in Items :
           /\ milestone'[i].revisionsCounter = milestone[i].revisionsCounter
           /\ milestone'[i].isDeployedOnContract =>
                \/ milestone[i].isDeployedOnContract
                \/ r.tx.event = "SubMilestoneAdded" /\ i = r.item
  <2>1. CASE r.tx.event = "SubMilestoneAdded"
    <3>1. milestone' = [milestone EXCEPT ![r.item].isDeployedOnContract = TRUE]
      BY <2>1 DEF UpdateManyFunds
    <3>2. \A i \in Items : i # r.item => milestone'[i] = milestone[i]
      BY <1>1, <3>1 DEF RowsType
    <3>3. r.item \in Items /\ milestone'[r.item] = [milestone[r.item] EXCEPT !.isDeployedOnContract = TRUE]
      BY <1>1, <1>2, <3>1 DEF RowsType
    <3> DEFINE MRow == [milestoneStatus : MilestoneStatus, revisionsCounter : Nat,
                        isDeployedOnContract : BOOLEAN, reworkDocs : BOOLEAN]
    <3>4. milestone \in [Items -> MRow]
      BY <1>1 DEF RowsType
    <3>5. ASSUME NEW i \in Items
          PROVE  /\ milestone'[i] \in MRow
                 /\ milestone'[i].revisionsCounter = milestone[i].revisionsCounter
                 /\ i # r.item => milestone'[i] = milestone[i]
      BY <3>2, <3>3, <3>4
    <3>6. milestone' = [i \in Items |-> milestone'[i]]
      BY <3>1, <3>4
    <3> HIDE DEF MRow
    <3>7. milestone' \in [Items -> MRow]
      BY <3>5, <3>6
    <3>8. QED
      BY <2>1, <3>5, <3>7 DEF MRow
  <2>2. CASE r.tx.event # "SubMilestoneAdded"
    BY <1>1, <2>2 DEF UpdateManyFunds, RowsType
  <2>3. QED
    BY <2>1, <2>2
<1>7. ASSUME NEW i \in Items
      PROVE  new(i) \in Row
  BY <1>1 DEF Flags, RowsType
<1>8. ASSUME NEW i \in Items
      PROVE  LET main == IF i \in Mains THEN i ELSE Parent[i]
                 f == new(i)
             IN  /\ Own /\ f.fundTranscationIdToEscrow => i \in chain.funded
                 /\ Own /\ f.enableFundTransfer => i \in chain.completed
                 /\ f.fundTransferred =>
                      \E m \in {i, main} : <<"MilestonePayout", m>> \in transactions
                 /\ Own /\ f.fundTransferred => main \in chain.paid
                 /\ f.enableRoyalityTransfer => f.fundTransferred
                 /\ f.royalityTransferred => <<"RoyaltyPaid", i>> \in transactions
                 /\ Own /\ f.royalityTransferred => i \in chain.settled
  <2> DEFINE main == IF i \in Mains THEN i ELSE Parent[i]
             Claim(f) ==
               /\ Own /\ f.fundTranscationIdToEscrow => i \in chain.funded
               /\ Own /\ f.enableFundTransfer => i \in chain.completed
               /\ f.fundTransferred =>
                    \E m \in {i, main} : <<"MilestonePayout", m>> \in transactions
               /\ Own /\ f.fundTransferred => main \in chain.paid
               /\ f.enableRoyalityTransfer => f.fundTransferred
               /\ f.royalityTransferred => <<"RoyaltyPaid", i>> \in transactions
               /\ Own /\ f.royalityTransferred => i \in chain.settled
  <2>1. Claim(funds[i]) /\ funds[i] \in Row
    BY <1>1 DEF Inv, FundsTruthful, RowsType, Own
  <2>2. CASE i \notin Flagged(r.tx, r.item)
    BY <2>1, <2>2
  <2>3. CASE i \in Flagged(r.tx, r.item) /\ r.tx.event = "MilestonePayout"
    <3>1. Own => r.item \in chain.paid /\ r.item \in Mains
      BY <1>1, <1>2, <2>3 DEF Truthful, Chain
    <3>2. r.item \in {i, main} /\ (r.item \in Mains => main = r.item)
      BY <1>1, <2>3, ProjectFacts DEF Flagged, SubsOf
    <3>3. <<"MilestonePayout", r.item>> \in transactions
      BY <1>2, <2>3
    <3>4. new(i) = [funds[i] EXCEPT !.enableFundTransfer = FALSE, !.fundTransferred = TRUE,
                                    !.enableRoyalityTransfer = TRUE]
      BY <2>3 DEF Flags
    <3>5. QED
      BY <2>1, <3>1, <3>2, <3>3, <3>4
  <2>4. CASE i \in Flagged(r.tx, r.item) /\ r.tx.event # "MilestonePayout"
    <3>1. i = r.item
      BY <2>4 DEF Flagged
    <3>2. CASE r.tx.event = "MilestoneFunded"
      <4>1. new(i) = [funds[i] EXCEPT !.fundTranscationIdToEscrow = TRUE]
        BY <2>4, <3>2 DEF Flags
      <4>2. Own => i \in chain.funded
        BY <1>2, <3>1, <3>2 DEF Truthful
      <4>3. QED
        BY <2>1, <4>1, <4>2
    <3>3. CASE r.tx.event = "MilestoneStateChanged" /\ r.tx.state = "COMPLETED"
      <4>1. new(i) = [funds[i] EXCEPT !.enableFundTransfer = TRUE]
        BY <2>4, <3>3 DEF Flags
      <4>2. Own => i \in chain.completed
        BY <1>2, <3>1, <3>3 DEF Truthful
      <4>3. QED
        BY <2>1, <4>1, <4>2
    <3>4. CASE r.tx.event = "RoyaltyPaid"
      <4>1. new(i) = [funds[i] EXCEPT !.enableRoyalityTransfer = FALSE,
                                      !.royalityTransferred = TRUE]
        BY <2>4, <3>4 DEF Flags
      <4>2. (Own => i \in chain.settled) /\ <<"RoyaltyPaid", i>> \in transactions
        BY <1>2, <3>1, <3>4 DEF Truthful
      <4>3. QED
        BY <2>1, <4>1, <4>2
    <3>5. CASE /\ r.tx.event \notin {"MilestoneFunded", "RoyaltyPaid"}
               /\ ~(r.tx.event = "MilestoneStateChanged" /\ r.tx.state = "COMPLETED")
      <4>1. new(i) = funds[i]
        BY <2>4, <3>5 DEF Flags
      <4>2. QED
        BY <2>1, <4>1
    <3>6. QED
      BY <3>2, <3>3, <3>4, <3>5
  <2>5. QED
    BY <2>2, <2>3, <2>4
<1> HIDE DEF new
<1>9. funds' \in [Items -> Row]
  BY <1>5, <1>7
<1>10. RowsType'
  BY <1>1, <1>4, <1>6, <1>9 DEF RowsType
<1>11. Own => \A i \in Items : milestone'[i].isDeployedOnContract => i \in chain.added
  BY <1>2, <1>6 DEF Inv, FundsTruthful, Truthful, Own
<1>12. \A i \in Items : funds'[i] = new(i)
  BY <1>5
<1>13. FundsTruthful'
  BY <1>4, <1>8, <1>11, <1>12 DEF Inv, FundsTruthful, Own
<1>14. QED
  BY <1>3, <1>4, <1>10, <1>13, RequestStep

LEMMA InvStop ==
  ASSUME Inv, NEW c \in Calls, Stop(c)
  PROVE  Inv'
<1>1. request \in [Calls -> Request]
  BY RequestFacts
<1>2. /\ request' = [request EXCEPT ![c] = request'[c]] /\ request'[c] \in Request
      /\ Sound(request'[c], chain, transactions, Items, Own)
  BY <1>1, ReturnFacts DEF Stop
<1>3. QED
  BY <1>2, ReadingStep DEF Stop, chainVars

-----------------------------------------------------------------------------
(* The start, and the invariant as a whole.                                *)

LEMMA PricesAdd ==
  \A ms : SumOfPrices(ms) = Sum(price, ms)
  BY DEF SumOfPrices, Sum, MapThenSumSet, MapThenFoldSet

LEMMA InvInit == Init => Inv
<1> SUFFICES ASSUME Init PROVE Inv
  OBVIOUS
<1>1. scenario \in Scenarios
  BY DEF Init
<1>2. /\ Mains \subseteq Items /\ Mains \subseteq Milestones /\ IsFiniteSet(Mains)
      /\ scenario.start \in {"INIT", "IN_REVIEW"}
      /\ Items \subseteq Milestones \cup SubMilestones
  BY <1>1, ProjectFacts
<1>3. totalProjectFund \in Int
  <2>1. \A m \in Mains : price[m] \in Int
    BY <1>2, MirrorAssumption
  <2>2. QED
    BY <1>2, <2>1, SumInt, PricesAdd DEF totalProjectFund
<1>4. InReview \in BOOLEAN
  BY DEF InReview
<1>5. /\ chain \in Chain /\ chain.settled \subseteq chain.paid
      /\ chain.funded = IF InReview THEN Mains ELSE {}
      /\ emitted = {}
  BY <1>2 DEF Init, ChainInit, Chain, States
<1>6. RowsType
  <2>1. milestone \in [Items -> [milestoneStatus : MilestoneStatus, revisionsCounter : Nat,
                                 isDeployedOnContract : BOOLEAN, reworkDocs : BOOLEAN]]
    BY <1>2 DEF Init, NewMilestone, MilestoneStatus
  <2>2. funds \in [Items -> [fundTranscationIdToEscrow : BOOLEAN,
                             enableFundTransfer : BOOLEAN, fundTransferred : BOOLEAN,
                             enableRoyalityTransfer : BOOLEAN,
                             royalityTransferred : BOOLEAN]]
    <3>1. \A i \in Items : (InReview /\ i \in Mains) \in BOOLEAN
      OBVIOUS
    <3>2. QED
      BY <3>1 DEF Init, NewFunds
  <2>3. project \in [status : {"ASSIGNED", "IN_PROGRESS", "COMPLETE"},
                     leftProjectFund : Int, fundTransfered : BOOLEAN,
                     freeBalanceReleased : BOOLEAN]
    BY <1>3, <1>4 DEF Init, NewProject
  <2>4. transactions \subseteq Event \X Items
    BY <1>2 DEF Init, NewTransactions, Event
  <2>5. QED
    BY <2>1, <2>2, <2>3, <2>4 DEF RowsType, Init
<1>7. request \in [Calls -> Request] /\ \A c \in Calls : request[c] = Idle
  BY IdleFacts DEF Init
<1>8. TypeOK
  BY <1>1, <1>5, <1>6, <1>7, TypeByParts
<1>9. \A c \in Calls : Sound(request[c], chain, transactions, Items, Own)
  BY <1>7, IdleFacts
<1>10. FundsTruthful
  <2>1. ASSUME NEW i \in Items
        PROVE  /\ funds[i].fundTranscationIdToEscrow => i \in chain.funded
               /\ ~funds[i].enableFundTransfer /\ ~funds[i].fundTransferred
               /\ ~funds[i].enableRoyalityTransfer /\ ~funds[i].royalityTransferred
               /\ ~milestone[i].isDeployedOnContract
    BY <1>5 DEF Init, NewFunds, NewMilestone
  <2>2. ~project.freeBalanceReleased
    BY DEF Init, NewProject
  <2>3. QED
    BY <2>1, <2>2 DEF FundsTruthful
<1>11. Unadded(chain)
  BY <1>1, ProjectFacts DEF Init, ChainInit, Unadded
<1>12. QED
  BY <1>5, <1>8, <1>9, <1>10, <1>11 DEF Inv

LEMMA InvNext == Inv /\ [Next]_vars => Inv'
<1> SUFFICES ASSUME Inv, [Next]_vars PROVE Inv'
  OBVIOUS
<1>1. CASE UNCHANGED vars
  <2>1. UNCHANGED <<scenario, chain, emitted, dbVars, request, milestone, funds, project,
                    transactions, documents>>
    BY <1>1 DEF vars, chainVars, dbVars
  <2>2. /\ Items' = Items /\ Mains' = Mains /\ Chain' = Chain /\ (Own' <=> Own)
        /\ Transaction' = Transaction /\ Request' = Request
    BY <2>1, SameProject
  <2>3. RowsType' <=> RowsType
    BY <2>1, <2>2 DEF RowsType
  <2>4. TypeOK' /\ chain' \in Chain'
    BY <2>1, <2>2, <2>3, TypeByParts DEF Inv
  <2>5. FundsTruthful'
    BY <2>1, <2>2 DEF Inv, FundsTruthful
  <2>6. (\A tx \in emitted : Truthful(tx, chain))' /\
        (\A c \in Calls : Sound(request[c], chain, transactions, Items, Own))'
    BY <2>1, <2>2 DEF Inv
  <2>7. Unadded(chain)'
    BY <2>1, SameProject DEF Inv, Unadded
  <2>8. QED
    BY <2>4, <2>5, <2>6, <2>7 DEF Inv
<1>2. CASE Send
  BY <1>2, InvSend
<1>3. ASSUME NEW c \in Calls, Handle(c)
      PROVE  Inv'
  <2>1. CASE Report(c)
    BY <2>1, InvReport
  <2>2. CASE Patch(c)
    BY <2>2, InvPatch
  <2>3. CASE ReadEvent(c)
    BY <2>3, InvReadEvent
  <2>4. CASE FreeBalance(c)
    BY <2>4, InvFreeBalance
  <2>5. CASE FundProject(c)
    BY <2>5, InvFundProject
  <2>6. CASE Check(c)
    BY <2>6, InvCheck
  <2>7. CASE ReworkDocuments(c)
    BY <2>7, InvReworkDocuments
  <2>8. CASE Write(c)
    BY <2>8, InvWrite
  <2>9. CASE CountOpen(c) \/ CountWorking(c)
    BY <2>9, InvCounts
  <2>10. CASE UpdateProject(c)
    BY <2>10, InvUpdateProject
  <2>11. CASE UpdateManyFunds(c)
    BY <2>11, InvUpdateManyFunds
  <2>12. CASE Stop(c)
    BY <2>12, InvStop
  <2>13. QED
    BY <1>3, <2>1, <2>2, <2>3, <2>4, <2>5, <2>6, <2>7, <2>8, <2>9, <2>10, <2>11, <2>12
       DEF Handle
<1>4. QED
  BY <1>1, <1>2, <1>3 DEF Next

LEMMA InvAlways == Spec => []Inv
  BY InvInit, InvNext, PTL DEF Spec

\* The rows and the requests' variables have the types of the tables, for any
\* number of requests in flight.
THEOREM MirrorTypeCorrect == Spec => []TypeOK
<1>1. Inv => TypeOK
  BY DEF Inv
<1>2. QED
  BY <1>1, InvAlways, PTL

\* However often transactions are reported, in whatever order, by however many
\* overlapping and dying requests, a payment is marked as made only if one is
\* recorded; and where they are transactions of the project's own contract,
\* which the server takes for granted, the database claims nothing about funds
\* that the chain did not do (getTransactions).
THEOREM FundsAreTruthful == Spec => []FundsTruthful
<1>1. Inv => FundsTruthful
  BY DEF Inv
<1>2. QED
  BY <1>1, InvAlways, PTL

-----------------------------------------------------------------------------
(* Requests that do not overlap.                                           *)

Alone == {"orderly", "serial"}
Counting == {"open", "working", "status"}

Complete == Mains # {} /\ \A m \in Mains : Ended(m)
NotPremature == project.status = "COMPLETE" => Complete
Current ==
  /\ project.status = "COMPLETE" <=> Complete
  /\ MilestoneIn({"IN_PROGRESS"}) => project.status = "IN_PROGRESS"

\* What request r read is still so, and between its write and the update of
\* the project the project claims too little, never too much.
UpToDate(r) ==
  /\ r.step \in {"rework", "write"} =>
       /\ milestone[r.item].milestoneStatus \notin EndStates
       /\ r.counter = milestone[r.item].revisionsCounter
       /\ r.asked \in ValidNext(milestone[r.item].milestoneStatus)
  /\ r.step \in {"working", "status"} =>
       (r.open <=> MilestoneIn(MilestoneStatus \ EndStates))
  /\ r.step = "status" => (r.working <=> MilestoneIn({"IN_PROGRESS"}))
  /\ r.step \in Counting => Mains # {}

Serial ==
  InMode(Alone) =>
    /\ \A c, d \in Calls : c # d => request[c] = Idle \/ request[d] = Idle
    /\ \A c \in Calls : UpToDate(request[c])
    /\ IF \E c \in Calls : request[c].step \in Counting THEN NotPremature ELSE Current

\* The status of milestones and project is all that counts.
StatusKept ==
  /\ scenario' = scenario /\ project'.status = project.status
  /\ \A i \in Items : milestone'[i].milestoneStatus = milestone[i].milestoneStatus

LEMMA SameStatus ==
  ASSUME scenario \in Scenarios, StatusKept
  PROVE  /\ Mains' = Mains /\ (Current' <=> Current) /\ (NotPremature' <=> NotPremature)
         /\ \A states : MilestoneIn(states)' <=> MilestoneIn(states)
<1>1. Mains' = Mains /\ Mains \subseteq Items
  BY SameProject, ProjectFacts DEF StatusKept
<1>2. \A m \in Mains : Ended(m)' <=> Ended(m)
  BY <1>1 DEF StatusKept, Ended
<1>3. \A states : MilestoneIn(states)' <=> MilestoneIn(states)
  BY <1>1 DEF StatusKept, MilestoneIn
<1>4. (Complete' <=> Complete) /\ project'.status = project.status
  BY <1>1, <1>2 DEF Complete, StatusKept
<1>5. QED
  BY <1>1, <1>3, <1>4 DEF Current, NotPremature

\* Only request c is under way, and it goes on.
LEMMA SerialStep ==
  ASSUME Inv, NEW c \in Calls, scenario' = scenario,
         request' = [request EXCEPT ![c] = request'[c]],
         InMode(Alone) => /\ \A d \in Calls : d # c => request[d] = Idle
                          /\ UpToDate(request[c])'
                          /\ IF request'[c].step \in Counting THEN NotPremature' ELSE Current'
  PROVE  Serial'
<1>1. InMode(Alone)' <=> InMode(Alone)
  BY SameProject
<1>2. SUFFICES ASSUME InMode(Alone)
               PROVE  /\ \A d, e \in Calls : d # e => request'[d] = Idle \/ request'[e] = Idle
                      /\ \A d \in Calls : UpToDate(request[d])'
                      /\ IF \E d \in Calls : request'[d].step \in Counting
                         THEN NotPremature' ELSE Current'
  BY <1>1 DEF Serial
<1>3. \A d \in Calls : d # c => request'[d] = Idle
  BY <1>2, RequestFacts
<1>4. ASSUME NEW d \in Calls
      PROVE  UpToDate(request[d])'
  <2>1. CASE d = c
    BY <1>2, <2>1
  <2>2. CASE d # c
    BY <1>3, <2>2, IdleFacts DEF UpToDate, Counting
  <2>3. QED
    BY <2>1, <2>2
<1>5. (\E d \in Calls : request'[d].step \in Counting) <=> request'[c].step \in Counting
  BY <1>3, IdleFacts DEF Counting
<1>6. QED
  BY <1>2, <1>3, <1>4, <1>5

\* A request under way is the only one.
LEMMA BusyAlone ==
  ASSUME Inv, Serial, NEW c \in Calls, request[c].step # "idle", InMode(Alone)
  PROVE  /\ \A d \in Calls : d # c => request[d] = Idle
         /\ UpToDate(request[c])
         /\ IF request[c].step \in Counting THEN NotPremature ELSE Current
<1>1. request[c] # Idle
  BY IdleFacts
<1>2. \A d \in Calls : d # c => request[d] = Idle
  BY <1>1 DEF Serial
<1>3. (\E d \in Calls : request[d].step \in Counting) <=> request[c].step \in Counting
  BY <1>2, IdleFacts DEF Counting
<1>4. QED
  BY <1>2, <1>3 DEF Serial

\* One that may start is alone too.
LEMMA StartsAlone ==
  ASSUME Inv, Serial, NEW c \in Calls, MayStart(c), InMode(Alone)
  PROVE  (\A d \in Calls : request[d] = Idle) /\ Current
<1>1. \A d \in Calls : request[d] = Idle
  BY DEF MayStart, AllIdle, Alone
<1>2. QED
  BY <1>1, IdleFacts DEF Serial, Counting

\* Steps that write no status and read none.
LEMMA QuietStep ==
  ASSUME Inv, Serial, NEW c \in Calls, StatusKept,
         request' = [request EXCEPT ![c] = request'[c]],
         request'[c].step \in {"idle", "event", "fund", "check", "flags"},
         InMode(Alone) => (\A d \in Calls : d # c => request[d] = Idle) /\ Current
  PROVE  Serial'
<1>1. UpToDate(request[c])' /\ request'[c].step \notin Counting
  BY DEF UpToDate, Counting
<1>2. Current' <=> Current
  BY SameStatus, RequestFacts
<1>3. QED
  BY <1>1, <1>2, SerialStep DEF StatusKept

LEMMA SerialReport ==
  ASSUME Inv, Serial, NEW c \in Calls, Report(c)
  PROVE  Serial'
<1>1. PICK tx \in Reportable, forProject \in BOOLEAN :
        Update(c, [Idle EXCEPT !.step = "event", !.tx = tx, !.todo = tx.items,
                               !.forProject = forProject])
  BY DEF Report
<1>2. request' = [request EXCEPT ![c] = request'[c]] /\ request'[c].step = "event"
  <2> DEFINE r == [Idle EXCEPT !.step = "event", !.tx = tx, !.todo = tx.items,
                               !.forProject = forProject]
  <2>1. r.step = "event"
    BY IdleFacts DEF Request
  <2> HIDE DEF r
  <2>2. request' = [request EXCEPT ![c] = r]
    BY <1>1 DEF Update, r
  <2>3. QED
    BY <2>1, <2>2, RequestFacts
<1>3. StatusKept
  BY DEF Report, StatusKept, dbVars
<1>4. MayStart(c)
  BY DEF Report
<1>5. QED
  BY <1>2, <1>3, <1>4, StartsAlone, QuietStep

LEMMA SerialReadEvent ==
  ASSUME Inv, Serial, NEW c \in Calls, ReadEvent(c)
  PROVE  Serial'
<1> DEFINE r == request[c]
<1>1. r \in Request /\ request \in [Calls -> Request] /\ r.step = "event"
  BY RequestFacts DEF ReadEvent
<1>2. PICK i \in r.todo :
        CASE r.tx.event = "MilestoneFunded" ->
               Update(c, [[r EXCEPT !.item = i, !.todo = @ \ {i}] EXCEPT
                            !.step = "fund", !.left = project.leftProjectFund])
          [] r.tx.event \in {"MilestoneStateChanged", "SubMilestoneStateChanged"} ->
               \/ Update(c, [[r EXCEPT !.item = i, !.todo = @ \ {i}] EXCEPT
                               !.step = "check", !.asked = Stored(r.tx.state)])
               \/ /\ r.tx.state = "REWORK"
                  /\ ~InMode({"orderly"})
                  /\ Return(c)
          [] r.tx.event = "MilestoneForceClosed" -> Return(c)
          [] OTHER -> Update(c, [[r EXCEPT !.item = i, !.todo = @ \ {i}] EXCEPT
                                   !.step = "flags"])
  BY DEF ReadEvent
<1>3. request' = [request EXCEPT ![c] = request'[c]]
      /\ request'[c].step \in {"idle", "event", "fund", "check", "flags"}
  <2>1. CASE Return(c)
    BY <1>1, <2>1, ReturnFacts, IdleFacts
  <2> DEFINE next == [r EXCEPT !.item = i, !.todo = @ \ {i}]
  <2>2. ASSUME NEW left, NEW asked
        PROVE  /\ [next EXCEPT !.step = "fund", !.left = left].step = "fund"
               /\ [next EXCEPT !.step = "check", !.asked = asked].step = "check"
               /\ [next EXCEPT !.step = "flags"].step = "flags"
    BY <1>1 DEF Request
  <2> HIDE DEF next
  <2>3. CASE Update(c, [next EXCEPT !.step = "fund", !.left = project.leftProjectFund])
    BY <1>1, <2>2, <2>3 DEF Update
  <2>4. CASE Update(c, [next EXCEPT !.step = "check", !.asked = Stored(r.tx.state)])
    BY <1>1, <2>2, <2>4 DEF Update
  <2>5. CASE Update(c, [next EXCEPT !.step = "flags"])
    BY <1>1, <2>2, <2>5 DEF Update
  <2>6. QED
    BY <1>2, <2>1, <2>3, <2>4, <2>5 DEF next
<1>4. StatusKept
  BY DEF ReadEvent, StatusKept
<1>5. InMode(Alone) => (\A d \in Calls : d # c => request[d] = Idle) /\ Current
  BY <1>1, BusyAlone DEF Counting
<1>6. QED
  BY <1>3, <1>4, <1>5, QuietStep

LEMMA SerialFunds ==
  ASSUME Inv, Serial, NEW c \in Calls,
         FreeBalance(c) \/ FundProject(c) \/ UpdateManyFunds(c)
  PROVE  Serial'
<1>1. /\ request[c] \in Request /\ request \in [Calls -> Request] /\ RowsType
      /\ request[c].step \in {"event", "fund", "flags"}
  BY RequestFacts DEF FreeBalance, FundProject, UpdateManyFunds
<1>2. request' = [request EXCEPT ![c] = request'[c]]
      /\ request'[c].step \in {"idle", "event", "fund", "check", "flags"}
  <2>1. CASE Return(c)
    BY <1>1, <2>1, ReturnFacts, IdleFacts
  <2>2. CASE GotoWith(c, "flags", FALSE) \/ GotoWith(c, "event", FALSE)
    BY <1>1, <2>2, GotoWithFacts DEF Step
  <2>3. QED
    BY <2>1, <2>2 DEF FreeBalance, FundProject, UpdateManyFunds, NextEvent
<1>3. StatusKept
  <2>1. CASE FreeBalance(c) \/ FundProject(c)
    BY <1>1, <2>1 DEF FreeBalance, FundProject, StatusKept, RowsType
  <2>2. CASE UpdateManyFunds(c)
    <3>1. /\ UNCHANGED <<scenario, project>>
          /\ \/ milestone' = [milestone EXCEPT ![request[c].item].isDeployedOnContract = TRUE]
             \/ milestone' = milestone
      BY <2>2 DEF UpdateManyFunds
    <3>2. ASSUME NEW i \in Items
          PROVE  milestone'[i].milestoneStatus = milestone[i].milestoneStatus
      BY <1>1, <3>1 DEF RowsType
    <3>3. QED
      BY <3>1, <3>2 DEF StatusKept
  <2>3. QED
    BY <2>1, <2>2
<1>4. InMode(Alone) => (\A d \in Calls : d # c => request[d] = Idle) /\ Current
  BY <1>1, BusyAlone DEF Counting
<1>5. QED
  BY <1>2, <1>3, <1>4, QuietStep

\* The checks of updateMilestoneStatus let no ended milestone through.
LEMMA SerialChecked ==
  ASSUME Inv, Serial, NEW c \in Calls, NEW r \in Request, Checked(c, r), r.item \in Items,
         UNCHANGED <<scenario, milestone, project>>,
         InMode(Alone) => (\A d \in Calls : d # c => request[d] = Idle) /\ Current
  PROVE  Serial'
<1>1. request \in [Calls -> Request] /\ RowsType /\ scenario \in Scenarios
  BY RequestFacts
<1> DEFINE row == milestone[r.item]
           next(step) == [r EXCEPT !.step = step, !.status = row.milestoneStatus,
                                   !.counter = row.revisionsCounter,
                                   !.docs = row.reworkDocs]
<1>2. PICK user \in ProjectUsers :
        IF Accepts(user, r.item, row, r.asked)
        THEN Update(c, next(IF r.asked = "REWORK" THEN "rework" ELSE "write"))
        ELSE Return(c)
  BY DEF Checked
<1>3. StatusKept
  BY DEF StatusKept
<1>4. CASE ~Accepts(user, r.item, row, r.asked)
  <2>1. request' = [request EXCEPT ![c] = request'[c]] /\ request'[c] = Idle
    BY <1>1, <1>2, <1>4, ReturnFacts
  <2>2. QED
    BY <1>3, <2>1, IdleFacts, QuietStep
<1>5. CASE Accepts(user, r.item, row, r.asked)
  <2>1. PICK step \in {"rework", "write"} : Update(c, next(step))
    BY <1>2, <1>5
  <2>2. row.milestoneStatus \notin EndStates /\ r.asked \in ValidNext(row.milestoneStatus)
    BY <1>5 DEF Accepts
  <2> DEFINE q == next(step)
  <2>3. /\ q.step = step /\ q.item = r.item /\ q.asked = r.asked
        /\ q.counter = row.revisionsCounter
    BY DEF Request
  <2> HIDE DEF q
  <2>4. request' = [request EXCEPT ![c] = request'[c]] /\ request'[c] = q
    BY <1>1, <2>1 DEF Update, q
  <2>5. UpToDate(request[c])' /\ request'[c].step \notin Counting
    BY <2>2, <2>3, <2>4 DEF UpToDate, Counting
  <2>6. Current' <=> Current
    BY <1>1, <1>3, SameStatus
  <2>7. QED
    BY <2>4, <2>5, <2>6, SerialStep
<1>6. QED
  BY <1>4, <1>5

LEMMA SerialCheck ==
  ASSUME Inv, Serial, NEW c \in Calls, Check(c) \/ Patch(c)
  PROVE  Serial'
<1>1. CASE Check(c)
  <2>1. /\ request[c] \in Request /\ Sound(request[c], chain, transactions, Items, Own)
        /\ request[c].step = "check" /\ request[c].item \in Items
    BY <1>1, RequestFacts DEF Check, Sound
  <2>2. InMode(Alone) => (\A d \in Calls : d # c => request[d] = Idle) /\ Current
    BY <2>1, BusyAlone DEF Counting
  <2>3. Checked(c, request[c]) /\ UNCHANGED <<scenario, milestone, project>>
    BY <1>1 DEF Check, dbVars
  <2>4. QED
    BY <2>1, <2>2, <2>3, SerialChecked
<1>2. CASE Patch(c)
  <2>1. PICK i \in Items : \E asked \in ValidNext(milestone[i].milestoneStatus) :
                             Checked(c, [Idle EXCEPT !.item = i, !.asked = asked])
    BY <1>2 DEF Patch
  <2>2. PICK asked \in ValidNext(milestone[i].milestoneStatus) :
          Checked(c, [Idle EXCEPT !.item = i, !.asked = asked])
    BY <2>1
  <2>3. asked \in MilestoneStatus /\ i \in Milestones \cup SubMilestones
    BY RequestFacts, ProjectFacts DEF ValidNext, MilestoneStatus
  <2> DEFINE r == [Idle EXCEPT !.item = i, !.asked = asked]
  <2>4. r \in Request /\ r.item = i
    BY <2>3, IdleFacts DEF Request
  <2> HIDE DEF r
  <2>5. InMode(Alone) => (\A d \in Calls : d # c => request[d] = Idle) /\ Current
    BY <1>2, StartsAlone DEF Patch
  <2>6. Checked(c, r) /\ UNCHANGED <<scenario, milestone, project>>
    BY <1>2, <2>2 DEF Patch, dbVars, r
  <2>7. QED
    BY <2>4, <2>5, <2>6, SerialChecked
<1>3. QED
  BY <1>1, <1>2

LEMMA SerialReworkDocuments ==
  ASSUME Inv, Serial, NEW c \in Calls, ReworkDocuments(c)
  PROVE  Serial'
<1> DEFINE next == [request[c] EXCEPT !.step = "write"]
<1>1. /\ request[c] \in Request /\ request \in [Calls -> Request] /\ scenario \in Scenarios
      /\ request[c].step = "rework"
  BY RequestFacts DEF ReworkDocuments
<1>2. StatusKept /\ milestone' = milestone
  BY DEF ReworkDocuments, StatusKept
<1>3. Current' <=> Current
  BY <1>1, <1>2, SameStatus
<1>4. InMode(Alone) => /\ \A d \in Calls : d # c => request[d] = Idle
                       /\ UpToDate(request[c]) /\ Current
  BY <1>1, BusyAlone DEF Counting
<1>5. CASE Return(c)
  <2>1. request' = [request EXCEPT ![c] = request'[c]] /\ request'[c].step = "idle"
    BY <1>1, <1>5, ReturnFacts, IdleFacts
  <2>2. QED
    BY <1>2, <1>4, <2>1, QuietStep
<1>6. CASE Goto(c, "write")
  <2>1. /\ next.step = "write" /\ next.item = request[c].item
        /\ next.counter = request[c].counter /\ next.asked = request[c].asked
    BY <1>1 DEF Request
  <2> HIDE DEF next
  <2>2. request' = [request EXCEPT ![c] = request'[c]] /\ request'[c] = next
    BY <1>1, <1>6 DEF Goto, Update, next
  <2>3. InMode(Alone) => UpToDate(request[c])' /\ request'[c].step \notin Counting
    BY <1>1, <1>2, <1>4, <2>1, <2>2 DEF UpToDate, Counting
  <2>4. QED
    BY <1>2, <1>3, <1>4, <2>2, <2>3, SerialStep DEF StatusKept
<1>7. QED
  BY <1>5, <1>6 DEF ReworkDocuments

\* What a write does to the status of a milestone.
LEMMA WriteFacts ==
  ASSUME Inv, NEW c \in Calls, Write(c)
  PROVE  /\ request[c].item \in Items /\ request[c].step = "write"
         /\ \A m \in Mains : m # request[c].item => milestone'[m] = milestone[m]
         /\ scenario' = scenario /\ project' = project
<1>1. Sound(request[c], chain, transactions, Items, Own) /\ request[c].step = "write"
      /\ scenario \in Scenarios
  BY RequestFacts DEF Write
<1>2. request[c].item \in Items /\ Mains \subseteq Items /\ Mains \cap Subs = {}
  BY <1>1, ProjectFacts DEF Sound
<1>3. \A m \in Mains : m # request[c].item => milestone'[m] = milestone[m]
  BY <1>2 DEF Write
<1>4. QED
  BY <1>1, <1>2, <1>3 DEF Write

LEMMA SerialWrite ==
  ASSUME Inv, Serial, NEW c \in Calls, Write(c)
  PROVE  Serial'
<1>1. /\ request[c].item \in Items /\ request[c].step = "write"
      /\ \A m \in Mains : m # request[c].item => milestone'[m] = milestone[m]
      /\ scenario' = scenario /\ project' = project
  BY WriteFacts
<1>2. request \in [Calls -> Request] /\ scenario \in Scenarios
  BY RequestFacts
<1>3. request' = [request EXCEPT ![c] = request'[c]] /\ request'[c].step = "open"
  BY <1>2, GotoWithFacts DEF Write, Step
<1>4. Mains' = Mains /\ Mains # {}
  BY <1>1, <1>2, SameProject, ProjectFacts
<1>5. UpToDate(request[c])' /\ request'[c].step \in Counting
  BY <1>3, <1>4 DEF UpToDate, Counting
<1>6. SUFFICES ASSUME InMode(Alone)
               PROVE  NotPremature' /\ \A d \in Calls : d # c => request[d] = Idle
  BY <1>1, <1>3, <1>5, SerialStep
<1>7. /\ \A d \in Calls : d # c => request[d] = Idle
      /\ UpToDate(request[c]) /\ Current
  BY <1>1, <1>6, BusyAlone DEF Counting
<1>8. milestone[request[c].item].milestoneStatus \notin EndStates
  BY <1>1, <1>7 DEF UpToDate
<1>9. Complete => Complete'
  BY <1>1, <1>4, <1>8 DEF Complete, Ended
<1>10. QED
  BY <1>1, <1>7, <1>9 DEF Current, NotPremature

LEMMA SerialCounts ==
  ASSUME Inv, Serial, NEW c \in Calls, CountOpen(c) \/ CountWorking(c)
  PROVE  Serial'
<1>1. /\ request[c] \in Request /\ request \in [Calls -> Request] /\ scenario \in Scenarios
      /\ request[c].step \in {"open", "working"}
  BY RequestFacts DEF CountOpen, CountWorking
<1>2. StatusKept
  BY DEF CountOpen, CountWorking, StatusKept, dbVars
<1>3. /\ NotPremature' <=> NotPremature
      /\ \A states : MilestoneIn(states)' <=> MilestoneIn(states)
      /\ Mains' = Mains
  BY <1>1, <1>2, SameStatus
<1>4. InMode(Alone) => /\ \A d \in Calls : d # c => request[d] = Idle
                       /\ UpToDate(request[c]) /\ NotPremature
  BY <1>1, BusyAlone DEF Counting
<1>5. CASE CountOpen(c)
  <2> DEFINE open == MilestoneIn(MilestoneStatus \ EndStates)
  <2>1. open \in BOOLEAN /\ "working" \in Step /\ GotoWith(c, "working", open)
    BY <1>5 DEF MilestoneIn, CountOpen, Step
  <2>2. /\ request' = [request EXCEPT ![c] = request'[c]]
        /\ request'[c].step = "working" /\ request'[c].open = open
    <3> HIDE DEF open
    <3>1. QED
      BY <1>1, <2>1, GotoWithFacts
  <2>3. MilestoneIn(MilestoneStatus \ EndStates)' <=> MilestoneIn(MilestoneStatus \ EndStates)
    BY <1>3
  <2>4. InMode(Alone) => UpToDate(request[c])' /\ request'[c].step \in Counting
    BY <1>1, <1>3, <1>4, <2>2, <2>3 DEF UpToDate, Counting
  <2>5. QED
    BY <1>2, <1>3, <1>4, <2>2, <2>4, SerialStep DEF StatusKept
<1>6. CASE CountWorking(c)
  <2> DEFINE r == request[c]
             working == MilestoneIn({"IN_PROGRESS"})
             next == [r EXCEPT !.step = "status", !.working = working]
  <2>1. /\ next.step = "status" /\ next.open = r.open /\ next.working = working
        /\ r.step = "working"
    BY <1>1, <1>6 DEF Request, CountWorking
  <2>2. request' = [request EXCEPT ![c] = next]
    BY <1>6 DEF CountWorking, Update
  <2> HIDE DEF next
  <2>3. request' = [request EXCEPT ![c] = request'[c]] /\ request'[c] = next
    BY <1>1, <2>2
  <2>4. /\ MilestoneIn(MilestoneStatus \ EndStates)' <=> MilestoneIn(MilestoneStatus \ EndStates)
        /\ MilestoneIn({"IN_PROGRESS"})' <=> MilestoneIn({"IN_PROGRESS"})
    BY <1>3
  <2>5. InMode(Alone) => UpToDate(request[c])' /\ request'[c].step \in Counting
    BY <1>1, <1>3, <1>4, <2>1, <2>3, <2>4 DEF UpToDate, Counting
  <2>6. QED
    BY <1>2, <1>3, <1>4, <2>3, <2>5, SerialStep DEF StatusKept
<1>7. QED
  BY <1>5, <1>6

LEMMA SerialUpdateProject ==
  ASSUME Inv, Serial, NEW c \in Calls, UpdateProject(c)
  PROVE  Serial'
<1> DEFINE r == request[c]
<1>1. /\ r \in Request /\ request \in [Calls -> Request] /\ scenario \in Scenarios
      /\ r.step = "status" /\ RowsType
  BY RequestFacts DEF UpdateProject
<1>2. request' = [request EXCEPT ![c] = request'[c]] /\ request'[c].step \in {"idle", "flags"}
  <2>1. CASE Return(c)
    BY <1>1, <2>1, ReturnFacts, IdleFacts
  <2>2. CASE GotoWith(c, "flags", FALSE)
    BY <1>1, <2>2, GotoWithFacts DEF Step
  <2>3. QED
    BY <2>1, <2>2 DEF UpdateProject
<1>3. UpToDate(request[c])' /\ request'[c].step \notin Counting
  BY <1>2 DEF UpToDate, Counting
<1>4. scenario' = scenario /\ milestone' = milestone /\ Mains' = Mains /\ Mains \subseteq Items
  BY <1>1, SameProject, ProjectFacts DEF UpdateProject
<1>5. SUFFICES ASSUME InMode(Alone)
               PROVE  Current' /\ \A d \in Calls : d # c => request[d] = Idle
  BY <1>2, <1>3, <1>4, SerialStep
<1>6. /\ \A d \in Calls : d # c => request[d] = Idle
      /\ UpToDate(r) /\ NotPremature
  BY <1>1, <1>5, BusyAlone DEF Counting
<1>7. /\ r.open <=> MilestoneIn(MilestoneStatus \ EndStates)
      /\ r.working <=> MilestoneIn({"IN_PROGRESS"})
      /\ Mains # {}
  BY <1>1, <1>6 DEF UpToDate, Counting
<1>8. /\ Complete <=> ~r.open
      /\ r.working => r.open
  <2>1. \A m \in Mains : milestone[m].milestoneStatus \in MilestoneStatus
    BY <1>1, <1>4 DEF RowsType
  <2>2. QED
    BY <1>7, <2>1 DEF Complete, Ended, MilestoneIn, MilestoneStatus, EndStates
<1>9. project'.status = IF r.working THEN "IN_PROGRESS"
                        ELSE IF ~r.open THEN "COMPLETE" ELSE project.status
  BY <1>1 DEF UpdateProject, RowsType
<1>10. (Complete' <=> Complete)
       /\ (MilestoneIn({"IN_PROGRESS"})' <=> MilestoneIn({"IN_PROGRESS"}))
  BY <1>4 DEF Complete, Ended, MilestoneIn
<1>11. QED
  BY <1>6, <1>7, <1>8, <1>9, <1>10 DEF Current, NotPremature

LEMMA SerialInit == Init => Serial
<1> SUFFICES ASSUME Init PROVE Serial
  OBVIOUS
<1>1. /\ Mains \subseteq Items /\ scenario.start \in {"INIT", "IN_REVIEW"}
  BY ProjectFacts DEF Init
<1>2. \A c \in Calls : request[c] = Idle
  BY DEF Init
<1>3. \A c \in Calls : UpToDate(request[c]) /\ request[c].step \notin Counting
  BY <1>2, IdleFacts DEF UpToDate, Counting
<1>4. \A m \in Mains : milestone[m].milestoneStatus = scenario.start
  BY <1>1 DEF Init, NewMilestone
<1>5. Current
  <2>1. project.status # "COMPLETE" /\ ~Complete
    BY <1>1, <1>4 DEF Init, NewProject, Complete, Ended, EndStates
  <2>2. ~MilestoneIn({"IN_PROGRESS"})
    BY <1>1, <1>4 DEF MilestoneIn
  <2>3. QED
    BY <2>1, <2>2 DEF Current
<1>6. QED
  BY <1>2, <1>3, <1>5 DEF Serial

\* Steps that leave requests and statuses alone.
LEMMA SerialUnchanged ==
  ASSUME Inv, Serial, UNCHANGED <<scenario, milestone, project, request>>
  PROVE  Serial'
<1>1. StatusKept /\ scenario \in Scenarios
  BY RequestFacts DEF StatusKept, Inv, TypeOK
<1>2. /\ Mains' = Mains /\ (Current' <=> Current) /\ (NotPremature' <=> NotPremature)
      /\ \A states : MilestoneIn(states)' <=> MilestoneIn(states)
  BY <1>1, SameStatus
<1>3. /\ MilestoneIn(MilestoneStatus \ EndStates)' <=> MilestoneIn(MilestoneStatus \ EndStates)
      /\ MilestoneIn({"IN_PROGRESS"})' <=> MilestoneIn({"IN_PROGRESS"})
  BY <1>2
<1>4. ASSUME NEW c \in Calls, UpToDate(request[c])
      PROVE  UpToDate(request[c])'
  BY <1>2, <1>3, <1>4 DEF UpToDate
<1>5. InMode(Alone)' <=> InMode(Alone)
  BY SameProject
<1>6. QED
  BY <1>2, <1>4, <1>5 DEF Serial

LEMMA SerialNext == Inv /\ Serial /\ [Next]_vars => Serial'
<1> SUFFICES ASSUME Inv, Serial, [Next]_vars PROVE Serial'
  OBVIOUS
<1>1. CASE UNCHANGED vars \/ Send
  BY <1>1, SerialUnchanged DEF vars, dbVars, Send
<1>2. ASSUME NEW c \in Calls, Handle(c)
      PROVE  Serial'
  <2>1. CASE Report(c)
    BY <2>1, SerialReport
  <2>2. CASE ReadEvent(c)
    BY <2>2, SerialReadEvent
  <2>3. CASE FreeBalance(c) \/ FundProject(c) \/ UpdateManyFunds(c)
    BY <2>3, SerialFunds
  <2>4. CASE Check(c) \/ Patch(c)
    BY <2>4, SerialCheck
  <2>5. CASE ReworkDocuments(c)
    BY <2>5, SerialReworkDocuments
  <2>6. CASE Write(c)
    BY <2>6, SerialWrite
  <2>7. CASE CountOpen(c) \/ CountWorking(c)
    BY <2>7, SerialCounts
  <2>8. CASE UpdateProject(c)
    BY <2>8, SerialUpdateProject
  <2>9. CASE Stop(c)
    <3>1. scenario' = scenario /\ ~InMode(Alone)
      BY <2>9 DEF Stop, InMode, Alone
    <3>2. QED
      BY <3>1, SameProject DEF Serial
  <2>10. QED
    BY <1>2, <2>1, <2>2, <2>3, <2>4, <2>5, <2>6, <2>7, <2>8, <2>9 DEF Handle
<1>3. QED
  BY <1>1, <1>2 DEF Next

LEMMA SerialAlways == Spec => [](Inv /\ Serial)
<1>1. Init => Inv /\ Serial
  BY InvInit, SerialInit
<1>2. Inv /\ Serial /\ [Next]_vars => Inv' /\ Serial'
  BY InvNext, SerialNext
<1>3. QED
  BY <1>1, <1>2, PTL DEF Spec

\* As long as requests do not overlap, whatever they report and however often,
\* the status of the project is what its milestones say whenever none is
\* under way (updateMilestoneStatus, the two counts).
THEOREM ProjectStatusIsCurrent == Spec => []ProjectStatusCurrent
<1>1. Serial => ProjectStatusCurrent
  <2> SUFFICES ASSUME Serial, InMode(Alone), AllIdle
               PROVE  Current
    BY DEF ProjectStatusCurrent, Current, Complete, Alone
  <2>1. \A c \in Calls : request[c].step \notin Counting
    BY IdleFacts DEF AllIdle, Counting
  <2>2. QED
    BY <2>1 DEF Serial
<1>2. QED
  BY <1>1, SerialAlways, PTL

\* As long as requests do not overlap, no step of any of them takes a milestone
\* out of an end state: what the check of END_STATUS_RESTRICT read still holds
\* when the status is written (updateMilestoneStatus).
THEOREM EndStatesAreFinal == Spec => EndStatesFinal
<1> DEFINE Kept == \A m \in Mains : Ended(m) =>
                     milestone'[m].milestoneStatus = milestone[m].milestoneStatus
<1>1. Inv /\ Serial /\ [Next]_vars => [InMode(Alone) => Kept]_vars
  <2> SUFFICES ASSUME Inv, Serial, Next, InMode(Alone)
               PROVE  Kept
    OBVIOUS
  <2>1. Mains \subseteq Items
    BY RequestFacts, ProjectFacts DEF Inv, TypeOK
  <2>2. CASE milestone' = milestone
    BY <2>2
  <2>3. ASSUME NEW c \in Calls, Write(c)
        PROVE  Kept
    <3>1. /\ request[c].step = "write"
          /\ \A m \in Mains : m # request[c].item => milestone'[m] = milestone[m]
      BY <2>3, WriteFacts
    <3>2. milestone[request[c].item].milestoneStatus \notin EndStates
      BY <3>1, BusyAlone DEF UpToDate
    <3>3. QED
      BY <3>1, <3>2 DEF Ended
  <2>4. ASSUME NEW c \in Calls, UpdateManyFunds(c)
        PROVE  Kept
    <3>1. RowsType
      BY <2>4, RequestFacts
    <3>2. \/ milestone' = [milestone EXCEPT ![request[c].item].isDeployedOnContract = TRUE]
          \/ milestone' = milestone
      BY <2>4 DEF UpdateManyFunds
    <3>3. \A m \in Mains : milestone'[m].milestoneStatus = milestone[m].milestoneStatus
      BY <2>1, <3>1, <3>2 DEF RowsType
    <3>4. QED
      BY <3>3
  <2>5. Next => \/ milestone' = milestone
                \/ \E c \in Calls : Write(c) \/ UpdateManyFunds(c)
    BY DEF Next, Send, Handle, Report, Patch, ReadEvent, FreeBalance, FundProject, Check,
           ReworkDocuments, CountOpen, CountWorking, UpdateProject, Stop, dbVars
  <2>6. QED
    BY <2>2, <2>3, <2>4, <2>5
<1>2. [InMode(Alone) => Kept]_vars => [InMode({"orderly", "serial"}) => Kept]_vars
  BY DEF Alone
<1>3. QED
  BY <1>1, <1>2, SerialAlways, PTL DEF Spec, EndStatesFinal

\* As long as requests do not overlap, a milestone goes back for rework only by
\* using up one of the revisions agreed on, and nothing else uses one up: the
\* count that was read still holds when it is written (updateMilestoneStatus).
THEOREM ReworksAreCounted == Spec => EveryReworkCounted
<1> DEFINE GoesBack(i) == /\ milestone[i].milestoneStatus # "REWORK"
                          /\ milestone'[i].milestoneStatus = "REWORK"
           InStep(i) ==
             /\ milestone'[i].revisionsCounter =
                  milestone[i].revisionsCounter + (IF GoesBack(i) THEN 1 ELSE 0)
             /\ GoesBack(i) => milestone[i].revisionsCounter < revisions[i]
           Kept == \A i \in Items : InStep(i)
<1>1. Inv /\ Serial /\ [Next]_vars => [InMode(Alone) => Kept]_vars
  <2> SUFFICES ASSUME Inv, Serial, Next, InMode(Alone)
               PROVE  Kept
    OBVIOUS
  <2>1. ASSUME NEW i \in Items
        PROVE  /\ milestone[i].revisionsCounter \in Nat
               /\ milestone'[i].milestoneStatus = milestone[i].milestoneStatus
                    /\ milestone'[i].revisionsCounter = milestone[i].revisionsCounter
                  => InStep(i)
    BY DEF Inv, TypeOK
  <2>2. CASE milestone' = milestone
    BY <2>1, <2>2
  <2>3. ASSUME NEW c \in Calls, Write(c)
        PROVE  Kept
    <3> DEFINE r == request[c]
    <3>1. /\ r.step = "write" /\ r.item \in Items /\ RowsType
          /\ r.asked = "REWORK" => r.counter < revisions[r.item]
      BY <2>3, RequestFacts DEF Write, Sound
    <3>2. /\ r.counter = milestone[r.item].revisionsCounter
          /\ r.asked \in ValidNext(milestone[r.item].milestoneStatus)
      BY <3>1, BusyAlone DEF UpToDate
    <3>3. r.asked = "REWORK" => milestone[r.item].milestoneStatus # "REWORK"
      BY <3>2 DEF ValidNext
    <3>4. ASSUME NEW i \in Items, i # r.item
          PROVE  InStep(i)
      <4>1. \/ milestone'[i] = milestone[i]
            \/ milestone'[i] = [milestone[i] EXCEPT !.milestoneStatus = "COMPLETED"]
        BY <2>3, <3>4 DEF Write
      <4>2. CASE milestone'[i] = milestone[i]
        BY <2>1, <4>2
      <4>3. CASE milestone'[i] = [milestone[i] EXCEPT !.milestoneStatus = "COMPLETED"]
        BY <2>1, <3>1, <4>3 DEF RowsType
      <4>4. QED
        BY <4>1, <4>2, <4>3
    <3>5. /\ milestone'[r.item].milestoneStatus = r.asked
          /\ milestone'[r.item].revisionsCounter =
               IF r.asked = "REWORK" THEN r.counter + 1
               ELSE milestone[r.item].revisionsCounter
      BY <2>3, <3>1 DEF Write, RowsType
    <3>6. InStep(r.item)
      BY <2>1, <3>1, <3>2, <3>3, <3>5
    <3>7. QED
      BY <3>4, <3>6
  <2>4. ASSUME NEW c \in Calls, UpdateManyFunds(c)
        PROVE  Kept
    <3>1. RowsType
      BY <2>4, RequestFacts
    <3>2. \/ milestone' = [milestone EXCEPT ![request[c].item].isDeployedOnContract = TRUE]
          \/ milestone' = milestone
      BY <2>4 DEF UpdateManyFunds
    <3>3. \A i \in Items :
            /\ milestone'[i].milestoneStatus = milestone[i].milestoneStatus
            /\ milestone'[i].revisionsCounter = milestone[i].revisionsCounter
      BY <3>1, <3>2 DEF RowsType
    <3>4. QED
      BY <2>1, <3>3
  <2>5. Next => \/ milestone' = milestone
                \/ \E c \in Calls : Write(c) \/ UpdateManyFunds(c)
    BY DEF Next, Send, Handle, Report, Patch, ReadEvent, FreeBalance, FundProject, Check,
           ReworkDocuments, CountOpen, CountWorking, UpdateProject, Stop, dbVars
  <2>6. QED
    BY <2>2, <2>3, <2>4, <2>5
<1>2. [InMode(Alone) => Kept]_vars <=>
      [InMode({"orderly", "serial"}) =>
         \A i \in Items :
           LET goesBack == /\ milestone[i].milestoneStatus # "REWORK"
                           /\ milestone'[i].milestoneStatus = "REWORK"
           IN  /\ milestone'[i].revisionsCounter =
                    milestone[i].revisionsCounter + (IF goesBack THEN 1 ELSE 0)
               /\ goesBack => milestone[i].revisionsCounter < revisions[i]]_vars
  BY DEF Alone
<1>3. QED
  BY <1>1, <1>2, SerialAlways, PTL DEF Spec, EveryReworkCounted

-----------------------------------------------------------------------------
(* Clients that report one transaction before the next is sent.            *)

StateEvents == {"MilestoneStateChanged", "SubMilestoneStateChanged"}
Deciding == {"check", "rework", "write"}

\* What is being reported, or will be next, with the function that was called.
Reported(tx, sc) ==
  [Idle EXCEPT !.step = "event", !.tx = tx, !.todo = tx.items,
               !.forProject = tx.event = "MilestoneFunded" /\ sc.fundingType = "PROJECT"]
Active ==
  IF emitted # {} THEN Reported(CHOOSE tx \in emitted : TRUE, scenario)
  ELSE IF AllIdle THEN Idle
  ELSE request[CHOOSE c \in Calls : request[c] # Idle]

FundEvents == {"MilestoneFunded", "MilestoneStateChanged", "MilestonePayout", "RoyaltyPaid"}

\* Items of which the event is not yet in table Funds ...
Owed(r, event) ==
  IF r.tx.event = event
  THEN r.todo \cup IF r.step = "event" THEN {} ELSE {r.item}
  ELSE {}

\* ... whose funding is not yet taken off what is left ...
Unpaid(r) == Owed(r, "MilestoneFunded") \ IF r.step = "flags" THEN {r.item} ELSE {}

\* ... and whose new state is not yet written.
Unwritten(r) ==
  IF r.tx.event \notin StateEvents THEN {}
  ELSE IF r.step = "event" THEN r.todo
  ELSE IF r.step \in Deciding THEN {r.item} ELSE {}

\* The milestones whose prices are taken off: all of a project with the first.
Counted ==
  IF scenario.fundingType = "PROJECT"
  THEN IF Unpaid(Active) = Mains THEN {} ELSE chain.funded
  ELSE chain.funded \ Unpaid(Active)

\* A row that shows the state of the contract, and one that will, because the
\* server accepts the change the contract made.
Known(i) ==
  /\ milestone[i].revisionsCounter = chain.revisionCounter[i]
  /\ \/ milestone[i].milestoneStatus = Stored(chain.state[i])
     \/ /\ i \in Subs
        /\ chain.state[i] = "FUNDED" \/ milestone[Parent[i]].milestoneStatus = "COMPLETED"
Coming(i) ==
  LET state == Active.tx.state IN
  /\ Accepts(Sender(i, Stored(state)), i, milestone[i], Stored(state))
  /\ chain.revisionCounter[i] =
       milestone[i].revisionsCounter + IF state = "REWORK" THEN 1 ELSE 0

RowsExact ==
  \A i \in Items :
    /\ IF i \in Unwritten(Active) THEN Coming(i) ELSE Known(i)
    /\ milestone[i].isDeployedOnContract <=>
         i \in Subs /\ i \in chain.added \ Owed(Active, "SubMilestoneAdded")

\* The flags of a milestone, where it is paid, or settled, as far as reported.
FlagsExact(m, paid, settled) ==
  /\ funds[m].fundTranscationIdToEscrow <=>
       m \in chain.funded \ Owed(Active, "MilestoneFunded")
  /\ funds[m].enableFundTransfer <=>
       /\ chain.state[m] = "COMPLETED" /\ ~paid
       /\ m \notin Owed(Active, "MilestoneStateChanged")
  /\ funds[m].enableRoyalityTransfer <=> paid /\ ~settled
  /\ funds[m].royalityTransferred <=> settled
  /\ \A i \in {m} \cup SubsOf(m) : funds[i].fundTransferred <=> paid

FundsExact ==
  \A m \in Mains :
    /\ FlagsExact(m, m \in chain.paid \ Owed(Active, "MilestonePayout"),
                     m \in chain.settled \ Owed(Active, "RoyaltyPaid"))
    /\ m \in chain.paid => /\ chain.state[m] = "COMPLETED"
                           /\ m \notin Owed(Active, "MilestoneStateChanged")
    /\ m \in Owed(Active, "MilestonePayout") => m \notin chain.settled

\* Amounts are only added and subtracted without rounding.
Whole == scenario.whole \/ scenario.fundingType = "PROJECT"

ProjectExact ==
  /\ Whole =>
       /\ project.leftProjectFund = totalProjectFund - SumOfPrices(Counted)
       /\ Counted # {} => (project.fundTransfered <=> project.leftProjectFund <= 0)
       /\ project.fundTransfered => project.leftProjectFund <= 0
  /\ project.freeBalanceReleased <=>
       chain.released /\ Active.tx.event # "FreeBalanceReleased"

\* The transaction is about these items, its change of state is the last of its
\* item, and what the handler read still holds.
AsSent(tx) ==
  /\ tx.event \in FundEvents => tx.items \subseteq Mains
  /\ tx.event \in {"SubMilestoneStateChanged", "SubMilestoneAdded"} => tx.items \subseteq Subs
  /\ tx.event \in StateEvents => \E i \in Items : tx.items = {i} /\ chain.state[i] = tx.state
  /\ tx.event = "MilestoneFunded" /\ scenario.fundingType = "PROJECT" => tx.items = Mains
  /\ tx.event = "FreeBalanceReleased" => tx.items = {}
  /\ tx.event # "MilestoneForceClosed"

Doing ==
  /\ Active # Idle => Active.tx \in Transaction /\ Active.step # "idle"
  /\ Active.step \notin {"idle", "event"} => Active.item \notin Active.todo
  /\ Active.step = "fund" => Active.left = project.leftProjectFund
  /\ Active.step \in Deciding \cup {"open", "working", "status"} =>
       Active.tx.event \in StateEvents
  /\ Active.step \in Deciding => Active.asked = Stored(Active.tx.state)
  /\ Active.step \in {"rework", "write"} =>
       Active.counter = milestone[Active.item].revisionsCounter
  /\ Active.tx.event = "MilestoneFunded" =>
       (Active.forProject <=> scenario.fundingType = "PROJECT")
  /\ AsSent(Active.tx)

Single == emitted # {} => AllIdle /\ \E tx : emitted = {tx}
Exact == Single /\ Doing /\ RowsExact /\ FundsExact /\ ProjectExact
ExactInOrder == InMode({"orderly"}) => Exact

LEMMA ReportedFacts ==
  ASSUME NEW tx \in Transaction, NEW sc
  PROVE  LET r == Reported(tx, sc) IN
         /\ r.step = "event" /\ r.tx = tx /\ r.todo = tx.items /\ r # Idle
         /\ tx.event = "MilestoneFunded" => (r.forProject <=> sc.fundingType = "PROJECT")
         /\ \A e : Owed(r, e) = IF tx.event = e THEN tx.items ELSE {}
         /\ Unpaid(r) = IF tx.event = "MilestoneFunded" THEN tx.items ELSE {}
         /\ Unwritten(r) = IF tx.event \in StateEvents THEN tx.items ELSE {}
<1> DEFINE r == Reported(tx, sc)
<1>1. /\ r.step = "event" /\ r.tx = tx /\ r.todo = tx.items
      /\ tx.event = "MilestoneFunded" => (r.forProject <=> sc.fundingType = "PROJECT")
  BY IdleFacts DEF Request, Reported
<1>2. r # Idle
  BY <1>1, IdleFacts
<1> HIDE DEF r
<1>3. \A e : Owed(r, e) = IF tx.event = e THEN tx.items ELSE {}
  BY <1>1 DEF Owed
<1>4. Unpaid(r) = IF tx.event = "MilestoneFunded" THEN tx.items ELSE {}
  BY <1>1, <1>3 DEF Unpaid
<1>5. Unwritten(r) = IF tx.event \in StateEvents THEN tx.items ELSE {}
  BY <1>1 DEF Unwritten
<1>6. QED
  BY <1>1, <1>2, <1>3, <1>4, <1>5 DEF r

LEMMA IdleOwes ==
  /\ \A e \in Event : Owed(Idle, e) = {}
  /\ Unpaid(Idle) = {} /\ Unwritten(Idle) = {}
<1>1. Idle.tx.event = "none"
  BY IdleFacts, NoTxFacts
<1>2. \A e \in Event : Owed(Idle, e) = {}
  BY <1>1 DEF Owed, Event
<1>3. Unpaid(Idle) = {}
  BY <1>1 DEF Unpaid, Owed
<1>4. Unwritten(Idle) = {}
  BY <1>1 DEF Unwritten, StateEvents
<1>5. QED
  BY <1>2, <1>3, <1>4

\* Between the requests nothing is active ...
LEMMA NothingActive ==
  /\ emitted = {} /\ AllIdle => Active = Idle
  /\ emitted' = {} /\ AllIdle' => Active' = Idle
  BY DEF Active

\* ... a transaction is when it was sent, ...
LEMMA SentActive ==
  /\ \A tx : emitted = {tx} => Active = Reported(tx, scenario)
  /\ \A tx : emitted' = {tx} => Active' = Reported(tx, scenario')
<1>1. \A tx : (CHOOSE t \in {tx} : TRUE) = tx
  OBVIOUS
<1>2. QED
  BY <1>1 DEF Active

\* ... and the request that is under way.
LEMMA BusyActive ==
  /\ \A c \in Calls :
       emitted = {} /\ request[c] # Idle /\ (\A d \in Calls : d # c => request[d] = Idle)
         => Active = request[c]
  /\ \A c \in Calls :
       emitted' = {} /\ request'[c] # Idle /\ (\A d \in Calls : d # c => request'[d] = Idle)
         => Active' = request'[c]
<1>1. ASSUME NEW c \in Calls, emitted = {}, request[c] # Idle,
             \A d \in Calls : d # c => request[d] = Idle
      PROVE  Active = request[c]
  <2>1. (CHOOSE d \in Calls : request[d] # Idle) = c
    BY <1>1
  <2>2. QED
    BY <1>1, <2>1 DEF Active, AllIdle
<1>2. ASSUME NEW c \in Calls, emitted' = {}, request'[c] # Idle,
             \A d \in Calls : d # c => request'[d] = Idle
      PROVE  Active' = request'[c]
  <2>1. (CHOOSE d \in Calls : request'[d] # Idle) = c
    BY <1>2
  <2>2. QED
    BY <1>2, <2>1 DEF Active, AllIdle
<1>3. QED
  BY <1>1, <1>2

LEMMA OrderlyAlone == InMode({"orderly"}) => InMode(Alone)
  BY DEF InMode, Alone

LEMMA OrderlyOwn == scenario \in Scenarios /\ InMode({"orderly"}) => Own
  BY MirrorAssumption DEF InMode, Own

\* What a step of request c starts from ...
LEMMA ActiveFacts ==
  ASSUME Inv, Serial, ExactInOrder, InMode({"orderly"}), NEW c \in Calls,
         request[c].step # "idle"
  PROVE  /\ Active = request[c] /\ emitted = {}
         /\ \A d \in Calls : d # c => request[d] = Idle
         /\ Active \in Request /\ Active.tx \in Transaction
         /\ Truthful(Active.tx, chain) /\ Active.todo \subseteq Active.tx.items
         /\ Active.step # "event" =>
              /\ Active.item \in Active.tx.items /\ Active.item \notin Active.todo
              /\ Active.item \in Items
         /\ request \in [Calls -> Request] /\ scenario \in Scenarios
         /\ RowsType /\ chain \in Chain
         /\ Doing /\ RowsExact /\ FundsExact /\ ProjectExact
<1>1. /\ request[c] \in Request /\ Sound(request[c], chain, transactions, Items, Own)
      /\ request \in [Calls -> Request] /\ scenario \in Scenarios /\ RowsType
      /\ chain \in Chain
  BY RequestFacts DEF Inv
<1>2. request[c] # Idle
  BY IdleFacts
<1>3. \A d \in Calls : d # c => request[d] = Idle
  BY OrderlyAlone, BusyAlone
<1>4. Exact
  BY DEF ExactInOrder
<1>5. emitted = {}
  BY <1>2, <1>4 DEF Exact, Single, AllIdle
<1>6. Active = request[c]
  BY <1>2, <1>3, <1>5, BusyActive
<1>7. Active.tx \in Transaction /\ Active.tx # NoTx
  BY <1>2, <1>4, <1>6, NoTxFacts DEF Exact, Doing
<1>8. Active.tx.items \subseteq Items
  BY <1>7 DEF Transaction
<1>9. Active.step # "event" =>
        /\ Active.item \in Active.tx.items /\ Active.item \notin Active.todo
        /\ Active.item \in Items
  BY <1>1, <1>4, <1>6, <1>7, <1>8 DEF Sound, Exact, Doing
<1>10. QED
  BY <1>1, <1>3, <1>4, <1>5, <1>6, <1>7, <1>9, OrderlyOwn DEF Sound, Exact

\* ... and where it gets to.
LEMMA ActiveNext ==
  ASSUME NEW c \in Calls, request \in [Calls -> Request], scenario' = scenario,
         request' = [request EXCEPT ![c] = request'[c]], emitted' = {},
         \A d \in Calls : d # c => request[d] = Idle,
         Active' = request'[c] => Doing' /\ RowsExact' /\ FundsExact' /\ ProjectExact'
  PROVE  ExactInOrder'
<1>1. \A d \in Calls : d # c => request'[d] = Idle
  OBVIOUS
<1>2. Active' = request'[c]
  <2>1. CASE request'[c] # Idle
    BY <1>1, <2>1, BusyActive
  <2>2. CASE request'[c] = Idle
    <3>1. AllIdle'
      BY <1>1, <2>2 DEF AllIdle
    <3>2. QED
      BY <2>2, <3>1, NothingActive
  <2>3. QED
    BY <2>1, <2>2
<1>3. Single'
  BY DEF Single
<1>4. QED
  BY <1>2, <1>3 DEF ExactInOrder, Exact

-----------------------------------------------------------------------------
(* What stays exact because neither side nor the request touches it.       *)

LEMMA RowsKept ==
  ASSUME UNCHANGED <<scenario, chain.state, chain.revisionCounter, chain.added, milestone>>,
         RowsExact,
         Active'.tx = Active.tx \/ Unwritten(Active) = {},
         Unwritten(Active') = Unwritten(Active),
         Owed(Active', "SubMilestoneAdded") = Owed(Active, "SubMilestoneAdded")
  PROVE  RowsExact'
<1>1. Items' = Items /\ Subs' = Subs
  BY SameProject
<1>2. ASSUME NEW i \in Items
      PROVE  (Known(i)' <=> Known(i)) /\ (i \in Unwritten(Active) /\ Coming(i) => Coming(i)')
  BY <1>1 DEF Known, Coming, Sender, Accepts, Permitted, Mains
<1>3. QED
  BY <1>1, <1>2 DEF RowsExact

LEMMA FundsKept ==
  ASSUME UNCHANGED <<scenario, chain.state, chain.funded, chain.paid, chain.settled, funds>>,
         FundsExact,
         \A e \in FundEvents : Owed(Active', e) = Owed(Active, e)
  PROVE  FundsExact'
<1>1. Mains' = Mains /\ Subs' = Subs
  BY SameProject
<1>2. /\ Owed(Active', "MilestoneFunded") = Owed(Active, "MilestoneFunded")
      /\ Owed(Active', "MilestoneStateChanged") = Owed(Active, "MilestoneStateChanged")
      /\ Owed(Active', "MilestonePayout") = Owed(Active, "MilestonePayout")
      /\ Owed(Active', "RoyaltyPaid") = Owed(Active, "RoyaltyPaid")
  BY DEF FundEvents
<1>3. \A m, paid, settled : FlagsExact(m, paid, settled)' <=> FlagsExact(m, paid, settled)
  BY <1>1, <1>2 DEF FlagsExact, SubsOf
<1>4. QED
  BY <1>1, <1>2, <1>3 DEF FundsExact

\* The amount and the flags of the project; its status plays no part.
AmountKept ==
  /\ project'.leftProjectFund = project.leftProjectFund
  /\ project'.fundTransfered = project.fundTransfered
  /\ project'.freeBalanceReleased = project.freeBalanceReleased

LEMMA Amounts ==
  /\ totalProjectFund = Sum(price, Mains) /\ totalProjectFund' = Sum(price, Mains')
  /\ SumOfPrices(Counted) = Sum(price, Counted)
  /\ SumOfPrices(Counted)' = Sum(price, Counted')
<1>1. \A ms : SumOfPrices(ms) = Sum(price, ms)
  BY PricesAdd
<1>2. SumOfPrices(Counted)' = SumOfPrices(Counted')
  OBVIOUS
<1>3. totalProjectFund = SumOfPrices(Mains) /\ totalProjectFund' = SumOfPrices(Mains')
  BY DEF totalProjectFund
<1>4. QED
  BY <1>1, <1>2, <1>3

LEMMA ProjectKept ==
  ASSUME UNCHANGED <<scenario, chain.funded, chain.released>>, AmountKept, ProjectExact,
         Unpaid(Active') = Unpaid(Active),
         Active'.tx.event = "FreeBalanceReleased" <=> Active.tx.event = "FreeBalanceReleased"
  PROVE  ProjectExact'
<1>1. Mains' = Mains
  BY SameProject
<1>2. Counted' = Counted
  BY <1>1 DEF Counted
<1>3. /\ totalProjectFund' = totalProjectFund
      /\ SumOfPrices(Counted)' = SumOfPrices(Counted)
  BY <1>1, <1>2, Amounts
<1>4. QED
  BY <1>2, <1>3 DEF ProjectExact, AmountKept, Whole

LEMMA DoingNothing == Active' = Idle => Doing'
  BY IdleFacts, NoTxFacts DEF Doing, AsSent, Deciding, StateEvents, FundEvents

-----------------------------------------------------------------------------
(* A report, one await after the other.                                    *)

LEMMA ExactReport ==
  ASSUME Inv, Serial, ExactInOrder, InMode({"orderly"}), NEW c \in Calls, Report(c)
  PROVE  ExactInOrder'
<1>1. PICK tx \in emitted, forProject \in BOOLEAN :
        /\ MayStart(c)
        /\ forProject <=>
             tx.event = "MilestoneFunded" /\ scenario.fundingType = "PROJECT"
        /\ Update(c, [Idle EXCEPT !.step = "event", !.tx = tx, !.todo = tx.items,
                                  !.forProject = forProject])
        /\ emitted' = IF InMode({"orderly"}) THEN emitted \ {tx} ELSE emitted
        /\ UNCHANGED <<scenario, chain, dbVars>>
  <2>1. scenario \in Scenarios /\ Reportable = emitted
    BY OrderlyOwn, RequestFacts DEF Own, Reportable
  <2>2. QED
    BY <2>1 DEF Report
<1>2. Exact /\ emitted = {tx} /\ emitted' = {}
  <2>1. Exact
    BY DEF ExactInOrder
  <2>2. \E t : emitted = {t}
    BY <1>1, <2>1 DEF Exact, Single
  <2>3. QED
    BY <1>1, <2>1, <2>2
<1>3. tx \in Transaction
  BY <1>1, TypeByParts DEF Inv
<1> DEFINE r == Reported(tx, scenario)
<1>4. Active = r /\ r # Idle
  BY <1>2, <1>3, SentActive, ReportedFacts
<1>5. request' = [request EXCEPT ![c] = r] /\ request \in [Calls -> Request]
  <2>1. forProject = (tx.event = "MilestoneFunded" /\ scenario.fundingType = "PROJECT")
    BY <1>1
  <2>2. QED
    BY <1>1, <2>1, RequestFacts DEF Update, Reported
<1> HIDE DEF r
<1>6. \A d \in Calls : request[d] = Idle
  BY <1>1, OrderlyAlone, StartsAlone
<1>7. request' = [request EXCEPT ![c] = request'[c]] /\ request'[c] = r
  BY <1>5
<1>8. SUFFICES ASSUME Active' = Active
               PROVE  Doing' /\ RowsExact' /\ FundsExact' /\ ProjectExact'
  BY <1>1, <1>2, <1>4, <1>5, <1>6, <1>7, ActiveNext
<1>9. UNCHANGED <<scenario, chain, milestone, funds, project>>
  BY <1>1 DEF dbVars
<1>10. RowsExact' /\ FundsExact' /\ ProjectExact'
  BY <1>2, <1>8, <1>9, RowsKept, FundsKept, ProjectKept DEF Exact, AmountKept
<1>11. Doing'
  <2>1. /\ Transaction' = Transaction /\ Items' = Items
        /\ Mains' = Mains /\ Subs' = Subs
    BY <1>9, SameProject
  <2>2. AsSent(Active.tx)'
    BY <1>2, <1>8, <1>9, <2>1 DEF Exact, Doing, AsSent
  <2>3. QED
    BY <1>2, <1>8, <1>9, <2>1, <2>2 DEF Exact, Doing
<1>12. QED
  BY <1>10, <1>11

LEMMA TxStays ==
  ASSUME UNCHANGED <<scenario, chain>>, Doing, Active'.tx = Active.tx, Active.tx \in Transaction
  PROVE  Active'.tx \in Transaction' /\ AsSent(Active.tx)'
<1>1. /\ Transaction' = Transaction /\ Items' = Items
      /\ Mains' = Mains /\ Subs' = Subs
  BY SameProject
<1>2. QED
  BY <1>1 DEF Doing, AsSent

LEMMA ExactReadEvent ==
  ASSUME Inv, Serial, ExactInOrder, InMode({"orderly"}), NEW c \in Calls, ReadEvent(c)
  PROVE  ExactInOrder'
<1> DEFINE r == request[c]
           q == request'[c]
<1>1. r.step = "event"
  BY DEF ReadEvent
<1>2. /\ Active = r /\ emitted = {}
      /\ \A d \in Calls : d # c => request[d] = Idle
      /\ r \in Request /\ r.tx \in Transaction /\ r.todo \subseteq r.tx.items
      /\ request \in [Calls -> Request] /\ scenario \in Scenarios /\ RowsType
      /\ Doing /\ RowsExact /\ FundsExact /\ ProjectExact
  BY <1>1, ActiveFacts
<1>3. /\ UNCHANGED <<scenario, chain, emitted, milestone, funds, project>>
      /\ r.tx.event # "FreeBalanceReleased"
  BY DEF ReadEvent, chainVars
<1>4. PICK i \in r.todo :
        CASE r.tx.event = "MilestoneFunded" ->
               Update(c, [[r EXCEPT !.item = i, !.todo = @ \ {i}] EXCEPT
                            !.step = "fund", !.left = project.leftProjectFund])
          [] r.tx.event \in StateEvents ->
               \/ Update(c, [[r EXCEPT !.item = i, !.todo = @ \ {i}] EXCEPT
                               !.step = "check", !.asked = Stored(r.tx.state)])
               \/ /\ r.tx.state = "REWORK"
                  /\ ~InMode({"orderly"})
                  /\ Return(c)
          [] r.tx.event = "MilestoneForceClosed" -> Return(c)
          [] OTHER -> Update(c, [[r EXCEPT !.item = i, !.todo = @ \ {i}] EXCEPT
                                   !.step = "flags"])
  BY DEF ReadEvent, StateEvents
<1>5. /\ request' = [request EXCEPT ![c] = q]
      /\ q.tx = r.tx /\ q.item = i /\ q.todo = r.todo \ {i}
      /\ q.step = IF r.tx.event = "MilestoneFunded" THEN "fund"
                  ELSE IF r.tx.event \in StateEvents THEN "check" ELSE "flags"
      /\ q.step = "fund" => q.left = project.leftProjectFund
      /\ q.step = "check" => q.asked = Stored(r.tx.state)
      /\ q.forProject = r.forProject
  <2> DEFINE next == [r EXCEPT !.item = i, !.todo = @ \ {i}]
             fund == [next EXCEPT !.step = "fund", !.left = project.leftProjectFund]
             check == [next EXCEPT !.step = "check", !.asked = Stored(r.tx.state)]
             flags == [next EXCEPT !.step = "flags"]
  <2>1. \A p \in {fund, check, flags} : /\ p.tx = r.tx /\ p.item = i /\ p.todo = r.todo \ {i}
                                        /\ p.forProject = r.forProject
    BY <1>2 DEF Request
  <2>2. /\ fund.step = "fund" /\ fund.left = project.leftProjectFund
        /\ check.step = "check" /\ check.asked = Stored(r.tx.state)
        /\ flags.step = "flags"
    BY <1>2 DEF Request
  <2> HIDE DEF next, fund, check, flags
  <2>3. \A p : Update(c, p) => request' = [request EXCEPT ![c] = q] /\ q = p
    BY <1>2 DEF Update
  <2>4. CASE r.tx.event = "MilestoneFunded"
    <3>1. Update(c, fund)
      BY <1>4, <2>4 DEF next, fund, StateEvents
    <3>2. QED
      BY <2>1, <2>2, <2>3, <2>4, <3>1
  <2>5. CASE r.tx.event \in StateEvents
    <3>1. Update(c, check)
      BY <1>4, <2>5 DEF next, check, StateEvents
    <3>2. QED
      BY <2>1, <2>2, <2>3, <2>5, <3>1 DEF StateEvents
  <2>6. CASE r.tx.event \notin StateEvents \cup {"MilestoneFunded"}
    <3>1. Update(c, flags)
      BY <1>2, <1>4, <2>6 DEF next, flags, StateEvents, Doing, AsSent
    <3>2. QED
      BY <2>1, <2>2, <2>3, <2>6, <3>1
  <2>7. QED
    BY <2>4, <2>5, <2>6
<1> HIDE DEF q
<1>6. r.tx.event \in StateEvents => r.todo = {i}
  BY <1>2 DEF Doing, AsSent
<1>7. \A e : Owed(q, e) = Owed(r, e)
  BY <1>1, <1>5 DEF Owed
<1>8. Unpaid(q) = Unpaid(r)
  BY <1>1, <1>5, <1>7 DEF Unpaid, Owed
<1>9. Unwritten(q) = Unwritten(r)
  BY <1>1, <1>5, <1>6 DEF Unwritten, Deciding, StateEvents
<1>10. SUFFICES ASSUME Active' = q
                PROVE  Doing' /\ RowsExact' /\ FundsExact' /\ ProjectExact'
  BY <1>2, <1>3, <1>5, ActiveNext DEF q
<1>11. RowsExact' /\ FundsExact' /\ ProjectExact'
  BY <1>2, <1>3, <1>5, <1>7, <1>8, <1>9, <1>10, RowsKept, FundsKept, ProjectKept
     DEF AmountKept
<1>12. Active'.tx \in Transaction' /\ AsSent(Active.tx)'
  BY <1>2, <1>3, <1>5, <1>10, TxStays
<1>13. Doing'
  BY <1>2, <1>3, <1>5, <1>10, <1>12 DEF Doing, Deciding
<1>14. QED
  BY <1>11, <1>13

LEMMA ExactFreeBalance ==
  ASSUME Inv, Serial, ExactInOrder, InMode({"orderly"}), NEW c \in Calls, FreeBalance(c)
  PROVE  ExactInOrder'
<1> DEFINE r == request[c]
<1>1. r.step = "event" /\ r.tx.event = "FreeBalanceReleased"
  BY DEF FreeBalance
<1>2. /\ Active = r /\ emitted = {}
      /\ \A d \in Calls : d # c => request[d] = Idle
      /\ Truthful(r.tx, chain) /\ request \in [Calls -> Request] /\ RowsType
      /\ RowsExact /\ FundsExact /\ ProjectExact
  BY <1>1, ActiveFacts
<1>3. /\ UNCHANGED <<scenario, chain, emitted, milestone, funds>>
      /\ project' = [project EXCEPT !.freeBalanceReleased = TRUE]
  BY DEF FreeBalance, chainVars
<1>4. request' = [request EXCEPT ![c] = request'[c]] /\ request'[c] = Idle
  BY <1>2, ReturnFacts DEF FreeBalance
<1>5. /\ \A e \in Event : Owed(r, e) = IF e = "FreeBalanceReleased" THEN r.todo ELSE {}
      /\ Unpaid(r) = {} /\ Unwritten(r) = {}
  BY <1>1 DEF Owed, Unpaid, Unwritten, StateEvents
<1>6. SUFFICES ASSUME Active' = Idle
               PROVE  Doing' /\ RowsExact' /\ FundsExact' /\ ProjectExact'
  BY <1>2, <1>3, <1>4, ActiveNext
<1>7. RowsExact'
  BY <1>2, <1>3, <1>5, <1>6, IdleOwes, RowsKept DEF Event
<1>8. FundsExact'
  <2>1. r.todo = {}
    BY <1>1, <1>2, ActiveFacts DEF Doing, AsSent
  <2>2. \A e \in Event : Owed(Active', e) = Owed(Active, e)
    BY <1>2, <1>5, <1>6, <2>1, IdleOwes
  <2>3. QED
    BY <1>2, <1>3, <2>2, FundsKept DEF Event, FundEvents
<1>9. ProjectExact'
  <2>1. /\ project'.leftProjectFund = project.leftProjectFund
        /\ project'.fundTransfered = project.fundTransfered
        /\ project'.freeBalanceReleased
    BY <1>2, <1>3 DEF RowsType
  <2>2. Counted' = Counted
    <3>1. Unpaid(Active') = {} /\ Unpaid(Active) = {} /\ Mains' = Mains
      BY <1>2, <1>3, <1>5, <1>6, IdleOwes, SameProject
    <3>2. QED
      BY <1>3, <3>1 DEF Counted
  <2>3. /\ totalProjectFund' = totalProjectFund
        /\ SumOfPrices(Counted)' = SumOfPrices(Counted)
    BY <1>3, <2>2, Amounts, SameProject
  <2>4. chain'.released /\ Active'.tx.event # "FreeBalanceReleased"
    BY <1>1, <1>2, <1>3, <1>6, IdleFacts, NoTxFacts DEF Truthful
  <2>5. QED
    BY <1>2, <1>3, <2>1, <2>2, <2>3, <2>4 DEF ProjectExact, Whole
<1>10. Doing'
  BY <1>6, DoingNothing
<1>11. QED
  BY <1>7, <1>8, <1>9, <1>10

\* Within the handling of one event nothing more is owed or less.
LEMMA SameDebts ==
  ASSUME NEW r, NEW q, q.tx = r.tx, q.item = r.item, q.todo = r.todo,
         r.step # "event", q.step # "event"
  PROVE  /\ \A e : Owed(q, e) = Owed(r, e)
         /\ r.tx.event # "MilestoneFunded" => Unpaid(q) = Unpaid(r)
<1>1. \A e : Owed(q, e) = Owed(r, e)
  BY DEF Owed
<1>2. r.tx.event # "MilestoneFunded" => Unpaid(q) = {} /\ Unpaid(r) = {}
  BY DEF Unpaid, Owed
<1>3. QED
  BY <1>1, <1>2

LEMMA ExactFundProject ==
  ASSUME Inv, Serial, ExactInOrder, InMode({"orderly"}), NEW c \in Calls, FundProject(c)
  PROVE  ExactInOrder'
<1> DEFINE r == request[c]
           q == request'[c]
           i == r.item
<1>1. r.step = "fund" /\ r.tx.event = "MilestoneFunded"
  BY RequestFacts DEF FundProject, Sound
<1>2. /\ Active = r /\ emitted = {}
      /\ \A d \in Calls : d # c => request[d] = Idle
      /\ r.tx \in Transaction /\ r.todo \subseteq r.tx.items
      /\ i \in r.tx.items /\ i \notin r.todo /\ Truthful(r.tx, chain)
      /\ request \in [Calls -> Request] /\ scenario \in Scenarios /\ RowsType
      /\ chain \in Chain /\ Doing /\ RowsExact /\ FundsExact /\ ProjectExact
  BY <1>1, ActiveFacts
<1>3. /\ UNCHANGED <<scenario, chain, emitted, milestone, funds>> /\ Mains' = Mains
      /\ GotoWith(c, "flags", FALSE)
  BY SameProject DEF FundProject, chainVars
<1>4. /\ request' = [request EXCEPT ![c] = q]
      /\ q.step = "flags" /\ q.tx = r.tx /\ q.todo = r.todo /\ q.item = i
      /\ q.forProject = r.forProject
  <2>1. r.tx # NoTx
    BY <1>2, NoTxFacts
  <2>2. QED
    BY <1>2, <1>3, <2>1, GotoWithFacts DEF Step
<1> HIDE DEF q
<1>5. /\ \A e : Owed(q, e) = Owed(r, e)
      /\ Unwritten(q) = {} /\ Unwritten(r) = {}
      /\ Unpaid(r) = r.todo \cup {i} /\ Unpaid(q) = r.todo
  <2>1. \A e : Owed(q, e) = Owed(r, e)
    BY <1>1, <1>4, SameDebts
  <2>2. Unwritten(q) = {} /\ Unwritten(r) = {}
    BY <1>1, <1>4 DEF Unwritten, StateEvents
  <2>3. Owed(r, "MilestoneFunded") = r.todo \cup {i}
    BY <1>1 DEF Owed
  <2>4. Unpaid(r) = r.todo \cup {i} /\ Unpaid(q) = r.todo
    BY <1>1, <1>2, <1>4, <2>1, <2>3 DEF Unpaid
  <2>5. QED
    BY <2>1, <2>2, <2>4
<1>6. SUFFICES ASSUME Active' = q
               PROVE  Doing' /\ RowsExact' /\ FundsExact' /\ ProjectExact'
  BY <1>2, <1>3, <1>4, ActiveNext DEF q
<1>7. RowsExact' /\ FundsExact'
  BY <1>2, <1>3, <1>4, <1>5, <1>6, RowsKept, FundsKept
<1>8. Doing'
  <2>1. Active'.tx \in Transaction' /\ AsSent(Active.tx)'
    BY <1>2, <1>3, <1>4, <1>6, TxStays
  <2>2. QED
    BY <1>1, <1>2, <1>3, <1>4, <1>6, <2>1 DEF Doing, Deciding
<1>9. /\ r.tx.items \subseteq chain.funded /\ chain.funded \subseteq Mains /\ i \in chain.funded
      /\ scenario.fundingType = "PROJECT" => r.tx.items = Mains
  BY <1>1, <1>2 DEF Truthful, Chain, Doing, AsSent
<1>10. /\ IsFiniteSet(Mains) /\ \A m \in Mains : price[m] \in Nat
  BY <1>2, ProjectFacts, MirrorAssumption
<1>11. PICK left \in AmountLeft(r) :
         project' = [project EXCEPT !.leftProjectFund = left, !.fundTransfered = left <= 0]
  BY DEF FundProject
<1>12. /\ project'.leftProjectFund = left /\ project'.fundTransfered = (left <= 0)
       /\ project'.freeBalanceReleased = project.freeBalanceReleased
  BY <1>2, <1>11 DEF RowsType
<1>13. ASSUME Whole
       PROVE  Counted' # {} /\ left = Sum(price, Mains) - Sum(price, Counted')
  <2>1. Sum(price, Mains) \in Int /\ price[i] \in Int /\ r.left \in Int
    BY <1>2, <1>9, <1>10, SumInt, ActiveFacts, <1>1 DEF Request
  <2>2. r.forProject <=> scenario.fundingType = "PROJECT"
    BY <1>1, <1>2 DEF Doing
  <2>3. CASE scenario.fundingType = "PROJECT"
    <3>1. Counted' = Mains
      BY <1>2, <1>3, <1>5, <1>6, <1>9, <2>3 DEF Counted
    <3>2. left = 0
      BY <2>2, <2>3 DEF AmountLeft
    <3>3. QED
      BY <1>9, <2>1, <3>1, <3>2
  <2>4. CASE scenario.fundingType # "PROJECT"
    <3>1. Counted = chain.funded \ (r.todo \cup {i}) /\ Counted' = chain.funded \ r.todo
      BY <1>2, <1>3, <1>5, <1>6, <2>4 DEF Counted
    <3>2. /\ Counted' = Counted \cup {i} /\ i \notin Counted /\ Counted \subseteq Mains
      BY <1>2, <1>9, <3>1
    <3>3. IsFiniteSet(Counted)
      BY <1>10, <3>2, FS_Subset
    <3>4. Sum(price, Counted \cup {i}) = price[i] + Sum(price, Counted)
      <4>1. \A m \in Counted \cup {i} : price[m] \in Int
        BY <1>9, <1>10, <3>2
      <4>2. QED
        BY <3>2, <3>3, <4>1, SumAdd
    <3>5. r.left = Sum(price, Mains) - Sum(price, Counted)
      BY <1>1, <1>2, <1>13, Amounts DEF Doing, ProjectExact
    <3>6. Sum(price, Counted) \in Int
      BY <1>10, <3>2, <3>3, SumInt
    <3>7. left = r.left - price[i]
      BY <1>13, <2>1, <2>2, <2>4 DEF AmountLeft, Whole
    <3>8. QED
      BY <2>1, <3>2, <3>4, <3>5, <3>6, <3>7
  <2>5. QED
    BY <2>3, <2>4
<1>14. ProjectExact'
  <2>1. Whole' <=> Whole
    BY <1>3 DEF Whole
  <2>2. QED
    BY <1>1, <1>2, <1>3, <1>4, <1>6, <1>12, <1>13, <2>1, Amounts DEF ProjectExact
<1>15. QED
  BY <1>7, <1>8, <1>14

\* The server accepts the change that the contract made.
LEMMA ExactCheck ==
  ASSUME Inv, Serial, ExactInOrder, InMode({"orderly"}), NEW c \in Calls, Check(c)
  PROVE  ExactInOrder'
<1> DEFINE r == request[c]
           q == request'[c]
           row == milestone[r.item]
           next(step) == [r EXCEPT !.step = step, !.status = row.milestoneStatus,
                                   !.counter = row.revisionsCounter,
                                   !.docs = row.reworkDocs]
<1>1. r.step = "check"
  BY DEF Check
<1>2. /\ Active = r /\ emitted = {}
      /\ \A d \in Calls : d # c => request[d] = Idle
      /\ r \in Request /\ r.tx \in Transaction
      /\ r.item \in Items /\ r.item \notin r.todo
      /\ request \in [Calls -> Request] /\ RowsType
      /\ Doing /\ RowsExact /\ FundsExact /\ ProjectExact
  BY <1>1, ActiveFacts
<1>3. UNCHANGED <<scenario, chain, emitted, milestone, funds, project>>
  BY DEF Check, chainVars, dbVars
<1>4. r.tx.event \in StateEvents /\ r.asked = Stored(r.tx.state)
  BY <1>1, <1>2 DEF Doing, Deciding
<1>5. Accepts(Sender(r.item, r.asked), r.item, row, r.asked)
  <2>1. r.item \in Unwritten(Active)
    BY <1>1, <1>2, <1>4 DEF Unwritten, Deciding
  <2>2. QED
    BY <1>2, <1>4, <2>1 DEF RowsExact, Coming
<1>6. PICK step \in {"rework", "write"} : Update(c, next(step))
  BY <1>5 DEF Check, Checked
<1>7. /\ request' = [request EXCEPT ![c] = q]
      /\ q.step = step /\ q.tx = r.tx /\ q.todo = r.todo /\ q.item = r.item
      /\ q.asked = r.asked /\ q.counter = row.revisionsCounter
  <2> DEFINE p == next(step)
  <2>1. /\ p.step = step /\ p.tx = r.tx /\ p.todo = r.todo /\ p.item = r.item
        /\ p.asked = r.asked /\ p.counter = row.revisionsCounter
    BY <1>2 DEF Request
  <2> HIDE DEF p
  <2>2. request' = [request EXCEPT ![c] = q] /\ q = p
    BY <1>2, <1>6 DEF Update, p
  <2>3. QED
    BY <2>1, <2>2
<1> HIDE DEF q
<1>8. /\ \A e : Owed(q, e) = Owed(r, e)
      /\ Unpaid(q) = Unpaid(r)
  BY <1>1, <1>4, <1>7, SameDebts DEF StateEvents
<1>9. Unwritten(q) = Unwritten(r)
  BY <1>1, <1>4, <1>7 DEF Unwritten, Deciding
<1>10. SUFFICES ASSUME Active' = q
                PROVE  Doing' /\ RowsExact' /\ FundsExact' /\ ProjectExact'
  BY <1>2, <1>3, <1>7, ActiveNext DEF q
<1>11. RowsExact' /\ FundsExact' /\ ProjectExact'
  BY <1>2, <1>3, <1>7, <1>8, <1>9, <1>10, RowsKept, FundsKept, ProjectKept DEF AmountKept
<1>12. Active'.tx \in Transaction' /\ AsSent(Active.tx)'
  BY <1>2, <1>3, <1>7, <1>10, TxStays
<1>13. Doing'
  BY <1>2, <1>3, <1>4, <1>7, <1>10, <1>12 DEF Doing, StateEvents
<1>14. QED
  BY <1>11, <1>13

LEMMA ExactReworkDocuments ==
  ASSUME Inv, Serial, ExactInOrder, InMode({"orderly"}), NEW c \in Calls, ReworkDocuments(c)
  PROVE  ExactInOrder'
<1> DEFINE r == request[c]
           q == request'[c]
<1>1. r.step = "rework"
  BY DEF ReworkDocuments
<1>2. /\ Active = r /\ emitted = {}
      /\ \A d \in Calls : d # c => request[d] = Idle
      /\ r \in Request /\ r.tx \in Transaction /\ r.item \notin r.todo
      /\ request \in [Calls -> Request]
      /\ Doing /\ RowsExact /\ FundsExact /\ ProjectExact
  BY <1>1, ActiveFacts
<1>3. UNCHANGED <<scenario, chain, emitted, milestone, funds, project>>
  BY DEF ReworkDocuments, chainVars
<1>4. /\ r.tx.event \in StateEvents /\ r.asked = Stored(r.tx.state)
      /\ r.counter = milestone[r.item].revisionsCounter
  BY <1>1, <1>2 DEF Doing, Deciding
<1>5. /\ request' = [request EXCEPT ![c] = q]
      /\ q.step = "write" /\ q.tx = r.tx /\ q.todo = r.todo /\ q.item = r.item
      /\ q.asked = r.asked /\ q.counter = r.counter
  <2> DEFINE p == [r EXCEPT !.step = "write"]
  <2>1. /\ p.step = "write" /\ p.tx = r.tx /\ p.todo = r.todo /\ p.item = r.item
        /\ p.asked = r.asked /\ p.counter = r.counter
    BY <1>2 DEF Request
  <2> HIDE DEF p
  <2>2. request' = [request EXCEPT ![c] = q] /\ q = p
    BY <1>2, NoTxFacts DEF ReworkDocuments, Goto, Update, p
  <2>3. QED
    BY <2>1, <2>2
<1> HIDE DEF q
<1>6. /\ \A e : Owed(q, e) = Owed(r, e)
      /\ Unpaid(q) = Unpaid(r)
  BY <1>1, <1>4, <1>5, SameDebts DEF StateEvents
<1>7. Unwritten(q) = Unwritten(r)
  BY <1>1, <1>4, <1>5 DEF Unwritten, Deciding
<1>8. SUFFICES ASSUME Active' = q
               PROVE  Doing' /\ RowsExact' /\ FundsExact' /\ ProjectExact'
  BY <1>2, <1>3, <1>5, ActiveNext DEF q
<1>9. RowsExact' /\ FundsExact' /\ ProjectExact'
  BY <1>2, <1>3, <1>5, <1>6, <1>7, <1>8, RowsKept, FundsKept, ProjectKept DEF AmountKept
<1>10. Active'.tx \in Transaction' /\ AsSent(Active.tx)'
  BY <1>2, <1>3, <1>5, <1>8, TxStays
<1>11. Doing'
  BY <1>2, <1>3, <1>4, <1>5, <1>8, <1>10 DEF Doing, StateEvents
<1>12. QED
  BY <1>9, <1>11

\* A written row shows what the contract stores; those of sub-milestones that
\* are completed with it are excused.
LEMMA ExactWrite ==
  ASSUME Inv, Serial, ExactInOrder, InMode({"orderly"}), NEW c \in Calls, Write(c)
  PROVE  ExactInOrder'
<1> DEFINE r == request[c]
           q == request'[c]
           i == r.item
<1>1. r.step = "write"
  BY DEF Write
<1>2. /\ Active = r /\ emitted = {}
      /\ \A d \in Calls : d # c => request[d] = Idle
      /\ r \in Request /\ r.tx \in Transaction
      /\ i \in Items /\ i \in r.tx.items /\ i \notin r.todo
      /\ request \in [Calls -> Request] /\ scenario \in Scenarios /\ RowsType
      /\ Doing /\ RowsExact /\ FundsExact /\ ProjectExact
  BY <1>1, ActiveFacts
<1>3. /\ UNCHANGED <<scenario, chain, emitted, funds, project>>
      /\ GotoWith(c, "open", FALSE)
  BY DEF Write, chainVars
<1>4. /\ r.tx.event \in StateEvents /\ r.asked = Stored(r.tx.state)
      /\ r.counter = milestone[i].revisionsCounter
  BY <1>1, <1>2 DEF Doing, Deciding
<1>5. /\ request' = [request EXCEPT ![c] = q]
      /\ q.step = "open" /\ q.tx = r.tx /\ q.todo = r.todo /\ q.item = i
  <2>1. r.tx # NoTx
    BY <1>2, NoTxFacts
  <2>2. QED
    BY <1>2, <1>3, <2>1, GotoWithFacts DEF Step
<1> HIDE DEF q
<1>6. /\ \A e : Owed(q, e) = Owed(r, e)
      /\ Unpaid(q) = Unpaid(r)
  BY <1>1, <1>4, <1>5, SameDebts DEF StateEvents
<1>7. Unwritten(r) = {i} /\ Unwritten(q) = {}
  BY <1>1, <1>4, <1>5 DEF Unwritten, Deciding
<1>8. SUFFICES ASSUME Active' = q
               PROVE  Doing' /\ RowsExact' /\ FundsExact' /\ ProjectExact'
  BY <1>2, <1>3, <1>5, ActiveNext DEF q
<1>9. FundsExact' /\ ProjectExact'
  BY <1>2, <1>3, <1>5, <1>6, <1>8, FundsKept, ProjectKept DEF AmountKept
<1>10. Doing'
  <2>1. Active'.tx \in Transaction' /\ AsSent(Active.tx)'
    BY <1>2, <1>3, <1>5, <1>8, TxStays
  <2>2. QED
    BY <1>2, <1>4, <1>5, <1>8, <2>1 DEF Doing, Deciding, StateEvents
<1>11. Coming(i)
  BY <1>2, <1>7 DEF RowsExact
<1>12. milestone[i].milestoneStatus \notin EndStates
  BY <1>11 DEF Coming, Accepts
<1>13. /\ Items' = Items /\ Mains' = Mains /\ Subs' = Subs
       /\ Items = Mains \cup Subs /\ Mains \cap Subs = {}
       /\ \A s \in Subs : Parent[s] \in Mains
  BY <1>2, <1>3, SameProject, ProjectFacts
<1> DEFINE new(j) == IF j = i
             THEN [milestone[j] EXCEPT
                     !.milestoneStatus = r.asked,
                     !.revisionsCounter = IF r.asked = "REWORK" THEN r.counter + 1 ELSE @,
                     !.reworkDocs = @ \/ r.asked = "REWORK"]
             ELSE IF r.asked = "COMPLETED" /\ j \in Subs /\ Parent[j] = i
             THEN [milestone[j] EXCEPT !.milestoneStatus = "COMPLETED"]
             ELSE milestone[j]
<1>14. milestone' = [j \in Items |-> new(j)]
  BY DEF Write
<1>15. ASSUME NEW j \in Items
       PROVE  /\ milestone'[j].isDeployedOnContract = milestone[j].isDeployedOnContract
              /\ j = i => /\ milestone'[j].milestoneStatus = r.asked
                          /\ milestone'[j].revisionsCounter =
                               IF r.asked = "REWORK" THEN r.counter + 1
                               ELSE milestone[j].revisionsCounter
              /\ j # i => /\ milestone'[j].revisionsCounter = milestone[j].revisionsCounter
                          /\ IF r.asked = "COMPLETED" /\ j \in Subs /\ Parent[j] = i
                             THEN milestone'[j].milestoneStatus = "COMPLETED"
                             ELSE milestone'[j].milestoneStatus = milestone[j].milestoneStatus
  <2>1. milestone'[j] = new(j)
    BY <1>14
  <2>2. QED
    BY <1>2, <2>1 DEF RowsType
<1> HIDE DEF new
<1>16. ASSUME NEW j \in Items
       PROVE  Known(j)'
  <2>1. CASE j = i
    <3>1. /\ chain.state[i] = r.tx.state
          /\ chain.revisionCounter[i] =
               milestone[i].revisionsCounter + IF r.tx.state = "REWORK" THEN 1 ELSE 0
      BY <1>2, <1>4, <1>11 DEF Coming, Doing, AsSent
    <3>2. r.asked = "REWORK" <=> r.tx.state = "REWORK"
      BY <1>4 DEF Stored
    <3>3. milestone[i].revisionsCounter \in Nat
      BY <1>2 DEF RowsType
    <3>4. milestone'[i].revisionsCounter = chain.revisionCounter[i]
      BY <1>2, <1>4, <1>15, <3>1, <3>2, <3>3
    <3>5. milestone'[i].milestoneStatus = Stored(chain.state[i])
      BY <1>2, <1>4, <1>15, <3>1
    <3>6. QED
      BY <1>3, <2>1, <3>4, <3>5 DEF Known
  <2>2. CASE j # i
    <3>1. Known(j)
      BY <1>2, <1>7, <2>2 DEF RowsExact
    <3>2. CASE r.asked = "COMPLETED" /\ j \in Subs /\ Parent[j] = i
      <4>1. milestone'[Parent[j]].milestoneStatus = "COMPLETED"
        BY <1>2, <1>15, <3>2
      <4>2. QED
        BY <1>3, <1>13, <1>15, <2>2, <3>1, <3>2, <4>1 DEF Known
    <3>3. CASE ~(r.asked = "COMPLETED" /\ j \in Subs /\ Parent[j] = i)
      <4>1. /\ milestone'[j].milestoneStatus = milestone[j].milestoneStatus
            /\ milestone'[j].revisionsCounter = milestone[j].revisionsCounter
        BY <1>15, <2>2, <3>3
      <4>2. ASSUME j \in Subs, milestone[Parent[j]].milestoneStatus = "COMPLETED"
            PROVE  milestone'[Parent[j]].milestoneStatus = "COMPLETED"
        <5>1. Parent[j] # i /\ Parent[j] \in Items /\ Parent[j] \notin Subs
          BY <1>12, <1>13, <4>2 DEF EndStates
        <5>2. QED
          BY <1>15, <4>2, <5>1
      <4>3. QED
        BY <1>3, <1>13, <3>1, <4>1, <4>2 DEF Known
    <3>4. QED
      BY <3>2, <3>3
  <2>3. QED
    BY <2>1, <2>2
<1>17. RowsExact'
  BY <1>2, <1>3, <1>6, <1>7, <1>8, <1>13, <1>15, <1>16 DEF RowsExact
<1>18. QED
  BY <1>9, <1>10, <1>17

\* Counting and the status of the project leave all of this alone.
LEMMA ExactCounting ==
  ASSUME Inv, Serial, ExactInOrder, InMode({"orderly"}), NEW c \in Calls,
         CountOpen(c) \/ CountWorking(c) \/ UpdateProject(c)
  PROVE  ExactInOrder'
<1> DEFINE r == request[c]
           q == request'[c]
           Later == {"working", "status", "flags"}
<1>1. r.step \in {"open", "working", "status"}
  BY DEF CountOpen, CountWorking, UpdateProject
<1>2. /\ Active = r /\ emitted = {}
      /\ \A d \in Calls : d # c => request[d] = Idle
      /\ r \in Request /\ r.tx \in Transaction /\ r.item \notin r.todo
      /\ request \in [Calls -> Request] /\ RowsType
      /\ Doing /\ RowsExact /\ FundsExact /\ ProjectExact
  BY <1>1, ActiveFacts
<1>3. UNCHANGED <<scenario, chain, emitted, milestone, funds>> /\ AmountKept
  BY <1>2 DEF CountOpen, CountWorking, UpdateProject, chainVars, dbVars, AmountKept, RowsType
<1>4. r.tx.event \in StateEvents /\ r.tx # NoTx
  BY <1>1, <1>2, NoTxFacts DEF Doing
<1>5. /\ request' = [request EXCEPT ![c] = q]
      /\ q.step \in Later /\ q.tx = r.tx /\ q.todo = r.todo /\ q.item = r.item
  <2>1. CASE CountOpen(c)
    <3> DEFINE open == MilestoneIn(MilestoneStatus \ EndStates)
    <3>1. open \in BOOLEAN /\ "working" \in Step /\ GotoWith(c, "working", open)
      BY <2>1 DEF MilestoneIn, CountOpen, Step
    <3> HIDE DEF open
    <3>2. QED
      BY <1>2, <1>4, <3>1, GotoWithFacts
  <2>2. CASE CountWorking(c)
    <3> DEFINE p == [r EXCEPT !.step = "status", !.working = MilestoneIn({"IN_PROGRESS"})]
    <3>1. p.step = "status" /\ p.tx = r.tx /\ p.todo = r.todo /\ p.item = r.item
      BY <1>2 DEF Request
    <3> HIDE DEF p
    <3>2. request' = [request EXCEPT ![c] = q] /\ q = p
      BY <1>2, <2>2 DEF CountWorking, Update, p
    <3>3. QED
      BY <3>1, <3>2
  <2>3. CASE UpdateProject(c)
    <3>1. GotoWith(c, "flags", FALSE)
      BY <1>4, <2>3 DEF UpdateProject
    <3>2. QED
      BY <1>2, <1>4, <3>1, GotoWithFacts DEF Step
  <2>4. QED
    BY <2>1, <2>2, <2>3
<1> HIDE DEF q
<1>6. /\ \A e : Owed(q, e) = Owed(r, e)
      /\ Unpaid(q) = Unpaid(r)
  BY <1>1, <1>4, <1>5, SameDebts DEF StateEvents
<1>7. Unwritten(r) = {} /\ Unwritten(q) = {}
  BY <1>1, <1>5 DEF Unwritten, Deciding
<1>8. SUFFICES ASSUME Active' = q
               PROVE  Doing' /\ RowsExact' /\ FundsExact' /\ ProjectExact'
  BY <1>2, <1>3, <1>5, ActiveNext DEF q
<1>9. RowsExact' /\ FundsExact' /\ ProjectExact'
  BY <1>2, <1>3, <1>5, <1>6, <1>7, <1>8, RowsKept, FundsKept, ProjectKept
<1>10. Active'.tx \in Transaction' /\ AsSent(Active.tx)'
  BY <1>2, <1>3, <1>5, <1>8, TxStays
<1>11. Doing'
  BY <1>2, <1>4, <1>5, <1>8, <1>10 DEF Doing, Deciding, StateEvents
<1>12. QED
  BY <1>9, <1>11

LEMMA ExactUpdateManyFunds ==
  ASSUME Inv, Serial, ExactInOrder, InMode({"orderly"}), NEW c \in Calls, UpdateManyFunds(c)
  PROVE  ExactInOrder'
<1> DEFINE r == request[c]
           q == request'[c]
           i == r.item
           event == r.tx.event
<1>1. r.step = "flags"
  BY DEF UpdateManyFunds
<1>2. /\ Active = r /\ emitted = {}
      /\ \A d \in Calls : d # c => request[d] = Idle
      /\ r.tx \in Transaction /\ r.todo \subseteq r.tx.items /\ Truthful(r.tx, chain)
      /\ i \in r.tx.items /\ i \notin r.todo /\ i \in Items
      /\ request \in [Calls -> Request] /\ scenario \in Scenarios
      /\ RowsType /\ chain \in Chain
      /\ Doing /\ RowsExact /\ FundsExact /\ ProjectExact
  BY <1>1, ActiveFacts
<1>3. /\ UNCHANGED <<scenario, chain, emitted, project>>
      /\ Items' = Items /\ Mains' = Mains /\ Subs' = Subs
  BY SameProject DEF UpdateManyFunds, chainVars
<1>4. /\ event \in Event \ {"FreeBalanceReleased", "MilestoneForceClosed"}
      /\ event \in StateEvents => r.todo = {} /\ chain.state[i] = r.tx.state
      /\ event \in FundEvents => i \in Mains
      /\ event \in {"SubMilestoneStateChanged", "SubMilestoneAdded"} => i \in Subs
  BY <1>2 DEF Doing, AsSent, Transaction
<1>5. /\ request' = [request EXCEPT ![c] = q]
      /\ IF r.todo = {} THEN q = Idle
         ELSE /\ q.step = "event" /\ q.tx = r.tx /\ q.todo = r.todo
              /\ q.forProject = r.forProject
  <2>1. CASE r.todo = {}
    BY <1>2, <2>1, ReturnFacts DEF UpdateManyFunds, NextEvent
  <2>2. CASE r.todo # {}
    BY <1>2, <2>2, GotoWithFacts DEF UpdateManyFunds, NextEvent, Step
  <2>3. QED
    BY <2>1, <2>2
<1> HIDE DEF q
<1>6. \A e \in Event : /\ Owed(r, e) = IF event = e THEN r.todo \cup {i} ELSE {}
                       /\ Owed(q, e) = IF event = e THEN r.todo ELSE {}
  BY <1>1, <1>5, IdleOwes DEF Owed
<1>7. Unpaid(q) = Unpaid(r)
  <2>1. Unpaid(r) = IF event = "MilestoneFunded" THEN r.todo ELSE {}
    BY <1>1, <1>2, <1>6 DEF Unpaid, Event
  <2>2. Unpaid(q) = IF event = "MilestoneFunded" THEN r.todo ELSE {}
    BY <1>5, <1>6, IdleFacts DEF Unpaid, Event
  <2>3. QED
    BY <2>1, <2>2
<1>8. Unwritten(r) = {} /\ Unwritten(q) = {}
  BY <1>1, <1>4, <1>5, IdleOwes DEF Unwritten, Deciding
<1>9. SUFFICES ASSUME Active' = q
               PROVE  Doing' /\ RowsExact' /\ FundsExact' /\ ProjectExact'
  BY <1>2, <1>3, <1>5, ActiveNext DEF q
<1>10. Doing'
  <2>1. CASE q = Idle
    BY <1>9, <2>1, DoingNothing
  <2>2. CASE q # Idle
    <3>1. Active'.tx \in Transaction' /\ AsSent(Active.tx)'
      BY <1>2, <1>3, <1>5, <1>9, <2>2, TxStays
    <3>2. QED
      BY <1>2, <1>3, <1>5, <1>9, <2>2, <3>1 DEF Doing, Deciding
  <2>3. QED
    BY <2>1, <2>2
<1>11. ProjectExact'
  <2>1. q.tx.event # "FreeBalanceReleased"
    BY <1>4, <1>5, IdleFacts, NoTxFacts
  <2>2. QED
    BY <1>2, <1>3, <1>4, <1>7, <1>9, <2>1, ProjectKept DEF AmountKept
<1>12. RowsExact'
  <2>1. ASSUME NEW j \in Items
        PROVE  /\ milestone'[j].milestoneStatus = milestone[j].milestoneStatus
               /\ milestone'[j].revisionsCounter = milestone[j].revisionsCounter
               /\ milestone'[j].isDeployedOnContract <=>
                    \/ milestone[j].isDeployedOnContract
                    \/ event = "SubMilestoneAdded" /\ j = i
    <3>1. CASE event = "SubMilestoneAdded"
      <4>1. milestone' = [milestone EXCEPT ![i].isDeployedOnContract = TRUE]
        BY <3>1 DEF UpdateManyFunds
      <4>2. QED
        BY <1>2, <3>1, <4>1 DEF RowsType
    <3>2. CASE event # "SubMilestoneAdded"
      BY <3>2 DEF UpdateManyFunds
    <3>3. QED
      BY <3>1, <3>2
  <2>2. ASSUME NEW j \in Items
        PROVE  Known(j)'
    <3>1. Known(j)
      BY <1>2, <1>8 DEF RowsExact
    <3>2. j \in Subs => Parent[j] \in Items
      BY <1>2, ProjectFacts
    <3>3. QED
      BY <1>3, <2>1, <3>1, <3>2 DEF Known
  <2>3. ASSUME NEW j \in Items
        PROVE  milestone'[j].isDeployedOnContract <=>
                 j \in Subs /\ j \in chain.added \ Owed(q, "SubMilestoneAdded")
    <3>1. event = "SubMilestoneAdded" => i \in Subs /\ i \in chain.added
      BY <1>2, <1>4 DEF Truthful
    <3>2. milestone[j].isDeployedOnContract <=>
            j \in Subs /\ j \in chain.added \ Owed(r, "SubMilestoneAdded")
      BY <1>2 DEF RowsExact
    <3>3. QED
      BY <1>2, <1>6, <2>1, <3>1, <3>2 DEF Event
  <2>4. QED
    BY <1>3, <1>8, <1>9, <2>2, <2>3 DEF RowsExact
<1>13. funds' = [j \in Items |-> IF j \in Flagged(r.tx, i) THEN Flags(r.tx, funds[j])
                                 ELSE funds[j]]
  BY DEF UpdateManyFunds
<1>14. CASE event \notin FundEvents
  <2>1. event \in {"SubMilestoneStateChanged", "SubMilestoneAdded"}
    BY <1>4, <1>14 DEF Event, FundEvents
  <2>2. \A j \in Items : Flags(r.tx, funds[j]) = funds[j]
    BY <2>1 DEF Flags
  <2>3. funds' = funds
    BY <1>2, <1>13, <2>2 DEF RowsType
  <2>4. \A e \in FundEvents : Owed(q, e) = Owed(r, e)
    BY <1>6, <1>14 DEF Event, FundEvents
  <2>5. FundsExact'
    BY <1>2, <1>3, <1>9, <2>3, <2>4, FundsKept
  <2>6. QED
    BY <1>10, <1>11, <1>12, <2>5
<1>15. CASE event \in FundEvents
  <2>1. i \in Mains
    BY <1>4, <1>15
  <2>2. /\ Mains \subseteq Items /\ Mains \cap Subs = {} /\ Subs \subseteq Items
    BY <1>2, ProjectFacts
  <2> DEFINE paid(m) == m \in chain.paid \ Owed(r, "MilestonePayout")
             settled(m) == m \in chain.settled \ Owed(r, "RoyaltyPaid")
             newPaid(m) == m \in chain.paid \ Owed(q, "MilestonePayout")
             newSettled(m) == m \in chain.settled \ Owed(q, "RoyaltyPaid")
             Before(m, p, s) ==
               /\ funds[m].fundTranscationIdToEscrow <=>
                    m \in chain.funded \ Owed(r, "MilestoneFunded")
               /\ funds[m].enableFundTransfer <=>
                    /\ chain.state[m] = "COMPLETED" /\ ~p
                    /\ m \notin Owed(r, "MilestoneStateChanged")
               /\ funds[m].enableRoyalityTransfer <=> p /\ ~s
               /\ funds[m].royalityTransferred <=> s
               /\ \A j \in {m} \cup SubsOf(m) : funds[j].fundTransferred <=> p
             After(m, p, s) ==
               /\ funds'[m].fundTranscationIdToEscrow <=>
                    m \in chain.funded \ Owed(q, "MilestoneFunded")
               /\ funds'[m].enableFundTransfer <=>
                    /\ chain.state[m] = "COMPLETED" /\ ~p
                    /\ m \notin Owed(q, "MilestoneStateChanged")
               /\ funds'[m].enableRoyalityTransfer <=> p /\ ~s
               /\ funds'[m].royalityTransferred <=> s
               /\ \A j \in {m} \cup SubsOf(m) : funds'[j].fundTransferred <=> p
  <2>3. ASSUME NEW m \in Mains
        PROVE  /\ Before(m, paid(m), settled(m))
               /\ m \in chain.paid => /\ chain.state[m] = "COMPLETED"
                                      /\ m \notin Owed(r, "MilestoneStateChanged")
               /\ m \in Owed(r, "MilestonePayout") => m \notin chain.settled
    BY <1>2 DEF FundsExact, FlagsExact
  <2>4. /\ Owed(r, "MilestoneFunded") = IF event = "MilestoneFunded" THEN r.todo \cup {i} ELSE {}
        /\ Owed(q, "MilestoneFunded") = IF event = "MilestoneFunded" THEN r.todo ELSE {}
        /\ Owed(r, "MilestonePayout") = IF event = "MilestonePayout" THEN r.todo \cup {i} ELSE {}
        /\ Owed(q, "MilestonePayout") = IF event = "MilestonePayout" THEN r.todo ELSE {}
        /\ Owed(r, "RoyaltyPaid") = IF event = "RoyaltyPaid" THEN r.todo \cup {i} ELSE {}
        /\ Owed(q, "RoyaltyPaid") = IF event = "RoyaltyPaid" THEN r.todo ELSE {}
        /\ Owed(r, "MilestoneStateChanged") =
             IF event = "MilestoneStateChanged" THEN r.todo \cup {i} ELSE {}
        /\ Owed(q, "MilestoneStateChanged") =
             IF event = "MilestoneStateChanged" THEN r.todo ELSE {}
    BY <1>6 DEF Event
  <2>5. ASSUME NEW m \in Mains, m # i
        PROVE  After(m, newPaid(m), newSettled(m))
    <3>1. \A j \in {m} \cup SubsOf(m) : j \notin Flagged(r.tx, i) /\ j \in Items
      BY <2>1, <2>2, <2>5 DEF Flagged, SubsOf
    <3>2. \A j \in {m} \cup SubsOf(m) : funds'[j] = funds[j]
      BY <1>13, <3>1
    <3>3. (newPaid(m) <=> paid(m)) /\ (newSettled(m) <=> settled(m))
      BY <2>4, <2>5
    <3>4. Before(m, newPaid(m), newSettled(m))
      BY <2>3, <3>3
    <3>5. QED
      BY <2>4, <2>5, <3>2, <3>4
  <2>6. After(i, newPaid(i), newSettled(i))
    <3>1. Before(i, paid(i), settled(i))
      BY <2>1, <2>3
    <3>2. funds'[i] = Flags(r.tx, funds[i])
      BY <1>2, <1>13 DEF Flagged
    <3>3. ASSUME event # "MilestonePayout", NEW j \in SubsOf(i)
          PROVE  funds'[j] = funds[j]
      BY <1>13, <2>1, <2>2, <3>3 DEF Flagged, SubsOf
    <3>4. funds[i] \in [fundTranscationIdToEscrow : BOOLEAN,
                        enableFundTransfer : BOOLEAN,
                        fundTransferred : BOOLEAN,
                        enableRoyalityTransfer : BOOLEAN,
                        royalityTransferred : BOOLEAN]
      BY <1>2 DEF RowsType
    <3>5. CASE event = "MilestoneFunded"
      <4>1. funds'[i] = [funds[i] EXCEPT !.fundTranscationIdToEscrow = TRUE]
        BY <3>2, <3>5 DEF Flags
      <4>2. i \in chain.funded
        BY <1>2, <3>5 DEF Truthful
      <4>3. QED
        BY <1>2, <2>4, <3>1, <3>3, <3>4, <3>5, <4>1, <4>2
    <3>6. CASE event = "MilestoneStateChanged"
      <4>1. i \notin chain.paid /\ chain.state[i] = r.tx.state
        BY <1>4, <2>1, <2>3, <2>4, <3>6 DEF StateEvents
      <4>2. CASE r.tx.state = "COMPLETED"
        <5>1. funds'[i] = [funds[i] EXCEPT !.enableFundTransfer = TRUE]
          BY <3>2, <3>6, <4>2 DEF Flags
        <5>2. QED
          BY <1>2, <2>4, <3>1, <3>3, <3>4, <3>6, <4>1, <4>2, <5>1
      <4>3. CASE r.tx.state # "COMPLETED"
        <5>1. funds'[i] = funds[i]
          BY <3>2, <3>6, <4>3 DEF Flags
        <5>2. QED
          BY <1>2, <2>4, <3>1, <3>3, <3>4, <3>6, <4>1, <4>3, <5>1
      <4>4. QED
        BY <4>2, <4>3
    <3>7. CASE event = "MilestonePayout"
      <4>1. funds'[i] = [funds[i] EXCEPT !.enableFundTransfer = FALSE, !.fundTransferred = TRUE,
                                         !.enableRoyalityTransfer = TRUE]
        BY <3>2, <3>7 DEF Flags
      <4>2. i \in chain.paid /\ i \notin chain.settled
        BY <1>2, <2>1, <2>3, <2>4, <3>7 DEF Truthful
      <4>3. ASSUME NEW j \in SubsOf(i)
            PROVE  funds'[j].fundTransferred
        <5>1. j \in Items /\ j \in Flagged(r.tx, i)
          BY <2>2, <3>7 DEF Flagged, SubsOf
        <5>2. funds'[j] = [funds[j] EXCEPT !.enableFundTransfer = FALSE,
                             !.fundTransferred = TRUE, !.enableRoyalityTransfer = TRUE]
          BY <1>13, <3>7, <5>1 DEF Flags
        <5>3. QED
          BY <1>2, <5>1, <5>2 DEF RowsType
      <4>4. QED
        BY <1>2, <2>4, <3>1, <3>4, <3>7, <4>1, <4>2, <4>3
    <3>8. CASE event = "RoyaltyPaid"
      <4>1. funds'[i] = [funds[i] EXCEPT !.enableRoyalityTransfer = FALSE,
                                         !.royalityTransferred = TRUE]
        BY <3>2, <3>8 DEF Flags
      <4>2. i \in chain.settled
        BY <1>2, <3>8 DEF Truthful
      <4>3. QED
        BY <1>2, <2>4, <3>1, <3>3, <3>4, <3>8, <4>1, <4>2
    <3>9. QED
      BY <1>15, <3>5, <3>6, <3>7, <3>8 DEF FundEvents
  <2>7. ASSUME NEW m \in Mains
        PROVE  /\ After(m, newPaid(m), newSettled(m))
               /\ m \in chain.paid => /\ chain.state[m] = "COMPLETED"
                                      /\ m \notin Owed(q, "MilestoneStateChanged")
               /\ m \in Owed(q, "MilestonePayout") => m \notin chain.settled
    <3>1. After(m, newPaid(m), newSettled(m))
      BY <2>5, <2>6
    <3>2. QED
      BY <2>3, <2>4, <3>1
  <2>8. \A m : SubsOf(m)' = SubsOf(m)
    BY <1>3 DEF SubsOf
  <2>9. FundsExact'
    BY <1>3, <1>9, <2>7, <2>8 DEF FundsExact, FlagsExact
  <2>10. QED
    BY <1>10, <1>11, <1>12, <2>9
<1>16. QED
  BY <1>14, <1>15

-----------------------------------------------------------------------------
(* The transactions clients send, once everything before was reported.     *)

\* Between the requests the copy is exact.
AtRest ==
  /\ Active = Idle
  /\ \A i \in Items :
       /\ Known(i)
       /\ milestone[i].isDeployedOnContract <=> i \in Subs /\ i \in chain.added
  /\ \A m \in Mains :
       /\ funds[m].fundTranscationIdToEscrow <=> m \in chain.funded
       /\ funds[m].enableFundTransfer <=> chain.state[m] = "COMPLETED" /\ m \notin chain.paid
       /\ funds[m].enableRoyalityTransfer <=> m \in chain.paid \ chain.settled
       /\ funds[m].royalityTransferred <=> m \in chain.settled
       /\ \A i \in {m} \cup SubsOf(m) : funds[i].fundTransferred <=> m \in chain.paid
       /\ m \in chain.paid => chain.state[m] = "COMPLETED"
  /\ Counted = chain.funded
  /\ project.freeBalanceReleased <=> chain.released
  /\ Exact

LEMMA RestIsExact ==
  ASSUME Inv, ExactInOrder, InMode({"orderly"}), emitted = {}, AllIdle
  PROVE  AtRest
<1>1. Active = Idle /\ Exact
  BY NothingActive DEF ExactInOrder
<1>2. /\ Unpaid(Active) = {} /\ Unwritten(Active) = {}
      /\ Owed(Active, "MilestoneFunded") = {} /\ Owed(Active, "MilestoneStateChanged") = {}
      /\ Owed(Active, "MilestonePayout") = {} /\ Owed(Active, "RoyaltyPaid") = {}
      /\ Owed(Active, "SubMilestoneAdded") = {}
      /\ Active.tx.event # "FreeBalanceReleased"
  BY <1>1, IdleOwes, IdleFacts, NoTxFacts DEF Event
<1>3. Counted = chain.funded
  BY <1>2 DEF Inv, Chain, Counted
<1>4. \A i \in Items :
        /\ Known(i)
        /\ milestone[i].isDeployedOnContract <=> i \in Subs /\ i \in chain.added
  BY <1>1, <1>2 DEF Exact, RowsExact
<1>5. ASSUME NEW m \in Mains
      PROVE  /\ funds[m].fundTranscationIdToEscrow <=> m \in chain.funded
             /\ funds[m].enableFundTransfer <=>
                  chain.state[m] = "COMPLETED" /\ m \notin chain.paid
             /\ funds[m].enableRoyalityTransfer <=> m \in chain.paid \ chain.settled
             /\ funds[m].royalityTransferred <=> m \in chain.settled
             /\ \A i \in {m} \cup SubsOf(m) : funds[i].fundTransferred <=> m \in chain.paid
             /\ m \in chain.paid => chain.state[m] = "COMPLETED"
  BY <1>1, <1>2 DEF Exact, FundsExact, FlagsExact
<1>6. QED
  BY <1>1, <1>2, <1>3, <1>4, <1>5 DEF AtRest, Exact, ProjectExact

\* Sending tx, which is then what happens next.
Sent(tx) ==
  /\ Inv /\ AtRest /\ emitted = {} /\ AllIdle
  /\ UNCHANGED <<scenario, milestone, funds, project, request>>
  /\ tx \in Transaction /\ emitted' = {tx}

LEMMA SentFacts ==
  ASSUME NEW tx, Sent(tx)
  PROVE  /\ Active' = Reported(tx, scenario) /\ Active'.tx = tx
         /\ \A e : Owed(Active', e) = IF tx.event = e THEN tx.items ELSE {}
         /\ Unpaid(Active') = IF tx.event = "MilestoneFunded" THEN tx.items ELSE {}
         /\ Unwritten(Active') = IF tx.event \in StateEvents THEN tx.items ELSE {}
         /\ Active = Idle /\ Active.tx.event = "none"
         /\ Unpaid(Active) = {} /\ Unwritten(Active) = {}
         /\ \A e \in Event : Owed(Active, e) = {}
         /\ scenario \in Scenarios /\ chain \in Chain /\ AmountKept
         /\ chain.settled \subseteq chain.paid
         /\ RowsExact /\ FundsExact /\ ProjectExact
         /\ Items' = Items /\ Mains' = Mains /\ Subs' = Subs
         /\ Mains \subseteq Items /\ Subs \subseteq Items
         /\ Items = Mains \cup Subs /\ Mains \cap Subs = {}
         /\ \A s \in Subs : Parent[s] \in Mains
<1>1. Active' = Reported(tx, scenario) /\ tx \in Transaction
  BY SentActive DEF Sent
<1>2. scenario \in Scenarios /\ chain \in Chain /\ chain.settled \subseteq chain.paid
  BY DEF Sent, Inv, TypeOK
<1>3. Items' = Items /\ Mains' = Mains /\ Subs' = Subs
  BY SameProject DEF Sent
<1>4. Active = Idle /\ RowsExact /\ FundsExact /\ ProjectExact /\ AmountKept
  BY DEF Sent, AtRest, Exact, AmountKept
<1>5. QED
  BY <1>1, <1>2, <1>3, <1>4, ReportedFacts, IdleOwes, IdleFacts, NoTxFacts, ProjectFacts

LEMMA SentNext ==
  ASSUME NEW tx, Sent(tx), AsSent(tx)', RowsExact', FundsExact', ProjectExact'
  PROVE  ExactInOrder'
<1>1. /\ Active' = Reported(tx, scenario) /\ Active'.tx = tx
      /\ Active'.step = "event" /\ tx \in Transaction
      /\ tx.event = "MilestoneFunded" =>
           (Active'.forProject <=> scenario.fundingType = "PROJECT")
  BY SentFacts, ReportedFacts DEF Sent
<1>2. Transaction' = Transaction /\ scenario' = scenario
  BY SameProject DEF Sent
<1>3. Doing'
  BY <1>1, <1>2 DEF Doing, Deciding
<1>4. Single'
  BY DEF Sent, Single, AllIdle
<1>5. QED
  BY <1>3, <1>4 DEF ExactInOrder, Exact

LEMMA SendFunding ==
  ASSUME NEW ms \in SUBSET Mains, Sent(Tx("MilestoneFunded", ms, "FUNDED")), Fresh(ms),
         scenario.fundingType = "PROJECT" => ms = Mains,
         chain' = [chain EXCEPT !.state = Funded(ms), !.funded = @ \cup ms]
  PROVE  ExactInOrder'
<1> DEFINE tx == Tx("MilestoneFunded", ms, "FUNDED")
<1>1. tx.event = "MilestoneFunded" /\ tx.items = ms /\ tx.state = "FUNDED"
  BY DEF Tx
<1> HIDE DEF tx
<1>2. /\ Active'.tx = tx
      /\ \A e \in Event : Owed(Active, e) = {}
      /\ \A e : Owed(Active', e) = IF e = "MilestoneFunded" THEN ms ELSE {}
      /\ Unpaid(Active') = ms /\ Unwritten(Active') = {} /\ AmountKept
      /\ Unpaid(Active) = {} /\ Unwritten(Active) = {} /\ Active.tx.event = "none"
      /\ scenario \in Scenarios /\ chain \in Chain
      /\ RowsExact /\ FundsExact /\ ProjectExact
      /\ Items' = Items /\ Mains' = Mains /\ Subs' = Subs
      /\ Mains \subseteq Items /\ Mains \cap Subs = {}
  BY <1>1, SentFacts DEF tx, StateEvents
<1>3. /\ UNCHANGED <<scenario, milestone, funds, project>> /\ AtRest
  BY DEF Sent
<1>4. /\ chain'.state = Funded(ms) /\ chain'.funded = chain.funded \cup ms
      /\ chain'.revisionCounter = chain.revisionCounter /\ chain'.added = chain.added
      /\ chain'.paid = chain.paid /\ chain'.settled = chain.settled
      /\ chain'.released = chain.released
  BY <1>2 DEF Chain
<1>5. /\ ms \cap chain.funded = {}
      /\ \A m \in ms : chain.state[m] = "INIT" /\ milestone[m].milestoneStatus = "INIT"
  BY DEF Fresh
<1>6. AsSent(tx)'
  BY <1>1, <1>2, <1>3 DEF AsSent, StateEvents
<1>7. ASSUME NEW i \in Items
      PROVE  /\ i \in ms => chain'.state[i] = "FUNDED"
             /\ i \notin ms => \/ chain'.state[i] = chain.state[i]
                               \/ i \in Subs /\ chain'.state[i] = "FUNDED"
  BY <1>4 DEF Funded
<1>8. RowsExact'
  <2>1. ASSUME NEW i \in Items
        PROVE  Known(i)'
    <3>1. Known(i)
      BY <1>3 DEF AtRest
    <3>2. QED
      BY <1>2, <1>3, <1>4, <1>5, <1>7, <3>1 DEF Known, Stored
  <2>2. Owed(Active', "SubMilestoneAdded") = {} /\ Owed(Active, "SubMilestoneAdded") = {}
    BY <1>2 DEF Event
  <2>3. QED
    BY <1>2, <1>3, <1>4, <2>1, <2>2 DEF RowsExact
<1>9. FundsExact'
  <2>1. /\ Owed(Active', "MilestoneFunded") = ms /\ Owed(Active', "MilestoneStateChanged") = {}
        /\ Owed(Active', "MilestonePayout") = {} /\ Owed(Active', "RoyaltyPaid") = {}
    BY <1>2
  <2>2. \A m \in Mains : chain'.state[m] = "COMPLETED" <=> chain.state[m] = "COMPLETED"
    BY <1>2, <1>5, <1>7
  <2>3. \A m : SubsOf(m)' = SubsOf(m)
    BY <1>2 DEF SubsOf
  <2>4. QED
    BY <1>2, <1>3, <1>4, <1>5, <2>1, <2>2, <2>3 DEF AtRest, FundsExact, FlagsExact
<1>10. ProjectExact'
  <2>1. Counted' = chain.funded
    BY <1>2, <1>3, <1>4, <1>5 DEF Counted, Chain
  <2>2. Counted = chain.funded
    BY <1>3 DEF AtRest
  <2>3. /\ totalProjectFund' = totalProjectFund
        /\ SumOfPrices(Counted)' = SumOfPrices(Counted)
    BY <1>2, <2>1, <2>2, Amounts
  <2>4. QED
    BY <1>1, <1>2, <1>3, <1>4, <2>1, <2>2, <2>3 DEF ProjectExact, Whole
<1>11. QED
  BY <1>6, <1>8, <1>9, <1>10, SentNext DEF tx

LEMMA SendSubMilestone ==
  ASSUME NEW s \in Subs, Sent(Tx("SubMilestoneAdded", {s}, "INIT")), s \notin chain.added,
         NEW state \in {"INIT", "FUNDED"},
         chain' = [chain EXCEPT !.added = @ \cup {s}, !.state[s] = state]
  PROVE  ExactInOrder'
<1> DEFINE tx == Tx("SubMilestoneAdded", {s}, "INIT")
<1>1. tx.event = "SubMilestoneAdded" /\ tx.items = {s}
  BY DEF Tx
<1> HIDE DEF tx
<1>2. /\ Active'.tx = tx
      /\ \A e \in Event : Owed(Active, e) = {}
      /\ \A e : Owed(Active', e) = IF e = "SubMilestoneAdded" THEN {s} ELSE {}
      /\ Unpaid(Active') = {} /\ Unwritten(Active') = {} /\ AmountKept
      /\ Unpaid(Active) = {} /\ Unwritten(Active) = {} /\ Active.tx.event = "none"
      /\ chain \in Chain /\ Mains \subseteq Items /\ Mains \cap Subs = {}
      /\ RowsExact /\ FundsExact /\ ProjectExact
      /\ Items' = Items /\ Mains' = Mains /\ Subs' = Subs
  BY <1>1, SentFacts DEF tx, StateEvents
<1>3. UNCHANGED <<scenario, milestone, funds, project>> /\ AtRest
  BY DEF Sent
<1>4. /\ chain'.state = [chain.state EXCEPT ![s] = state]
      /\ chain.state[s] = "INIT" /\ chain'.funded = chain.funded
      /\ chain'.revisionCounter = chain.revisionCounter
      /\ chain'.added = chain.added \cup {s}
      /\ chain'.paid = chain.paid /\ chain'.settled = chain.settled
      /\ chain'.released = chain.released
  BY <1>2 DEF Chain, Sent, Inv, Unadded
<1>5. AsSent(tx)'
  BY <1>1, <1>2, <1>3 DEF AsSent, StateEvents, FundEvents
<1>6. RowsExact'
  <2>1. \A i \in Items : Known(i)'
    BY <1>2, <1>3, <1>4 DEF AtRest, Known, Chain, Stored, Subs
  <2>2. Owed(Active', "SubMilestoneAdded") = {s}
    BY <1>2
  <2>3. QED
    BY <1>2, <1>3, <1>4, <2>1, <2>2 DEF RowsExact, AtRest
<1>7. FundsExact'
  <2>1. /\ Owed(Active', "MilestoneFunded") = {} /\ Owed(Active', "MilestoneStateChanged") = {}
        /\ Owed(Active', "MilestonePayout") = {} /\ Owed(Active', "RoyaltyPaid") = {}
    BY <1>2
  <2>2. \A m \in Mains : chain'.state[m] = chain.state[m]
    BY <1>2, <1>4 DEF Chain
  <2>3. \A m : SubsOf(m)' = SubsOf(m)
    BY <1>2 DEF SubsOf
  <2>4. QED
    BY <1>2, <1>3, <1>4, <2>1, <2>2, <2>3 DEF AtRest, FundsExact, FlagsExact
<1>8. ProjectExact'
  BY <1>1, <1>2, <1>3, <1>4, ProjectKept
<1>9. QED
  BY <1>5, <1>6, <1>7, <1>8, SentNext DEF tx

\* A change of state is sent only if the server accepts it, so no milestone is
\* changed that is completed, let alone paid.
LEMMA SendState ==
  ASSUME NEW i \in Items, NEW state \in States, NEW event,
         event = IF i \in Mains THEN "MilestoneStateChanged"
                 ELSE "SubMilestoneStateChanged",
         Sent(Tx(event, {i}, state)),
         Accepts(Sender(i, Stored(state)), i, milestone[i], Stored(state)),
         changeState(i, state)
  PROVE  ExactInOrder'
<1> DEFINE tx == Tx(event, {i}, state)
<1>1. tx.event = event /\ tx.items = {i} /\ tx.state = state
      /\ event \in StateEvents /\ event # "MilestoneFunded"
  BY DEF Tx, StateEvents
<1> HIDE DEF tx
<1>2. /\ Active'.tx = tx
      /\ \A e \in Event : Owed(Active, e) = {}
      /\ \A e : Owed(Active', e) = IF e = event THEN {i} ELSE {}
      /\ Unpaid(Active') = {} /\ Unwritten(Active') = {i} /\ AmountKept
      /\ Unpaid(Active) = {} /\ Unwritten(Active) = {} /\ Active.tx.event = "none"
      /\ scenario \in Scenarios /\ chain \in Chain
      /\ RowsExact /\ FundsExact /\ ProjectExact
      /\ Items' = Items /\ Mains' = Mains /\ Subs' = Subs
      /\ Mains \subseteq Items /\ Items = Mains \cup Subs /\ Mains \cap Subs = {}
      /\ \A s \in Subs : Parent[s] \in Mains
  BY <1>1, SentFacts DEF tx
<1>3. UNCHANGED <<scenario, milestone, funds, project>> /\ AtRest
  BY DEF Sent
<1> DEFINE newState == IF state = "FUNDED" THEN Funded({i})
                       ELSE [chain.state EXCEPT ![i] = state]
           newCounter == [chain.revisionCounter EXCEPT
                            ![i] = IF state = "REWORK" THEN @ + 1 ELSE @]
           newCompleted == IF state = "COMPLETED" THEN chain.completed \cup {i}
                           ELSE chain.completed
<1>4. chain' = [chain EXCEPT !.state = newState, !.revisionCounter = newCounter,
                             !.completed = newCompleted]
  BY <1>2 DEF changeState, Chain
<1>5. /\ newState[i] = state
      /\ \A j \in Items : j # i => \/ newState[j] = chain.state[j]
                                   \/ j \in Subs /\ newState[j] = "FUNDED"
  BY <1>2 DEF Funded, Chain
<1>6. /\ newCounter[i] = chain.revisionCounter[i] + IF state = "REWORK" THEN 1 ELSE 0
      /\ \A j \in Items : j # i => newCounter[j] = chain.revisionCounter[j]
  BY <1>2 DEF Chain
<1> HIDE DEF newState, newCounter, newCompleted
<1>7. /\ chain'.state = newState /\ chain'.revisionCounter = newCounter
      /\ chain'.added = chain.added /\ chain'.funded = chain.funded
      /\ chain'.paid = chain.paid /\ chain'.settled = chain.settled
      /\ chain'.released = chain.released
  BY <1>2, <1>4 DEF Chain
<1>8. AsSent(tx)'
  <2>1. event = "SubMilestoneStateChanged" => i \in Subs
    BY <1>2
  <2>2. event \in FundEvents => i \in Mains
    BY DEF FundEvents
  <2>3. /\ event \notin {"SubMilestoneAdded", "FreeBalanceReleased", "MilestoneForceClosed"}
        /\ i \in Items' /\ tx.items = {i} /\ chain'.state[i] = tx.state
    BY <1>1, <1>2, <1>5, <1>7 DEF StateEvents
  <2>4. /\ tx.event \in FundEvents => tx.items \subseteq Mains'
        /\ tx.event \in {"SubMilestoneStateChanged", "SubMilestoneAdded"} =>
             tx.items \subseteq Subs'
        /\ tx.event \notin {"MilestoneFunded", "FreeBalanceReleased", "MilestoneForceClosed"}
    BY <1>1, <1>2, <2>1, <2>2, <2>3
  <2>5. QED
    BY <2>3, <2>4 DEF AsSent
<1>9. RowsExact'
  <2>1. Coming(i)'
    <3>1. Accepts(Sender(i, Stored(state)), i, milestone[i], Stored(state))'
      BY <1>2, <1>3 DEF Accepts, Sender, Permitted
    <3>2. chain.revisionCounter[i] = milestone[i].revisionsCounter
      BY <1>3 DEF AtRest, Known
    <3>3. QED
      BY <1>1, <1>2, <1>3, <1>6, <1>7, <3>1, <3>2 DEF Coming
  <2>2. ASSUME NEW j \in Items, j # i
        PROVE  Known(j)'
    BY <1>2, <1>3, <1>5, <1>6, <1>7, <2>2 DEF AtRest, Known
  <2>3. Owed(Active', "SubMilestoneAdded") = {}
    BY <1>2
  <2>4. QED
    BY <1>2, <1>3, <1>7, <2>1, <2>2, <2>3 DEF RowsExact, AtRest
<1>10. i \in Mains => i \notin chain.paid /\ chain.state[i] # "COMPLETED"
  <2> SUFFICES ASSUME i \in Mains PROVE chain.state[i] # "COMPLETED"
    BY <1>3 DEF AtRest
  <2>1. milestone[i].milestoneStatus = Stored(chain.state[i])
    BY <1>2, <1>3 DEF AtRest, Known
  <2>2. QED
    BY <2>1 DEF Accepts, Stored, EndStates
<1>11. FundsExact'
  <2>1. /\ Owed(Active', "MilestoneFunded") = {} /\ Owed(Active', "MilestonePayout") = {}
        /\ Owed(Active', "RoyaltyPaid") = {}
        /\ \A m \in Mains : m \in Owed(Active', "MilestoneStateChanged") <=> m = i
    BY <1>2
  <2>2. \A m \in Mains : m # i => chain'.state[m] = chain.state[m]
    BY <1>2, <1>5, <1>7
  <2>3. \A m : SubsOf(m)' = SubsOf(m)
    BY <1>2 DEF SubsOf
  <2>4. ASSUME NEW m \in Mains, m # i
        PROVE  /\ FlagsExact(m, m \in chain.paid, m \in chain.settled)'
               /\ m \in chain'.paid => chain'.state[m] = "COMPLETED"
    BY <1>3, <1>7, <2>1, <2>2, <2>3, <2>4 DEF AtRest, FlagsExact
  <2>5. i \in Mains => FlagsExact(i, i \in chain.paid, i \in chain.settled)'
    BY <1>3, <1>7, <1>10, <2>1, <2>3 DEF AtRest, FlagsExact
  <2>6. QED
    BY <1>2, <1>7, <1>10, <2>1, <2>4, <2>5 DEF FundsExact
<1>12. ProjectExact'
  BY <1>1, <1>2, <1>3, <1>7, ProjectKept DEF StateEvents
<1>13. QED
  BY <1>8, <1>9, <1>11, <1>12, SentNext DEF tx

LEMMA SendPayout ==
  ASSUME NEW ms \in SUBSET Mains, Sent(Tx("MilestonePayout", ms, "COMPLETED")), Payable(ms),
         chain' = [chain EXCEPT !.paid = @ \cup ms]
  PROVE  ExactInOrder'
<1> DEFINE tx == Tx("MilestonePayout", ms, "COMPLETED")
<1>1. tx.event = "MilestonePayout" /\ tx.items = ms
  BY DEF Tx
<1> HIDE DEF tx
<1>2. /\ Active'.tx = tx
      /\ \A e \in Event : Owed(Active, e) = {}
      /\ \A e : Owed(Active', e) = IF e = "MilestonePayout" THEN ms ELSE {}
      /\ Unpaid(Active') = {} /\ Unwritten(Active') = {} /\ AmountKept
      /\ Unpaid(Active) = {} /\ Unwritten(Active) = {} /\ Active.tx.event = "none"
      /\ chain \in Chain /\ chain.settled \subseteq chain.paid
      /\ RowsExact /\ FundsExact /\ ProjectExact
      /\ Items' = Items /\ Mains' = Mains /\ Subs' = Subs
  BY <1>1, SentFacts DEF tx, StateEvents
<1>3. UNCHANGED <<scenario, milestone, funds, project>> /\ AtRest
  BY DEF Sent
<1>4. /\ chain'.state = chain.state /\ chain'.funded = chain.funded
      /\ chain'.revisionCounter = chain.revisionCounter /\ chain'.added = chain.added
      /\ chain'.paid = chain.paid \cup ms /\ chain'.settled = chain.settled
      /\ chain'.released = chain.released
  BY <1>2 DEF Chain
<1>5. \A m \in ms : chain.state[m] = "COMPLETED" /\ m \notin chain.paid /\ m \notin chain.settled
  BY <1>2 DEF Payable
<1>6. AsSent(tx)'
  BY <1>1, <1>2, <1>3 DEF AsSent, StateEvents
<1>7. RowsExact'
  BY <1>2, <1>3, <1>4, RowsKept DEF Event
<1>8. FundsExact'
  <2>1. /\ Owed(Active', "MilestoneFunded") = {} /\ Owed(Active', "MilestoneStateChanged") = {}
        /\ Owed(Active', "MilestonePayout") = ms /\ Owed(Active', "RoyaltyPaid") = {}
    BY <1>2
  <2>2. \A m : SubsOf(m)' = SubsOf(m)
    BY <1>2 DEF SubsOf
  <2>3. ASSUME NEW m \in Mains
        PROVE  /\ m \in chain'.paid \ ms <=> m \in chain.paid
               /\ m \in chain'.paid => chain'.state[m] = "COMPLETED"
               /\ m \in ms => m \notin chain'.settled
    BY <1>3, <1>4, <1>5 DEF AtRest
  <2>4. ASSUME NEW m \in Mains
        PROVE  FlagsExact(m, m \in chain.paid \ ms, m \in chain.settled)'
    BY <1>3, <1>4, <2>1, <2>2, <2>3 DEF AtRest, FlagsExact
  <2>5. QED
    BY <1>2, <2>1, <2>3, <2>4 DEF FundsExact
<1>9. ProjectExact'
  BY <1>1, <1>2, <1>3, <1>4, ProjectKept
<1>10. QED
  BY <1>6, <1>7, <1>8, <1>9, SentNext DEF tx

LEMMA SendRoyalty ==
  ASSUME NEW m \in Mains, Sent(Tx("RoyaltyPaid", {m}, "COMPLETED")),
         m \in chain.paid \ chain.settled,
         chain' = [chain EXCEPT !.settled = @ \cup {m}]
  PROVE  ExactInOrder'
<1> DEFINE tx == Tx("RoyaltyPaid", {m}, "COMPLETED")
<1>1. tx.event = "RoyaltyPaid" /\ tx.items = {m}
  BY DEF Tx
<1> HIDE DEF tx
<1>2. /\ Active'.tx = tx
      /\ \A e \in Event : Owed(Active, e) = {}
      /\ \A e : Owed(Active', e) = IF e = "RoyaltyPaid" THEN {m} ELSE {}
      /\ Unpaid(Active') = {} /\ Unwritten(Active') = {} /\ AmountKept
      /\ Unpaid(Active) = {} /\ Unwritten(Active) = {} /\ Active.tx.event = "none"
      /\ chain \in Chain
      /\ RowsExact /\ FundsExact /\ ProjectExact
      /\ Items' = Items /\ Mains' = Mains /\ Subs' = Subs
  BY <1>1, SentFacts DEF tx, StateEvents
<1>3. UNCHANGED <<scenario, milestone, funds, project>> /\ AtRest
  BY DEF Sent
<1>4. /\ chain'.state = chain.state /\ chain'.funded = chain.funded
      /\ chain'.revisionCounter = chain.revisionCounter /\ chain'.added = chain.added
      /\ chain'.paid = chain.paid /\ chain'.settled = chain.settled \cup {m}
      /\ chain'.released = chain.released
  BY <1>2 DEF Chain
<1>5. AsSent(tx)'
  BY <1>1, <1>2, <1>3 DEF AsSent, StateEvents
<1>6. RowsExact'
  BY <1>2, <1>3, <1>4, RowsKept DEF Event
<1>7. FundsExact'
  <2>1. /\ Owed(Active', "MilestoneFunded") = {} /\ Owed(Active', "MilestoneStateChanged") = {}
        /\ Owed(Active', "MilestonePayout") = {} /\ Owed(Active', "RoyaltyPaid") = {m}
    BY <1>2
  <2>2. \A n : SubsOf(n)' = SubsOf(n)
    BY <1>2 DEF SubsOf
  <2>3. \A n \in Mains : n \in chain'.settled \ {m} <=> n \in chain.settled
    BY <1>4
  <2>4. ASSUME NEW n \in Mains
        PROVE  FlagsExact(n, n \in chain.paid, n \in chain.settled \ {m})'
    BY <1>3, <1>4, <2>1, <2>2, <2>3 DEF AtRest, FlagsExact
  <2>5. QED
    BY <1>2, <1>3, <1>4, <2>1, <2>4 DEF FundsExact, AtRest
<1>8. ProjectExact'
  BY <1>1, <1>2, <1>3, <1>4, ProjectKept
<1>9. QED
  BY <1>5, <1>6, <1>7, <1>8, SentNext DEF tx

LEMMA SendRelease ==
  ASSUME Sent(Tx("FreeBalanceReleased", {}, "COMPLETED")), ~chain.released,
         chain' = [chain EXCEPT !.released = TRUE]
  PROVE  ExactInOrder'
<1> DEFINE tx == Tx("FreeBalanceReleased", {}, "COMPLETED")
<1>1. tx.event = "FreeBalanceReleased" /\ tx.items = {}
  BY DEF Tx
<1> HIDE DEF tx
<1>2. /\ Active'.tx = tx
      /\ \A e \in Event : Owed(Active, e) = {}
      /\ \A e : Owed(Active', e) = {}
      /\ Unpaid(Active') = {} /\ Unwritten(Active') = {}
      /\ Unpaid(Active) = {} /\ Unwritten(Active) = {}
      /\ chain \in Chain
      /\ RowsExact /\ FundsExact /\ ProjectExact /\ Mains' = Mains
  BY <1>1, SentFacts DEF tx, StateEvents
<1>3. UNCHANGED <<scenario, milestone, funds, project>> /\ AtRest
  BY DEF Sent
<1>4. /\ chain'.state = chain.state /\ chain'.funded = chain.funded
      /\ chain'.revisionCounter = chain.revisionCounter /\ chain'.added = chain.added
      /\ chain'.paid = chain.paid /\ chain'.settled = chain.settled
  BY <1>2 DEF Chain
<1>5. AsSent(tx)'
  BY <1>1 DEF AsSent, StateEvents, FundEvents
<1>6. RowsExact'
  BY <1>2, <1>3, <1>4, RowsKept DEF Event
<1>7. FundsExact'
  BY <1>2, <1>3, <1>4, FundsKept DEF Event, FundEvents
<1>8. ProjectExact'
  <2>1. Counted' = Counted
    BY <1>2, <1>3, <1>4 DEF Counted
  <2>2. /\ totalProjectFund' = totalProjectFund
        /\ SumOfPrices(Counted)' = SumOfPrices(Counted)
    BY <1>2, <2>1, Amounts
  <2>3. QED
    BY <1>1, <1>2, <1>3, <2>1, <2>2 DEF ProjectExact, AtRest, Whole
<1>9. QED
  BY <1>5, <1>6, <1>7, <1>8, SentNext DEF tx

LEMMA ExactSend ==
  ASSUME Inv, ExactInOrder, InMode({"orderly"}), Send
  PROVE  ExactInOrder'
<1>1. emitted = {} /\ AllIdle
  BY DEF Send, Orderly
<1>2. AtRest
  BY <1>1, RestIsExact
<1>3. UNCHANGED <<scenario, milestone, funds, project, request>>
  BY DEF Send, dbVars
<1>4. \A tx \in Transaction : Emit(tx) => Sent(tx)
  BY <1>1, <1>2, <1>3 DEF Emit, Sent
<1>5. /\ scenario \in Scenarios /\ chain \in Chain /\ Mains \subseteq Items /\ Subs \subseteq Items
  BY RequestFacts, ProjectFacts DEF Inv, TypeOK
<1>6. \A event \in Event, items \in SUBSET Items, state \in States :
        Emit(Tx(event, items, state)) => Sent(Tx(event, items, state))
  <2>1. \A event \in Event, items \in SUBSET Items, state \in States :
          Tx(event, items, state) \in Transaction
    BY DEF Transaction, Tx
  <2>2. QED
    BY <1>4, <2>1
<1>7. CASE FundAll /\ Fresh(Mains)
  <2>1. Sent(Tx("MilestoneFunded", Mains, "FUNDED"))
    BY <1>5, <1>6, <1>7 DEF FundAll, Event, States
  <2>2. chain' = [chain EXCEPT !.state = Funded(Mains), !.funded = @ \cup Mains]
    <3>1. chain.funded \cup Mains = Mains
      BY <1>5 DEF Chain
    <3>2. QED
      BY <1>7, <3>1 DEF FundAll
  <2>3. QED
    BY <1>7, <2>1, <2>2, SendFunding
<1>8. ASSUME NEW m \in Mains, Fresh({m}), FundOne(m)
      PROVE  ExactInOrder'
  <2>1. Sent(Tx("MilestoneFunded", {m}, "FUNDED"))
    BY <1>5, <1>6, <1>8 DEF FundOne, Event, States
  <2>2. QED
    BY <1>8, <2>1, SendFunding DEF FundOne
<1>9. ASSUME NEW s \in Subs, addSubMilestones(s)
      PROVE  ExactInOrder'
  <2>1. Sent(Tx("SubMilestoneAdded", {s}, "INIT"))
    BY <1>5, <1>6, <1>9 DEF addSubMilestones, Event, States
  <2>2. PICK state \in {"INIT", "FUNDED"} :
          chain' = [chain EXCEPT !.added = @ \cup {s}, !.state[s] = state]
    BY <1>9 DEF addSubMilestones
  <2>3. QED
    BY <1>9, <2>1, <2>2, SendSubMilestone DEF addSubMilestones
<1>10. ASSUME NEW i \in Items, NEW state \in States, changeState(i, state),
              Accepts(Sender(i, Stored(state)), i, milestone[i], Stored(state))
       PROVE  ExactInOrder'
  <2>1. PICK event : event = IF i \in Mains THEN "MilestoneStateChanged"
                             ELSE "SubMilestoneStateChanged"
    OBVIOUS
  <2>2. Emit(Tx(event, {i}, state)) /\ event \in Event
    BY <1>10, <2>1 DEF changeState, Event
  <2>3. Sent(Tx(event, {i}, state))
    BY <1>6, <2>2
  <2>4. QED
    BY <1>10, <2>1, <2>3, SendState
<1>11. CASE payoutProject
  <2>1. Sent(Tx("MilestonePayout", Mains, "COMPLETED"))
    BY <1>5, <1>6, <1>11 DEF payoutProject, Event, States
  <2>2. chain' = [chain EXCEPT !.paid = @ \cup Mains]
    <3>1. chain.paid \cup Mains = Mains
      BY <1>5 DEF Chain
    <3>2. QED
      BY <1>11, <3>1 DEF payoutProject
  <2>3. QED
    BY <1>11, <2>1, <2>2, SendPayout DEF payoutProject
<1>12. ASSUME NEW m \in Mains, payoutMilestone(m)
       PROVE  ExactInOrder'
  <2>1. Sent(Tx("MilestonePayout", {m}, "COMPLETED"))
    BY <1>5, <1>6, <1>12 DEF payoutMilestone, Event, States
  <2>2. QED
    BY <1>12, <2>1, SendPayout DEF payoutMilestone
<1>13. ASSUME NEW m \in Mains, payoutMilestoneRoyalty(m)
       PROVE  ExactInOrder'
  <2>1. Sent(Tx("RoyaltyPaid", {m}, "COMPLETED"))
    BY <1>5, <1>6, <1>13 DEF payoutMilestoneRoyalty, Event, States
  <2>2. QED
    BY <1>13, <2>1, SendRoyalty DEF payoutMilestoneRoyalty
<1>14. CASE releaseFreeBalance
  <2>1. Sent(Tx("FreeBalanceReleased", {}, "COMPLETED"))
    BY <1>6, <1>14 DEF releaseFreeBalance, Event, States
  <2>2. QED
    BY <1>14, <2>1, SendRelease DEF releaseFreeBalance
<1>15. QED
  BY <1>7, <1>8, <1>9, <1>10, <1>11, <1>12, <1>13, <1>14 DEF Send, Orderly

-----------------------------------------------------------------------------
(* Reported in order, the copy is exact.                                   *)

LEMMA ExactInit == Init => ExactInOrder
<1> SUFFICES ASSUME Init PROVE Exact
  BY DEF ExactInOrder
<1>1. /\ scenario \in Scenarios /\ Mains \subseteq Items /\ Subs \subseteq Items
      /\ Items = Mains \cup Subs /\ Mains \cap Subs = {} /\ IsFiniteSet(Mains)
      /\ Mains \subseteq Milestones
      /\ scenario.start \in {"INIT", "IN_REVIEW"}
  BY ProjectFacts DEF Init
<1>2. Active = Idle /\ Single
  BY NothingActive DEF Init, ChainInit, AllIdle, Single
<1>3. /\ Unpaid(Active) = {} /\ Unwritten(Active) = {}
      /\ Owed(Active, "MilestoneFunded") = {} /\ Owed(Active, "MilestoneStateChanged") = {}
      /\ Owed(Active, "MilestonePayout") = {} /\ Owed(Active, "RoyaltyPaid") = {}
      /\ Owed(Active, "SubMilestoneAdded") = {}
  BY <1>2, IdleOwes DEF Event
<1>4. /\ chain.state = [i \in Items |-> IF i \in Mains THEN scenario.start ELSE "INIT"]
      /\ chain.revisionCounter = [i \in Items |-> 0] /\ chain.added = Mains
      /\ chain.funded = IF InReview THEN Mains ELSE {}
      /\ chain.paid = {} /\ chain.settled = {} /\ ~chain.released
  BY DEF Init, ChainInit
<1>5. Doing
  BY <1>2, IdleFacts, NoTxFacts DEF Doing, AsSent, Deciding, StateEvents, FundEvents
<1>6. RowsExact
  <2>1. ASSUME NEW i \in Items
        PROVE  Known(i) /\ ~milestone[i].isDeployedOnContract
    <3>1. /\ milestone[i].milestoneStatus = IF i \in Mains THEN scenario.start ELSE "INIT"
          /\ milestone[i].revisionsCounter = 0 /\ ~milestone[i].isDeployedOnContract
      BY DEF Init, NewMilestone
    <3>2. QED
      BY <1>1, <1>4, <3>1 DEF Known, Stored
  <2>2. QED
    BY <1>1, <1>3, <1>4, <2>1 DEF RowsExact
<1>7. FundsExact
  <2>1. ASSUME NEW i \in Items
        PROVE  /\ funds[i].fundTranscationIdToEscrow <=> InReview /\ i \in Mains
               /\ ~funds[i].enableFundTransfer /\ ~funds[i].fundTransferred
               /\ ~funds[i].enableRoyalityTransfer /\ ~funds[i].royalityTransferred
    BY DEF Init, NewFunds
  <2>2. ASSUME NEW m \in Mains
        PROVE  /\ chain.state[m] # "COMPLETED"
               /\ \A i \in {m} \cup SubsOf(m) : i \in Items
               /\ funds[m].fundTranscationIdToEscrow <=> m \in chain.funded
    BY <1>1, <1>4, <2>1 DEF SubsOf
  <2>3. QED
    BY <1>1, <1>3, <1>4, <2>1, <2>2 DEF FundsExact, FlagsExact
<1>8. ProjectExact
  <2>1. Counted = chain.funded
    BY <1>3, <1>4 DEF Counted
  <2>2. Sum(price, Mains) \in Int
    <3>1. \A m \in Mains : price[m] \in Int
      BY <1>1, MirrorAssumption
    <3>2. QED
      BY <1>1, <3>1, SumInt
  <2>3. /\ project.leftProjectFund = IF InReview THEN 0 ELSE Sum(price, Mains)
        /\ project.fundTransfered = InReview /\ ~project.freeBalanceReleased
    BY Amounts DEF Init, NewProject
  <2>4. project.leftProjectFund = Sum(price, Mains) - Sum(price, Counted)
    <3>1. CASE InReview
      BY <1>4, <2>1, <2>2, <2>3, <3>1
    <3>2. CASE ~InReview
      <4>1. Sum(price, Counted) = 0
        BY <1>4, <2>1, <3>2, SumEmpty
      <4>2. QED
        BY <2>2, <2>3, <3>2, <4>1
    <3>3. QED
      BY <3>1, <3>2
  <2>5. Counted # {} => InReview
    BY <1>4, <2>1
  <2>6. QED
    BY <1>4, <2>3, <2>4, <2>5, Amounts DEF ProjectExact
<1>9. QED
  BY <1>2, <1>5, <1>6, <1>7, <1>8 DEF Exact

LEMMA ExactUnchanged ==
  ASSUME ExactInOrder, UNCHANGED vars
  PROVE  ExactInOrder'
<1>1. UNCHANGED <<scenario, chain, emitted, milestone, funds, project, request>>
  BY DEF vars, chainVars, dbVars
<1>2. SUFFICES ASSUME InMode({"orderly"}) PROVE Exact'
  BY <1>1, SameProject DEF ExactInOrder
<1>3. Exact
  BY <1>2 DEF ExactInOrder
<1>4. Active' = Active /\ AllIdle' = AllIdle
  BY <1>1 DEF Active, AllIdle
<1>5. Transaction' = Transaction /\ Items' = Items /\ Mains' = Mains /\ Subs' = Subs
  BY <1>1, SameProject
<1>6. RowsExact' /\ FundsExact' /\ ProjectExact'
  BY <1>1, <1>3, <1>4, RowsKept, FundsKept, ProjectKept DEF Exact, AmountKept
<1>7. Doing'
  BY <1>1, <1>3, <1>4, <1>5 DEF Exact, Doing, AsSent
<1>8. Single'
  BY <1>1, <1>3, <1>4 DEF Exact, Single
<1>9. QED
  BY <1>6, <1>7, <1>8 DEF Exact

LEMMA ExactNext == Inv /\ Serial /\ ExactInOrder /\ [Next]_vars => ExactInOrder'
<1> SUFFICES ASSUME Inv, Serial, ExactInOrder, [Next]_vars PROVE ExactInOrder'
  OBVIOUS
<1>1. CASE UNCHANGED vars
  BY <1>1, ExactUnchanged
<1>2. CASE Next /\ ~InMode({"orderly"})
  <2>1. scenario' = scenario
    BY <1>2 DEF Next, Send, Handle, Report, Patch, ReadEvent, FreeBalance, FundProject,
                Check, ReworkDocuments, Write, CountOpen, CountWorking, UpdateProject,
                UpdateManyFunds, Stop
  <2>2. QED
    BY <1>2, <2>1, SameProject DEF ExactInOrder
<1>3. CASE Send /\ InMode({"orderly"})
  BY <1>3, ExactSend
<1>4. ASSUME NEW c \in Calls, Handle(c), InMode({"orderly"})
      PROVE  ExactInOrder'
  <2>1. ~Patch(c) /\ ~Stop(c)
    BY <1>4 DEF Patch, Stop, InMode
  <2>2. CASE Report(c)
    BY <1>4, <2>2, ExactReport
  <2>3. CASE ReadEvent(c)
    BY <1>4, <2>3, ExactReadEvent
  <2>4. CASE FreeBalance(c)
    BY <1>4, <2>4, ExactFreeBalance
  <2>5. CASE FundProject(c)
    BY <1>4, <2>5, ExactFundProject
  <2>6. CASE Check(c)
    BY <1>4, <2>6, ExactCheck
  <2>7. CASE ReworkDocuments(c)
    BY <1>4, <2>7, ExactReworkDocuments
  <2>8. CASE Write(c)
    BY <1>4, <2>8, ExactWrite
  <2>9. CASE CountOpen(c) \/ CountWorking(c) \/ UpdateProject(c)
    BY <1>4, <2>9, ExactCounting
  <2>10. CASE UpdateManyFunds(c)
    BY <1>4, <2>10, ExactUpdateManyFunds
  <2>11. QED
    BY <1>4, <2>1, <2>2, <2>3, <2>4, <2>5, <2>6, <2>7, <2>8, <2>9, <2>10 DEF Handle
<1>5. QED
  BY <1>1, <1>2, <1>3, <1>4 DEF Next

\* What is not taken off is what the milestones not yet funded cost.
LEMMA NothingLeft ==
  ASSUME Inv, Sum(price, Mains) - Sum(price, chain.funded) <= 0
  PROVE  \A m \in Mains \ chain.funded : price[m] = 0
<1>1. /\ IsFiniteSet(Mains) /\ Mains \subseteq Milestones /\ chain.funded \subseteq Mains
  BY ProjectFacts DEF Inv, TypeOK, Chain
<1>2. \A m \in Mains : price[m] \in Nat
  BY <1>1, MirrorAssumption
<1> DEFINE rest == Mains \ chain.funded
<1>3. IsFiniteSet(rest) /\ IsFiniteSet(chain.funded)
  BY <1>1, FS_Subset
<1>4. Sum(price, Mains) = Sum(price, chain.funded) + Sum(price, rest)
  <2>1. Mains = chain.funded \cup rest /\ chain.funded \cap rest = {}
    BY <1>1
  <2>2. \A m \in chain.funded \cup rest : price[m] \in Int
    BY <1>2, <2>1
  <2> HIDE DEF rest
  <2>3. QED
    BY <1>3, <2>1, <2>2, SumUnion
<1>5. Sum(price, rest) \in Nat /\ Sum(price, chain.funded) \in Nat
  BY <1>1, <1>2, <1>3, SumNat
<1>6. Sum(price, rest) = 0
  <2> HIDE DEF rest
  <2>1. QED
    BY <1>4, <1>5
<1>7. ASSUME NEW m \in rest
      PROVE  price[m] = 0
  <2>1. IsFiniteSet(rest \ {m}) /\ price[m] \in Nat
    BY <1>2, <1>3, FS_Subset
  <2>2. Sum(price, rest \ {m}) \in Nat
    BY <1>2, <2>1, SumNat
  <2>3. Sum(price, rest) = price[m] + Sum(price, rest \ {m})
    BY <1>2, <1>3, SumRemove
  <2> HIDE DEF rest
  <2>4. QED
    BY <1>6, <2>1, <2>2, <2>3
<1>8. QED
  BY <1>7

\* Where clients report every transaction before they send the next, with the
\* function they called, the database is an exact copy of the chain whenever
\* nothing is under way: the server refuses none of the reports, and states,
\* revisions and payments are those of the contracts, for any number of
\* milestones and any prices, and what is left to fund too where no amount is
\* rounded (getTransactions as a whole).
THEOREM MirrorIsExact == Spec => []MirrorExact
<1>1. Inv /\ ExactInOrder => MirrorExact
  <2> SUFFICES ASSUME Inv, ExactInOrder, InMode({"orderly"}), emitted = {}, AllIdle
               PROVE  /\ \A i \in Items : Shows(i)
                      /\ \A m \in Mains :
                           /\ funds[m].fundTranscationIdToEscrow <=> m \in chain.funded
                           /\ funds[m].enableFundTransfer <=> Payable({m})
                           /\ funds[m].enableRoyalityTransfer <=> m \in chain.paid \ chain.settled
                           /\ funds[m].royalityTransferred <=> m \in chain.settled
                           /\ \A i \in {m} \cup SubsOf(m) :
                                funds[i].fundTransferred <=> m \in chain.paid
                      /\ Whole =>
                           /\ project.leftProjectFund =
                                totalProjectFund - SumOfPrices(chain.funded)
                           /\ Mains # {} /\ chain.funded = Mains => project.fundTransfered
                           /\ project.fundTransfered =>
                                \A m \in Mains \ chain.funded : price[m] = 0
                      /\ project.freeBalanceReleased <=> chain.released
    BY DEF MirrorExact, Whole
  <2>1. AtRest
    BY RestIsExact
  <2>2. \A i \in Items : Shows(i)
    BY <2>1 DEF AtRest, Known, Shows
  <2>3. Whole => /\ project.leftProjectFund = totalProjectFund - SumOfPrices(chain.funded)
                 /\ project.leftProjectFund = Sum(price, Mains) - Sum(price, chain.funded)
    BY <2>1, Amounts DEF AtRest, Exact, ProjectExact
  <2>4. Whole /\ project.fundTransfered => \A m \in Mains \ chain.funded : price[m] = 0
    BY <2>1, <2>3, NothingLeft DEF AtRest, Exact, ProjectExact
  <2>5. Whole /\ Mains # {} /\ chain.funded = Mains => project.fundTransfered
    <3>1. /\ IsFiniteSet(Mains) /\ \A m \in Mains : price[m] \in Int
      BY ProjectFacts, MirrorAssumption DEF Inv, TypeOK
    <3>2. Sum(price, Mains) \in Int
      BY <3>1, SumInt
    <3>3. QED
      BY <2>1, <2>3, <3>2 DEF AtRest, Exact, ProjectExact
  <2>6. QED
    BY <2>1, <2>2, <2>3, <2>4, <2>5 DEF AtRest, Payable
<1>2. Spec => []ExactInOrder
  BY ExactInit, ExactNext, SerialAlways, PTL DEF Spec
<1>3. QED
  BY <1>1, <1>2, InvAlways, PTL
=============================================================================
