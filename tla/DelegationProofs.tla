--------------------------- MODULE DelegationProofs ---------------------------
(***************************************************************************)
(* Proofs about Delegation, for any number of requests, providers,         *)
(* milestones and sub-milestones, any permissions granted and any clients. *)
(***************************************************************************)
EXTENDS Delegation, ProjectFlowProofs, FiniteSetTheorems

LEMMA IdleTask == Idle \in Tasks
  BY DEF Idle, Tasks

LEMMA TaskType ==
  ASSUME DelegationTypeOK, NEW c \in Calls, NEW t \in Tasks, Carry(c, t)
  PROVE  task' \in [Calls -> Tasks]
  BY DEF DelegationTypeOK, Carry

LEMMA FinishType ==
  ASSUME DelegationTypeOK, NEW c \in Calls, Finish(c)
  PROVE  task' \in [Calls -> Tasks]
  BY IdleTask, TaskType DEF Finish

\* What a task carries, by the step it is at.
LEMMA ReadTask ==
  ASSUME DelegationTypeOK, NEW c \in Calls
  PROVE  /\ task[c] \in Tasks
         /\ task[c].at \in {"adding", "removing"} =>
              /\ task[c].add \subseteq Users
              /\ task[c].remove \subseteq Providers
              /\ [task[c] EXCEPT !.at = "removing"] \in Tasks
         /\ task[c].at \in {"removing", "revoking"} =>
              /\ task[c].remove \subseteq Providers
              /\ task[c].exact \in BOOLEAN /\ task[c].asked \subseteq Users
         /\ task[c].at = "revoking" => task[c].gone \subseteq Providers
         /\ task[c].at = "granting" =>
              /\ task[c].users \subseteq Users
              /\ task[c].permission \in Permission
         /\ task[c].at = "reading" =>
              /\ task[c].members \subseteq Users /\ task[c].left \in Nat \ {0}
              /\ task[c].created \subseteq SubMilestoneIds
         /\ task[c].at = "saving" =>
              /\ task[c].members \subseteq Users /\ task[c].left \in Nat \ {0}
              /\ task[c].created \subseteq SubMilestoneIds
              /\ task[c].item \in Items /\ task[c].number \in Nat
         /\ task[c].at = "funding" => task[c].created \subseteq SubMilestoneIds
<1>1. task[c] \in Tasks
  BY DEF DelegationTypeOK
<1>2. QED
  BY <1>1 DEF Tasks

\* A step that leaves alone what ProjectFlow describes, or ends a request of it.
LEMMA FlowUnchanged ==
  ASSUME TypeOK, UNCHANGED vars
  PROVE  TypeOK'
  BY DEF TypeOK, vars, data, saved

LEMMA FlowEnds ==
  ASSUME TypeOK, NEW c \in Calls, End(c), UNCHANGED <<faults, project, data, saved>>
  PROVE  TypeOK'
<1>1. request' \in [Calls -> Requests]
  BY EndType
<1>2. QED
  BY <1>1 DEF TypeOK, data, saved

LEMMA EveryoneType ==
  ASSUME DelegationTypeOK
  PROVE  /\ Everyone \subseteq Users
         /\ Members(cps) \subseteq Providers
<1>1. cps \in Seq(Providers) /\ ips \subseteq Providers
  BY DEF DelegationTypeOK, TypeOK
<1>2. QED
  BY <1>1 DEF Everyone, Users, Members

\* The columns of the two groups of tables of this module.
Rows ==
  /\ ips \subseteq Providers
  /\ DOMAIN permissions \subseteq Users
  /\ permissions \in [DOMAIN permissions -> Permission]
  /\ granted \subseteq Users

WorkRows ==
  /\ DOMAIN subs \subseteq Ids
  /\ subs \in [DOMAIN subs -> SubMilestone]
  /\ subFunds \subseteq DOMAIN subs

LEMMA TypeParts ==
  DelegationTypeOK <=>
    /\ TypeOK /\ Rows /\ WorkRows
    /\ clients \subseteq Kinds
    /\ begun \subseteq Stored /\ working \in BOOLEAN
    /\ task \in [Calls -> Tasks]
  BY DEF DelegationTypeOK, Rows, WorkRows

\* Rows are only granted what Permission describes.
LEMMA GrantingType ==
  ASSUME Rows, NEW S \in SUBSET Users, NEW p \in Permission
  PROVE  /\ DOMAIN Granting(S, p) = DOMAIN permissions \cup S
         /\ Granting(S, p) \in [DOMAIN permissions \cup S -> Permission]
  BY DEF Rows, Granting

LEMMA GrantedType ==
  ASSUME Rows, NEW S \in SUBSET Users, NEW p \in Permission,
         permissions' = Granting(S, p)
  PROVE  /\ DOMAIN permissions' \subseteq Users
         /\ permissions' \in [DOMAIN permissions' -> Permission]
  BY GrantingType DEF Rows

LEMMA Starters ==
  /\ PurchaserPermission \in Permission
  /\ ProviderPermission \in Permission
  /\ IndividualPermission \in Permission
  BY DEF Permission, PurchaserPermission, ProviderPermission, IndividualPermission

-----------------------------------------------------------------------------
\* The requests of ProjectFlow, with what they do to the rows of this module.
LEMMA ElsewhereType ==
  ASSUME DelegationTypeOK, NEW c \in Calls, Elsewhere(c)
  PROVE  DelegationTypeOK'
<1>1. Next
  BY DEF Elsewhere, Next, Editing, Accepting, Ending
<1>2. TypeOK'
  BY <1>1, FlowTypeStep DEF DelegationTypeOK
<1>3. milestones' = milestones /\ subs' = subs
  BY DEF Elsewhere, work, GetProject, SaveDraft, PrepareSave, Accepting, AcceptProject,
         GetMilestones, CreateFunds, CreateEscrow, DeleteDrafts, RequestDeployment,
         DeployContracts, DeclareDeployed, RequestDeletion, Die, data, End, Goto
<1>4. QED
  BY <1>2, <1>3 DEF Elsewhere, DelegationTypeOK, people, work, status, Stored

LEMMA CreateType ==
  ASSUME DelegationTypeOK, NEW c \in Calls, CreateProjectWithPurchaser(c)
  PROVE  DelegationTypeOK'
<1>1. Next
  BY DEF CreateProjectWithPurchaser, Next, Editing
<1>2. TypeOK'
  BY <1>1, FlowTypeStep DEF DelegationTypeOK
<1>3. milestones' = milestones
  BY DEF CreateProjectWithPurchaser, CreateProject, data
<1>4. /\ DOMAIN permissions' = DOMAIN permissions \cup {purchaser}
      /\ permissions' \in [DOMAIN permissions \cup {purchaser} -> Permission]
  BY GrantingType, Starters, TypeParts DEF CreateProjectWithPurchaser, Users
<1>5. QED
  BY <1>2, <1>3, <1>4
     DEF CreateProjectWithPurchaser, DelegationTypeOK, work, status, Users, Stored

LEMMA SaveType ==
  ASSUME DelegationTypeOK, NEW c \in Calls, NEW created \in SUBSET MilestoneIds,
         NEW joining \in SUBSET Providers, SaveProjectWithMembers(c, created, joining)
  PROVE  DelegationTypeOK'
<1> DEFINE r == request[c]
           new == Joins(r, joining)
<1>1. Next
  BY DEF SaveProjectWithMembers, Next, Editing
<1>2. TypeOK'
  BY <1>1, FlowTypeStep DEF DelegationTypeOK
<1>3. milestones \subseteq milestones'
  BY DEF SaveProjectWithMembers, SaveProject
<1>4. CASE ~Committed(r)
  BY <1>2, <1>3, <1>4 DEF SaveProjectWithMembers, DelegationTypeOK, work, people, Stored
<1>5. CASE Committed(r)
  <2>1. r.provider \in Providers \cup {Nobody}
    BY ReadType DEF SaveProjectWithMembers, SaveProject, DelegationTypeOK
  <2>2. new \subseteq Users
    BY <2>1 DEF Joins, Users
  <2>3. permissions' = [u \in DOMAIN permissions \cup new |->
                          IF u \in joining THEN IndividualPermission
                          ELSE IF u = r.provider THEN ProviderPermission
                          ELSE permissions[u]]
    BY <1>5 DEF SaveProjectWithMembers
  <2>4. \A u \in new : u \in joining \/ u = r.provider
    BY DEF Joins
  <2>5. /\ DOMAIN permissions' \subseteq Users
        /\ permissions' \in [DOMAIN permissions' -> Permission]
    BY <2>2, <2>3, <2>4, Starters DEF DelegationTypeOK
  <2>6. QED
    BY <1>2, <1>3, <1>5, <2>5 DEF SaveProjectWithMembers, DelegationTypeOK, work, Stored
<1>6. QED
  BY <1>4, <1>5

LEMMA RollBackType ==
  ASSUME DelegationTypeOK, NEW c \in Calls, NEW joining \in SUBSET Providers,
         RollBackSave(c, joining)
  PROVE  DelegationTypeOK'
<1>1. TypeOK'
  BY FlowEnds DEF RollBackSave, DelegationTypeOK
<1>2. QED
  BY <1>1 DEF RollBackSave, DelegationTypeOK, data, people, work, status, Stored

LEMMA DeleteType ==
  ASSUME DelegationTypeOK, NEW c \in Calls, DeleteProjectWithMembers(c)
  PROVE  DelegationTypeOK'
<1>1. CASE subFunds = {}
  <2>1. DeleteProject(c)
    BY <1>1 DEF DeleteProjectWithMembers
  <2>2. Next
    BY <2>1 DEF Next, Ending
  <2>3. TypeOK'
    BY <2>2, FlowTypeStep DEF DelegationTypeOK
  <2>4. CASE Exists /\ funds = {}
    BY <1>1, <2>3, <2>4
       DEF DeleteProjectWithMembers, DelegationTypeOK, NoRows
  <2>5. CASE ~(Exists /\ funds = {})
    <3>1. milestones' = milestones
      BY <2>1, <2>5 DEF DeleteProject
    <3>2. QED
      BY <2>3, <2>5, <3>1 DEF DeleteProjectWithMembers, DelegationTypeOK, people, status, Stored
  <2>6. QED
    BY <2>4, <2>5
<1>2. CASE subFunds # {}
  <2>1. TypeOK'
    BY <1>2, FlowEnds DEF DeleteProjectWithMembers, DelegationTypeOK
  <2>2. QED
    BY <1>2, <2>1 DEF DeleteProjectWithMembers, DelegationTypeOK, data, people, status, Stored
<1>3. QED
  BY <1>1, <1>2

LEMMA FlowType ==
  ASSUME DelegationTypeOK, NEW c \in Calls, Flow(c)
  PROVE  DelegationTypeOK'
  BY ElsewhereType, CreateType, SaveType, RollBackType, DeleteType DEF Flow

-----------------------------------------------------------------------------
\* The requests about members.
LEMMA StaffingType ==
  ASSUME DelegationTypeOK, NEW c \in Calls, Staffing(c)
  PROVE  DelegationTypeOK'
<1>1. ASSUME NEW asked \in SUBSET Users, RequestAddIP(c, asked)
      PROVE  DelegationTypeOK'
  <2>1. [at |-> "adding", add |-> asked, remove |-> {}, exact |-> FALSE,
         asked |-> asked] \in Tasks
    BY DEF Tasks
  <2>2. task' \in [Calls -> Tasks]
    BY <1>1, <2>1, TaskType DEF RequestAddIP
  <2>3. QED
    BY <1>1, <2>2, FlowUnchanged
       DEF RequestAddIP, DelegationTypeOK, vars, data, people, work, status, Stored
<1>2. ASSUME NEW asked \in SUBSET Users, RequestModifyIp(c, asked)
      PROVE  DelegationTypeOK'
  <2> DEFINE add == asked \ Everyone
             remove == Leaving(asked)
             t == [at |-> IF add # {} THEN "adding" ELSE "removing",
                   add |-> add, remove |-> remove, exact |-> TRUE, asked |-> asked]
  <2>1. remove \subseteq Providers
    BY DEF Leaving, DelegationTypeOK
  <2>2. t \in Tasks
    BY <2>1 DEF Tasks
  <2>3. task' \in [Calls -> Tasks]
    BY <1>2, <2>2, TaskType DEF RequestModifyIp
  <2>4. QED
    BY <1>2, <2>3, FlowUnchanged
       DEF RequestModifyIp, DelegationTypeOK, vars, data, people, work, status, Stored
<1>3. ASSUME CreateProjectProvider(c)
      PROVE  DelegationTypeOK'
  <2>1. task' \in [Calls -> Tasks]
    BY <1>3, ReadTask, TaskType, FinishType DEF CreateProjectProvider
  <2>2. CASE Exists /\ task[c].add \cap (Everyone \cup DOMAIN permissions) = {}
    <3>1. task[c].add \subseteq Users /\ purchaser \in Everyone
      BY <1>3, <2>2, ReadTask DEF CreateProjectProvider, Everyone
    <3>2. task[c].add \subseteq Providers
      BY <2>2, <3>1 DEF Users
    <3>3. permissions' = Granting(task[c].add, IndividualPermission)
      BY <1>3, <2>2 DEF CreateProjectProvider
    <3>4. Rows /\ IndividualPermission \in Permission
      BY TypeParts, Starters
    <3>5. /\ DOMAIN permissions' \subseteq Users
          /\ permissions' \in [DOMAIN permissions' -> Permission]
      BY <3>1, <3>3, <3>4, GrantedType
    <3>6. QED
      BY <1>3, <2>1, <2>2, <3>2, <3>5, FlowUnchanged
         DEF CreateProjectProvider, DelegationTypeOK, vars, data, work, status, Stored
  <2>3. CASE ~(Exists /\ task[c].add \cap (Everyone \cup DOMAIN permissions) = {})
    BY <1>3, <2>1, <2>3, FlowUnchanged
       DEF CreateProjectProvider, DelegationTypeOK, vars, data, people, work, status, Stored
  <2>4. QED
    BY <2>2, <2>3
<1>4. ASSUME DeleteMembers(c)
      PROVE  DelegationTypeOK'
  <2> DEFINE t == [at |-> "revoking", remove |-> task[c].remove,
                   gone |-> task[c].remove \cap (ips \cup Members(cps)),
                   exact |-> task[c].exact, asked |-> task[c].asked]
  <2>1. t \in Tasks
    BY <1>4, ReadTask DEF DeleteMembers, Tasks
  <2>2. task' \in [Calls -> Tasks]
    BY <1>4, <2>1, TaskType DEF DeleteMembers
  <2>3. QED
    BY <1>4, <2>2, FlowUnchanged
       DEF DeleteMembers, DelegationTypeOK, vars, data, people, work, status, Stored
<1>5. ASSUME DeleteProjectProvider(c)
      PROVE  DelegationTypeOK'
  <2>1. task' \in [Calls -> Tasks]
    BY <1>5, FinishType DEF DeleteProjectProvider
  <2>2. cps' \in Seq(Providers)
    <3>1. Members(cps) \subseteq Providers
      BY EveryoneType
    <3>2. PICK n \in 0 .. Len(cps) : cps' \in [1 .. n -> Members(cps) \ task[c].gone]
      BY <1>5 DEF DeleteProjectProvider, Without
    <3>3. n \in Nat
      BY <3>2, LenProperties DEF DelegationTypeOK, TypeOK
    <3>4. QED
      BY <3>1, <3>2, <3>3, SeqDef
  <2>3. TypeOK'
    BY <1>5, <2>2 DEF DeleteProjectProvider, DelegationTypeOK, TypeOK, saved
  <2>4. /\ DOMAIN permissions' \subseteq Users
        /\ permissions' \in [DOMAIN permissions' -> Permission]
    BY <1>5 DEF DeleteProjectProvider, Revoking, DelegationTypeOK
  <2>5. QED
    BY <1>5, <2>1, <2>3, <2>4 DEF DeleteProjectProvider, DelegationTypeOK, work, status, Stored
<1>6. ASSUME NEW users \in Grantees, NEW permission \in PermissionUpdates,
             RequestPermissions(c, users, permission)
      PROVE  DelegationTypeOK'
  <2>1. permission \in Permission /\ users \subseteq Users
    BY DelegationAssumption
  <2>2. [at |-> "granting", users |-> users, permission |-> permission] \in Tasks
    BY <2>1 DEF Tasks
  <2>3. task' \in [Calls -> Tasks]
    BY <1>6, <2>2, TaskType DEF RequestPermissions
  <2>4. QED
    BY <1>6, <2>1, <2>3, FlowUnchanged
       DEF RequestPermissions, DelegationTypeOK, vars, data, work, status, Stored
<1>7. ASSUME UpdatePermissions(c)
      PROVE  DelegationTypeOK'
  <2>1. task' \in [Calls -> Tasks]
    BY <1>7, FinishType DEF UpdatePermissions
  <2>2. /\ DOMAIN permissions' \subseteq Users
        /\ permissions' \in [DOMAIN permissions' -> Permission]
    <3>1. task[c].users \subseteq Users /\ task[c].permission \in Permission
      BY <1>7, ReadTask DEF UpdatePermissions
    <3>2. Rows
      BY TypeParts
    <3>3. CASE permissions' = Granting(task[c].users, task[c].permission)
      BY <3>1, <3>2, <3>3, GrantedType
    <3>4. CASE permissions' = permissions
      BY <3>2, <3>4 DEF Rows
    <3>5. QED
      BY <1>7, <3>3, <3>4 DEF UpdatePermissions
  <2>3. QED
    BY <1>7, <2>1, <2>2, FlowUnchanged
       DEF UpdatePermissions, DelegationTypeOK, vars, data, work, status, Stored
<1>8. QED
  BY <1>1, <1>2, <1>3, <1>4, <1>5, <1>6, <1>7 DEF Staffing

-----------------------------------------------------------------------------
\* The requests about sub-milestones, and the steps around them.
LEMMA SplittingType ==
  ASSUME DelegationTypeOK, NEW c \in Calls, Splitting(c)
  PROVE  DelegationTypeOK'
<1>1. ASSUME NEW items \in 1 .. MaxItems, RequestBatch(c, items)
      PROVE  DelegationTypeOK'
  <2>1. Everyone \subseteq Users
    BY EveryoneType
  <2>2. items \in Nat \ {0}
    BY DelegationAssumption
  <2>3. [at |-> "reading", members |-> Everyone, left |-> items, created |-> {}] \in Tasks
    BY <2>1, <2>2 DEF Tasks
  <2>4. task' \in [Calls -> Tasks]
    BY <1>1, <2>3, TaskType DEF RequestBatch
  <2>5. QED
    BY <1>1, <2>4, FlowUnchanged
       DEF RequestBatch, DelegationTypeOK, vars, data, people, work, status, Stored
<1>2. ASSUME NEW item \in Items, GetMilestone(c, item)
      PROVE  DelegationTypeOK'
  <2> DEFINE t == task[c]
             next == [at |-> "saving", members |-> t.members, left |-> t.left,
                      created |-> t.created, item |-> item,
                      number |-> SequenceNumber(item.milestoneId)]
  <2>1. t.members \subseteq Users /\ t.left \in Nat \ {0} /\ t.created \subseteq SubMilestoneIds
    BY <1>2, ReadTask DEF GetMilestone
  <2>2. SequenceNumber(item.milestoneId) \in Nat
    <3> DEFINE S == {s \in DOMAIN subs : subs[s].milestoneId = item.milestoneId}
    <3>1. S \subseteq Ids
      BY DEF DelegationTypeOK
    <3>2. Cardinality(S) \in Nat
      BY <3>1, FS_Subset, FS_CardinalityType, DelegationAssumption
    <3>3. QED
      BY <3>2 DEF SequenceNumber
  <2>3. next \in Tasks
    BY <2>1, <2>2 DEF Tasks
  <2>4. task' \in [Calls -> Tasks]
    BY <1>2, <2>3, TaskType, FinishType DEF GetMilestone, Reject
  <2>5. QED
    BY <1>2, <2>4, FlowUnchanged
       DEF GetMilestone, DelegationTypeOK, vars, data, people, work, status, Stored
<1>3. ASSUME NEW id \in Ids, SaveSubMilestone(c, id)
      PROVE  DelegationTypeOK'
  <2> DEFINE t == task[c]
             new == t.item.id = "new"
             row == [milestoneId |-> t.item.milestoneId, AssignedTo |-> t.item.AssignedTo,
                     sequenceNumber |-> t.number]
             created == IF new THEN t.created \cup {id} ELSE t.created
  <2>1. /\ t.members \subseteq Users /\ t.left \in Nat \ {0}
        /\ t.created \subseteq SubMilestoneIds
        /\ t.item \in Items /\ t.number \in Nat
    BY <1>3, ReadTask DEF SaveSubMilestone
  <2>2. row \in SubMilestone
    BY <2>1, DelegationAssumption DEF Items, SubMilestone
  <2>3. created \subseteq SubMilestoneIds
    BY <1>3, <2>1 DEF SaveSubMilestone
  <2>4. task' \in [Calls -> Tasks]
    <3>1. [at |-> "funding", created |-> created] \in Tasks
      BY <2>3 DEF Tasks
    <3>2. t.left # 1 => t.left - 1 \in Nat \ {0}
      BY <2>1
    <3>3. t.left # 1 => [at |-> "reading", members |-> t.members, left |-> t.left - 1,
                         created |-> created] \in Tasks
      BY <2>1, <2>3, <3>2 DEF Tasks
    <3>4. QED
      BY <1>3, <3>1, <3>3, TaskType, FinishType DEF SaveSubMilestone
  <2>5. CASE UNCHANGED <<vars, work>>
    BY <1>3, <2>4, <2>5, FlowUnchanged
       DEF SaveSubMilestone, DelegationTypeOK, vars, data, people, work, status, Stored
  <2>6. CASE StoreSubMilestone(id, row, new)
    <3>1. subs' = [s \in DOMAIN subs \cup {id} |-> IF s = id THEN row ELSE subs[s]]
      BY <2>6 DEF StoreSubMilestone
    <3>2. UNCHANGED vars \/ LoseMilestone(id)
      BY <2>6 DEF StoreSubMilestone
    <3>3. subFunds' \subseteq subFunds \cup {id}
      BY <2>6 DEF StoreSubMilestone, FundsBrought
    <3>4. WorkRows'
      BY <1>3, <2>2, <3>1, <3>3 DEF DelegationTypeOK, WorkRows
    <3>5. Stored \subseteq Stored'
      BY <3>1, <3>2 DEF Stored, LoseMilestone, vars, data
    <3>6. TypeOK'
      <4>1. LoseMilestone(id) => Next
        BY DEF LoseMilestone, Next, DelegationTypeOK, TypeOK
      <4>2. QED
        BY <3>2, <4>1, FlowTypeStep DEF DelegationTypeOK
    <3>7. QED
      BY <1>3, <2>4, <3>4, <3>5, <3>6
         DEF SaveSubMilestone, WorkRows, DelegationTypeOK, people, status
  <2>7. QED
    BY <1>3, <2>5, <2>6 DEF SaveSubMilestone
<1>4. ASSUME CreateSubFunds(c)
      PROVE  DelegationTypeOK'
  <2>1. task' \in [Calls -> Tasks]
    BY <1>4, FinishType DEF CreateSubFunds
  <2>2. subFunds' \subseteq DOMAIN subs'
    BY <1>4 DEF CreateSubFunds, DelegationTypeOK
  <2>3. QED
    BY <1>4, <2>1, <2>2, FlowUnchanged
       DEF CreateSubFunds, DelegationTypeOK, vars, data, people, status, Stored
<1>5. QED
  BY <1>1, <1>2, <1>3, <1>4 DEF Splitting

LEMMA AroundType ==
  ASSUME DelegationTypeOK,
         \/ \E c \in Calls : DieDelegating(c)
         \/ \E m \in Ids : TakeAway(m)
         \/ \E m \in Divisible : ChangeStatus(m)
         \/ StartWork
         \/ UNCHANGED delegationVars
  PROVE  DelegationTypeOK'
<1>1. ASSUME NEW c \in Calls, DieDelegating(c) PROVE DelegationTypeOK'
  BY <1>1, FinishType, FlowUnchanged
     DEF DieDelegating, DelegationTypeOK, vars, data, people, work, status, Stored
<1>2. ASSUME NEW m \in Divisible, ChangeStatus(m) PROVE DelegationTypeOK'
  BY <1>2, FlowUnchanged
     DEF ChangeStatus, DelegationTypeOK, vars, data, people, work, Stored
<1>3. CASE StartWork
  BY <1>3, FlowUnchanged DEF StartWork, DelegationTypeOK, vars, data, people, work, Stored
<1>4. CASE UNCHANGED delegationVars
  BY <1>4, FlowUnchanged
     DEF delegationVars, DelegationTypeOK, vars, data, people, work, status, Stored
<1>5. ASSUME NEW m \in Ids, TakeAway(m) PROVE DelegationTypeOK'
  <2>1. CASE LoseMilestone(m) /\ UNCHANGED work
    <3>1. Next
      BY <2>1 DEF LoseMilestone, Next, DelegationTypeOK, TypeOK
    <3>2. TypeOK'
      BY <3>1, FlowTypeStep DEF DelegationTypeOK
    <3>3. QED
      BY <1>5, <2>1, <3>2 DEF TakeAway, LoseMilestone, DelegationTypeOK, people, work, Stored
  <2>2. CASE /\ m \in DOMAIN subs
             /\ subs' = [s \in DOMAIN subs \ {m} |-> subs[s]]
             /\ subFunds' = subFunds \ {m}
             /\ UNCHANGED vars
    BY <1>5, <2>2, FlowUnchanged DEF TakeAway, DelegationTypeOK, people, vars, data, Stored
  <2>3. QED
    BY <1>5, <2>1, <2>2 DEF TakeAway
<1>6. QED
  BY <1>1, <1>2, <1>3, <1>4, <1>5

\* The types of all rows, and of what the requests of this module carry, for any
\* faults and clients: among them that Funds refer to sub-milestones that are
\* there, and that only milestones of the project are begun.
THEOREM DelegationTypeCorrect == DelegationSpec => []DelegationTypeOK
<1>1. DelegationInit => DelegationTypeOK
  <2> SUFFICES ASSUME DelegationInit PROVE DelegationTypeOK
    OBVIOUS
  <2>1. TypeOK
    BY FlowTypeInit DEF DelegationInit
  <2>2. QED
    BY <2>1, IdleTask DEF DelegationInit, DelegationTypeOK, NoRows
<1>2. DelegationTypeOK /\ [DelegationNext]_delegationVars => DelegationTypeOK'
  BY FlowType, StaffingType, SplittingType, AroundType DEF DelegationNext
<1>3. QED
  BY <1>1, <1>2, PTL DEF DelegationSpec
-----------------------------------------------------------------------------
\* A project that is not there has no members.
NoMembersLeft == ~Exists => Members(cps) = {} /\ ips = {}

\* No one but a member has permissions, and every member has.
OnlyMembers == DOMAIN permissions \subseteq Everyone
AllMembers == Everyone \subseteq DOMAIN permissions

\* What each step does to the members it does to the rows of their permissions,
\* but one: the second delete of a removal.
RowsOfMembers == NoMembersLeft /\ OnlyMembers
MembersFollow == RowsOfMembers' /\ (AllMembers => AllMembers')

\* A step that changes none of the rows involved.
LEMMA SameMembers ==
  ASSUME RowsOfMembers, Exists' = Exists, UNCHANGED <<cps, ips>>,
         DOMAIN permissions' = DOMAIN permissions
  PROVE  MembersFollow
  BY DEF MembersFollow, RowsOfMembers, NoMembersLeft, OnlyMembers, AllMembers, Everyone

LEMMA NoMembers == Members(<<>>) = {}
  BY DEF Members

\* The state of a project only changes as it is created, saved, accepted, deployed
\* or deleted.
LEMMA ElsewhereMembers ==
  ASSUME DelegationTypeOK, RowsOfMembers, NEW c \in Calls, Elsewhere(c)
  PROVE  MembersFollow
<1>1. UNCHANGED <<cps, ips, permissions>>
  BY DEF Elsewhere, people, GetProject, SaveDraft, PrepareSave, Accepting,
         AcceptProject, GetMilestones, CreateFunds, CreateEscrow, DeleteDrafts,
         RequestDeployment, DeployContracts, DeclareDeployed, RequestDeletion, Die, data
<1>2. project \in [state : ProjectState, editor : Users]
  BY DEF DelegationTypeOK, TypeOK
<1>3. ASSUME NEW user \in Providers, AcceptProject(c, user)
      PROVE  Exists' = Exists
  BY <1>2, <1>3 DEF AcceptProject, Exists, Editable, Accepted
<1>4. CASE DeclareDeployed(c)
  BY <1>1, <1>2, <1>4, SameMembers DEF DeclareDeployed, Exists, Accepted
<1>5. CASE UNCHANGED project
  BY <1>1, <1>5, SameMembers DEF Exists
<1>6. QED
  BY <1>1, <1>3, <1>4, <1>5, SameMembers
     DEF Elsewhere, GetProject, SaveDraft, PrepareSave, Accepting, GetMilestones,
         CreateFunds, CreateEscrow, DeleteDrafts, RequestDeployment, DeployContracts,
         RequestDeletion, Die

LEMMA CreateMembers ==
  ASSUME DelegationTypeOK, RowsOfMembers, NEW c \in Calls,
         CreateProjectWithPurchaser(c)
  PROVE  MembersFollow
<1>1. ~Exists /\ Exists'
  BY DEF CreateProjectWithPurchaser, CreateProject, Exists, Editable, Accepted
<1>2. Members(cps) = {} /\ ips = {} /\ DOMAIN permissions = {}
  BY <1>1 DEF MembersFollow, RowsOfMembers, NoMembersLeft, OnlyMembers, AllMembers, Everyone
<1>3. UNCHANGED <<cps, ips>>
  BY DEF CreateProjectWithPurchaser, CreateProject, data
<1>4. DOMAIN permissions' = {purchaser}
  BY <1>2 DEF CreateProjectWithPurchaser, Granting
<1>5. QED
  BY <1>1, <1>2, <1>3, <1>4
     DEF MembersFollow, RowsOfMembers, NoMembersLeft, OnlyMembers, AllMembers, Everyone

LEMMA SaveMembers ==
  ASSUME DelegationTypeOK, RowsOfMembers, NEW c \in Calls,
         NEW created \in SUBSET MilestoneIds, NEW joining \in SUBSET Providers,
         SaveProjectWithMembers(c, created, joining)
  PROVE  MembersFollow
<1> DEFINE r == request[c]
<1>1. CASE ~Committed(r)
  <2>1. UNCHANGED <<project, cps, ips, permissions>>
    BY <1>1 DEF SaveProjectWithMembers, SaveProject, people
  <2>2. QED
    BY <2>1, SameMembers DEF Exists
<1>2. CASE Committed(r)
  <2>1. /\ r.provider \in Providers \cup {Nobody}
        /\ r.state \in {"NEW_PROJECT", "ADD_MILESTONES"}
    BY ReadType DEF SaveProjectWithMembers, SaveProject, DelegationTypeOK
  <2>2. Exists /\ Exists'
    BY <1>2, <2>1
       DEF SaveProjectWithMembers, SaveProject, Committed, Exists, Editable, Accepted
  <2>3. Members(cps') = Members(cps) \cup ({r.provider} \ {Nobody})
    <3>1. CASE r.provider = Nobody
      BY <1>2, <3>1 DEF SaveProjectWithMembers, SaveProject
    <3>2. CASE r.provider # Nobody
      <4>1. r.provider \in Providers /\ cps' = Append(cps, r.provider)
        BY <1>2, <2>1, <3>2 DEF SaveProjectWithMembers, SaveProject
      <4>2. QED
        BY <3>2, <4>1, MembersGrow DEF DelegationTypeOK
    <3>3. QED
      BY <3>1, <3>2
  <2>4. /\ ips' = ips \cup joining
        /\ DOMAIN permissions' = DOMAIN permissions \cup Joins(r, joining)
    BY <1>2 DEF SaveProjectWithMembers
  <2>5. QED
    BY <2>2, <2>3, <2>4
       DEF MembersFollow, RowsOfMembers, NoMembersLeft, OnlyMembers, AllMembers, Everyone, Joins
<1>3. QED
  BY <1>1, <1>2

LEMMA DeletionMembers ==
  ASSUME DelegationTypeOK, RowsOfMembers, NEW c \in Calls,
         DeleteProjectWithMembers(c)
  PROVE  MembersFollow
<1>1. CASE Exists /\ funds = {} /\ subFunds = {}
  <2>1. DeleteProject(c) /\ ips' = {} /\ permissions' = NoRows
    BY <1>1 DEF DeleteProjectWithMembers
  <2>2. project'.state = "deleted" /\ cps' = <<>>
    BY <1>1, <2>1 DEF DeleteProject, DelegationTypeOK, TypeOK
  <2>3. ~Exists'
    BY <2>2 DEF Exists, Editable, Accepted
  <2>4. DOMAIN permissions' = {}
    BY <2>1 DEF NoRows
  <2>5. QED
    BY <2>1, <2>2, <2>3, <2>4, NoMembers
       DEF MembersFollow, RowsOfMembers, NoMembersLeft, OnlyMembers, AllMembers, Everyone
<1>2. CASE ~(Exists /\ funds = {} /\ subFunds = {})
  <2>1. UNCHANGED <<project, cps, ips, permissions>>
    BY <1>2 DEF DeleteProjectWithMembers, DeleteProject, data, people
  <2>2. QED
    BY <2>1, SameMembers DEF Exists
<1>3. QED
  BY <1>1, <1>2

\* The second delete of a removal, of members it deleted or never had to.
LEMMA RemovalMembers ==
  ASSUME DelegationTypeOK, RowsOfMembers, NEW c \in Calls, DeleteProjectProvider(c),
         task[c].gone \subseteq task[c].remove
  PROVE  /\ RowsOfMembers'
         /\ task[c].remove \cap (ips \cup Members(cps)) \subseteq task[c].gone =>
              (AllMembers => AllMembers')
<1> DEFINE remove == task[c].remove
           gone == task[c].gone
<1>1. purchaser \notin remove
  BY ReadTask, ProjectFlowAssumption DEF DeleteProjectProvider
<1>2. /\ project' = project /\ ips' = ips \ gone
      /\ DOMAIN permissions' = DOMAIN permissions \ remove
  BY DEF DeleteProjectProvider, Revoking
<1>3. Members(cps') = Members(cps) \ gone
  BY DEF DeleteProjectProvider, Without
<1>4. Exists' = Exists
  BY <1>2 DEF Exists
<1>5. Everyone' = Everyone \ gone
  BY <1>1, <1>2, <1>3, <1>4 DEF Everyone
<1>6. RowsOfMembers'
  BY <1>2, <1>3, <1>4, <1>5 DEF RowsOfMembers, NoMembersLeft, OnlyMembers
<1>7. ASSUME remove \cap (ips \cup Members(cps)) \subseteq gone, AllMembers
      PROVE  AllMembers'
  BY <1>1, <1>2, <1>5, <1>7 DEF AllMembers, Everyone
<1>8. QED
  BY <1>6, <1>7

LEMMA StaffingMembers ==
  ASSUME DelegationTypeOK, RowsOfMembers, NEW c \in Calls, Staffing(c),
         ~DeleteProjectProvider(c)
  PROVE  MembersFollow
<1>1. ASSUME NEW asked \in SUBSET Users,
             RequestAddIP(c, asked) \/ RequestModifyIp(c, asked)
      PROVE  MembersFollow
  BY <1>1, SameMembers DEF RequestAddIP, RequestModifyIp, vars, data, people, Exists
<1>2. CASE CreateProjectProvider(c)
  <2> DEFINE add == task[c].add
  <2>1. UNCHANGED <<project, cps>>
    BY <1>2 DEF CreateProjectProvider, vars, data
  <2>2. CASE Exists /\ add \cap (Everyone \cup DOMAIN permissions) = {}
    <3>1. ips' = ips \cup add /\ DOMAIN permissions' = DOMAIN permissions \cup add
      BY <1>2, <2>2 DEF CreateProjectProvider, Granting
    <3>2. QED
      BY <2>1, <2>2, <3>1
         DEF MembersFollow, RowsOfMembers, NoMembersLeft, OnlyMembers, AllMembers, Everyone, Exists
  <2>3. CASE ~(Exists /\ add \cap (Everyone \cup DOMAIN permissions) = {})
    <3>1. UNCHANGED <<ips, permissions>>
      BY <1>2, <2>3 DEF CreateProjectProvider, people
    <3>2. QED
      BY <2>1, <3>1, SameMembers DEF Exists
  <2>4. QED
    BY <2>2, <2>3
<1>3. CASE DeleteMembers(c)
  BY <1>3, SameMembers DEF DeleteMembers, vars, data, people, Exists
<1>4. ASSUME NEW users \in Grantees, NEW permission \in PermissionUpdates,
             RequestPermissions(c, users, permission)
      PROVE  MembersFollow
  BY <1>4, SameMembers DEF RequestPermissions, vars, data, Exists
<1>5. CASE UpdatePermissions(c)
  <2>1. DOMAIN permissions' = DOMAIN permissions
    BY <1>5 DEF UpdatePermissions, Granting
  <2>2. QED
    BY <1>5, <2>1, SameMembers DEF UpdatePermissions, vars, data, Exists
<1>6. QED
  BY <1>1, <1>2, <1>3, <1>4, <1>5 DEF Staffing

LEMMA MembersStep ==
  ASSUME DelegationTypeOK, RowsOfMembers, [DelegationNext]_delegationVars,
         ~\E c \in Calls : DeleteProjectProvider(c)
  PROVE  MembersFollow
<1>1. ASSUME NEW c \in Calls, Flow(c) PROVE MembersFollow
  <2>1. ASSUME NEW joining \in SUBSET Providers, RollBackSave(c, joining)
        PROVE  MembersFollow
    BY <2>1, SameMembers DEF RollBackSave, data, people, Exists
  <2>2. QED
    BY <1>1, <2>1, ElsewhereMembers, CreateMembers, SaveMembers, DeletionMembers DEF Flow
<1>2. ASSUME NEW c \in Calls, Splitting(c) PROVE MembersFollow
  BY <1>2, SameMembers
     DEF Splitting, RequestBatch, GetMilestone, SaveSubMilestone, StoreSubMilestone,
         LoseMilestone, CreateSubFunds, vars, data, people, Exists
<1>3. ASSUME NEW c \in Calls, DieDelegating(c) PROVE MembersFollow
  BY <1>3, SameMembers DEF DieDelegating, vars, data, people, Exists
<1>4. ASSUME NEW m \in Divisible, ChangeStatus(m) PROVE MembersFollow
  BY <1>4, SameMembers DEF ChangeStatus, vars, data, people, Exists
<1>5. CASE StartWork
  BY <1>5, SameMembers DEF StartWork, vars, data, people, Exists
<1>6. CASE UNCHANGED delegationVars
  BY <1>6, SameMembers DEF delegationVars, vars, data, people, Exists
<1>7. ASSUME NEW m \in Ids, TakeAway(m) PROVE MembersFollow
  BY <1>7, SameMembers DEF TakeAway, LoseMilestone, vars, data, people, Exists
<1>8. QED
  BY <1>1, <1>2, <1>3, <1>4, <1>5, <1>6, <1>7, StaffingMembers DEF DelegationNext

-----------------------------------------------------------------------------
\* ProjectFlow under the requests of this module.  A step is one of ProjectFlow, or
\* ends a request without a write, or deletes members.
RequestEnds ==
  \E c \in Calls : /\ request[c].at \in {"saving", "deleting"} /\ End(c)
                   /\ UNCHANGED <<faults, project, data, saved>>

LEMMA FlowSteps ==
  ASSUME DelegationTypeOK, [DelegationNext]_delegationVars
  PROVE  \/ [Next]_vars
         \/ RequestEnds
         \/ \E c \in Calls : DeleteProjectProvider(c)
<1>1. ASSUME NEW c \in Calls, Flow(c) PROVE [Next]_vars \/ RequestEnds
  <2>1. CASE Elsewhere(c)
    BY <2>1 DEF Elsewhere, Next, Editing, Accepting, Ending
  <2>2. CASE CreateProjectWithPurchaser(c)
    BY <2>2 DEF CreateProjectWithPurchaser, Next, Editing
  <2>3. ASSUME NEW created \in SUBSET MilestoneIds, NEW joining \in SUBSET Providers,
               SaveProjectWithMembers(c, created, joining)
        PROVE  Next
    BY <2>3 DEF SaveProjectWithMembers, Next, Editing
  <2>4. ASSUME NEW joining \in SUBSET Providers, RollBackSave(c, joining)
        PROVE  RequestEnds
    BY <2>4 DEF RollBackSave, RequestEnds
  <2>5. CASE DeleteProjectWithMembers(c)
    BY <2>5 DEF DeleteProjectWithMembers, RequestEnds, Next, Ending
  <2>6. QED
    BY <1>1, <2>1, <2>2, <2>3, <2>4, <2>5 DEF Flow
<1>2. ASSUME NEW c \in Calls, Staffing(c)
      PROVE  UNCHANGED vars \/ DeleteProjectProvider(c)
  BY <1>2 DEF Staffing, RequestAddIP, RequestModifyIp, CreateProjectProvider,
              DeleteMembers, RequestPermissions, UpdatePermissions
<1>a. ASSUME NEW m, LoseMilestone(m) PROVE Next
  BY <1>a DEF LoseMilestone, Next, DelegationTypeOK, TypeOK
<1>3. ASSUME NEW c \in Calls, Splitting(c) \/ DieDelegating(c) PROVE [Next]_vars
  BY <1>3, <1>a
     DEF Splitting, RequestBatch, GetMilestone, SaveSubMilestone, StoreSubMilestone,
         CreateSubFunds, DieDelegating
<1>b. ASSUME NEW m \in Ids, TakeAway(m) PROVE [Next]_vars
  BY <1>a, <1>b DEF TakeAway
<1>4. ASSUME NEW m \in Divisible, ChangeStatus(m) PROVE UNCHANGED vars
  BY <1>4 DEF ChangeStatus
<1>5. CASE StartWork
  BY <1>5 DEF StartWork
<1>6. CASE UNCHANGED delegationVars
  BY <1>6 DEF delegationVars
<1>7. QED
  BY <1>1, <1>2, <1>3, <1>b, <1>4, <1>5, <1>6 DEF DelegationNext

\* What can happen in a behaviour, and what clients send, does not change.
LEMMA Given ==
  ASSUME DelegationTypeOK, [DelegationNext]_delegationVars
  PROVE  UNCHANGED <<faults, clients>>
<1>1. faults' = faults
  <2>1. [Next]_vars => faults' = faults
    BY DEF Next, Editing, Accepting, Ending, vars, CreateProject, GetProject, SaveDraft,
           PrepareSave, SaveProject, AcceptProject, GetMilestones, CreateFunds,
           CreateEscrow, DeleteDrafts, RequestDeployment, DeployContracts,
           DeclareDeployed, RequestDeletion, DeleteProject, Die, LoseMilestone
  <2>2. QED
    BY <2>1, FlowSteps DEF RequestEnds, DeleteProjectProvider
<1>2. clients' = clients
  BY DEF DelegationNext, delegationVars, Flow, Elsewhere, CreateProjectWithPurchaser,
         SaveProjectWithMembers, RollBackSave, DeleteProjectWithMembers, Staffing,
         RequestAddIP, RequestModifyIp, CreateProjectProvider, DeleteMembers,
         DeleteProjectProvider, RequestPermissions, UpdatePermissions, Splitting,
         RequestBatch, GetMilestone, SaveSubMilestone, CreateSubFunds, DieDelegating,
         TakeAway, ChangeStatus, StartWork
<1>3. QED
  BY <1>1, <1>2


\* The row of Escrow has nothing to do with the members.
RowsInv == Fresh /\ RowInv

LEMMA RowsDelegated ==
  ASSUME DelegationTypeOK, RowsInv, [DelegationNext]_delegationVars
  PROVE  RowsInv'
<1>1. TypeOK
  BY DEF DelegationTypeOK
<1>2. CASE [Next]_vars
  BY <1>1, <1>2, FreshStep, RowStep DEF RowsInv
<1>3. CASE RequestEnds
  BY <1>1, <1>3, FreshEnded, RowEnded DEF RowsInv, RequestEnds
<1>4. ASSUME NEW c \in Calls, DeleteProjectProvider(c) PROVE RowsInv'
  BY <1>4 DEF DeleteProjectProvider, RowsInv, Fresh, AllIdle, RowInv, Exists, OnItsWay,
              OwnIds
<1>5. QED
  BY <1>2, <1>3, <1>4, FlowSteps

\* However requests overlap, and whatever members come and go: a project that
\* waits for its contracts has the row of Escrow that addEscrow needs, unless a
\* request died on the way or milestones were taken from another project.
THEOREM DelegatedHasItsRow == DelegationSpec => []AcceptedHasRow
<1>1. DelegationInit => RowsInv
  BY RowInit DEF DelegationInit, RowsInv, Fresh, Init, AllIdle
<1>2. DelegationTypeOK /\ RowsInv /\ [DelegationNext]_delegationVars => RowsInv'
  BY RowsDelegated
<1>3. RowsInv => AcceptedHasRow
  BY RowHas DEF RowsInv
<1>4. QED
  BY <1>1, <1>2, <1>3, DelegationTypeCorrect, PTL DEF DelegationSpec
-----------------------------------------------------------------------------
\* How the requests of this module move on: staff requests start only where
\* clients send them, and a removal follows the first of its two deletes.
Removed(t, from) ==
  /\ from.at = "removing" /\ t.remove = from.remove
  /\ t.gone = from.remove \cap (ips \cup Members(cps))

StaffAt == {"adding", "removing", "revoking"}

TaskGoes(t, from) ==
  /\ t.at \in StaffAt => "staff" \in clients \/ from.at \in StaffAt
  /\ t.at = "revoking" => Removed(t, from)

LEMMA TaskSteps ==
  ASSUME DelegationTypeOK, [DelegationNext]_delegationVars
  PROVE  task' = task \/ \E c \in Calls : \E t : Carry(c, t) /\ TaskGoes(t, task[c])
<1> DEFINE Goes == \E c \in Calls : \E t : Carry(c, t) /\ TaskGoes(t, task[c])
<1>1. ASSUME NEW c \in Calls, NEW t, Carry(c, t), t.at \notin StaffAt
      PROVE  Goes
  BY <1>1 DEF TaskGoes, StaffAt
<1>2. Idle.at \notin StaffAt
  BY IdleAt DEF StaffAt
<1>3. ASSUME NEW c \in Calls, Staffing(c)
      PROVE  Goes
  <2>1. ASSUME NEW asked, RequestAddIP(c, asked)
        PROVE  Goes
    <3> DEFINE t == [at |-> "adding", add |-> asked, remove |-> {}, exact |-> FALSE,
                     asked |-> asked]
    <3>1. Carry(c, t) /\ t.at = "adding" /\ "staff" \in clients
      BY <2>1 DEF RequestAddIP
    <3>2. TaskGoes(t, task[c])
      BY <3>1 DEF TaskGoes
    <3>3. QED
      BY <3>1, <3>2
  <2>2. ASSUME NEW asked, RequestModifyIp(c, asked)
        PROVE  Goes
    <3> DEFINE add == asked \ Everyone
               t == [at |-> IF add # {} THEN "adding" ELSE "removing", add |-> add,
                     remove |-> Leaving(asked), exact |-> TRUE, asked |-> asked]
    <3>1. Carry(c, t) /\ t.at # "revoking" /\ "staff" \in clients
      BY <2>2 DEF RequestModifyIp
    <3>2. TaskGoes(t, task[c])
      BY <3>1 DEF TaskGoes
    <3>3. QED
      BY <3>1, <3>2
  <2>3. CASE CreateProjectProvider(c)
    <3> DEFINE t == [task[c] EXCEPT !.at = "removing"]
    <3>1. Carry(c, t) \/ Carry(c, Idle)
      BY <2>3 DEF CreateProjectProvider, Finish
    <3>2. t.at = "removing" /\ task[c].at = "adding"
      BY <2>3, ReadTask DEF CreateProjectProvider, Tasks
    <3>3. TaskGoes(t, task[c])
      BY <3>2 DEF TaskGoes, StaffAt
    <3>4. QED
      BY <1>1, <1>2, <3>1, <3>3
  <2>4. CASE DeleteMembers(c)
    <3> DEFINE t == [at |-> "revoking", remove |-> task[c].remove,
                     gone |-> task[c].remove \cap (ips \cup Members(cps)),
                     exact |-> task[c].exact, asked |-> task[c].asked]
    <3>1. Carry(c, t) /\ task[c].at = "removing"
      BY <2>4 DEF DeleteMembers
    <3>2. TaskGoes(t, task[c])
      BY <3>1 DEF TaskGoes, StaffAt, Removed
    <3>3. QED
      BY <3>1, <3>2
  <2>5. CASE DeleteProjectProvider(c) \/ UpdatePermissions(c)
    BY <1>1, <1>2, <2>5 DEF DeleteProjectProvider, UpdatePermissions, Finish
  <2>6. ASSUME NEW users, NEW permission, RequestPermissions(c, users, permission)
        PROVE  Goes
    <3> DEFINE t == [at |-> "granting", users |-> users, permission |-> permission]
    <3>1. Carry(c, t) /\ t.at \notin StaffAt
      BY <2>6 DEF RequestPermissions, StaffAt
    <3>2. QED
      BY <1>1, <3>1
  <2>7. QED
    BY <1>3, <2>1, <2>2, <2>3, <2>4, <2>5, <2>6 DEF Staffing
<1>4. ASSUME NEW c \in Calls, Splitting(c) \/ DieDelegating(c)
      PROVE  Goes
  <2>1. ASSUME NEW items, RequestBatch(c, items)
        PROVE  Goes
    <3> DEFINE t == [at |-> "reading", members |-> Everyone, left |-> items,
                     created |-> {}]
    <3>1. Carry(c, t) /\ t.at \notin StaffAt
      BY <2>1 DEF RequestBatch, StaffAt
    <3>2. QED
      BY <1>1, <3>1
  <2>2. ASSUME NEW item, GetMilestone(c, item)
        PROVE  Goes
    <3> DEFINE t == [at |-> "saving", members |-> task[c].members, left |-> task[c].left,
                     created |-> task[c].created, item |-> item,
                     number |-> SequenceNumber(item.milestoneId)]
    <3>1. (Carry(c, t) \/ Carry(c, Idle)) /\ t.at \notin StaffAt
      BY <2>2 DEF GetMilestone, Reject, Finish, StaffAt
    <3>2. QED
      BY <1>1, <1>2, <3>1
  <2>3. ASSUME NEW id, SaveSubMilestone(c, id)
        PROVE  Goes
    <3> DEFINE created == IF task[c].item.id = "new" THEN task[c].created \cup {id}
                          ELSE task[c].created
               last == [at |-> "funding", created |-> created]
               next == [at |-> "reading", members |-> task[c].members,
                        left |-> task[c].left - 1, created |-> created]
    <3>1. Carry(c, last) \/ Carry(c, next) \/ Carry(c, Idle)
      BY <2>3 DEF SaveSubMilestone, Finish
    <3>2. last.at \notin StaffAt /\ next.at \notin StaffAt
      BY DEF StaffAt
    <3>3. QED
      BY <1>1, <1>2, <3>1, <3>2
  <2>4. CASE CreateSubFunds(c) \/ DieDelegating(c)
    BY <1>1, <1>2, <2>4 DEF CreateSubFunds, DieDelegating, Finish
  <2>5. QED
    BY <1>4, <2>1, <2>2, <2>3, <2>4 DEF Splitting
<1>5. ASSUME NEW c \in Calls, Flow(c)
      PROVE  task' = task
  BY <1>5 DEF Flow, Elsewhere, CreateProjectWithPurchaser, SaveProjectWithMembers,
              RollBackSave, DeleteProjectWithMembers
<1>6. \/ \E m \in Ids : TakeAway(m)
      \/ \E m \in Divisible : ChangeStatus(m)
      \/ StartWork
      \/ UNCHANGED delegationVars
      => task' = task
  BY DEF TakeAway, ChangeStatus, StartWork, delegationVars
<1>7. QED
  BY <1>3, <1>4, <1>5, <1>6 DEF DelegationNext

\* Without staff requests nobody is added to or removed from the members.
StaffInv == "staff" \notin clients => \A c \in Calls : task[c].at \notin StaffAt

LEMMA StaffStep ==
  ASSUME DelegationTypeOK, StaffInv, [DelegationNext]_delegationVars
  PROVE  StaffInv'
<1>1. clients' = clients
  BY Given
<1>2. CASE task' = task
  BY <1>1, <1>2 DEF StaffInv
<1>3. ASSUME NEW c \in Calls, NEW t, Carry(c, t), TaskGoes(t, task[c])
      PROVE  StaffInv'
  <2>1. \A d \in Calls : task'[d] = IF d = c THEN t ELSE task[d]
    BY <1>3 DEF Carry, DelegationTypeOK
  <2>2. QED
    BY <1>1, <1>3, <2>1 DEF StaffInv, TaskGoes
<1>4. QED
  BY <1>2, <1>3, TaskSteps

\* A removal deletes members it was asked to.
GoneAsked ==
  \A c \in Calls : task[c].at = "revoking" => task[c].gone \subseteq task[c].remove

LEMMA GoneStep ==
  ASSUME DelegationTypeOK, GoneAsked, [DelegationNext]_delegationVars
  PROVE  GoneAsked'
<1>1. CASE task' = task
  BY <1>1 DEF GoneAsked
<1>2. ASSUME NEW c \in Calls, NEW t, Carry(c, t), TaskGoes(t, task[c])
      PROVE  GoneAsked'
  <2>1. \A d \in Calls : task'[d] = IF d = c THEN t ELSE task[d]
    BY <1>2 DEF Carry, DelegationTypeOK
  <2>2. t.at = "revoking" => t.gone \subseteq t.remove
    BY <1>2 DEF TaskGoes, Removed
  <2>3. QED
    BY <2>1, <2>2 DEF GoneAsked
<1>3. QED
  BY <1>1, <1>2, TaskSteps

\* The rows of the members; where staff requests overlap, some may be missing.
PermissionsInv == RowsOfMembers /\ GoneAsked /\ (Settled => AllMembers)

-----------------------------------------------------------------------------
\* What a request of this module knows where it runs alone: only individual
\* providers are removed, modifyIp has what it compared, also with the members it
\* has deleted already.
TaskHeld(t) ==
  /\ t.at = "granting" => t.users \subseteq granted /\ cps # <<>>
  /\ t.at \in StaffAt => t.remove \cap Members(cps) = {}
  /\ t.at = "adding" =>
       IF t.exact
       THEN Exists /\ t.add = t.asked \ Everyone /\ t.remove = ips \ t.asked
       ELSE t.remove = {}
  /\ t.at \in {"removing", "revoking"} =>
       t.exact /\ t.asked \subseteq Everyone /\ t.remove = ips \ t.asked
  /\ t.at = "revoking" => t.gone = t.remove

TaskAlone == \A c, d \in Calls : task[c] # Idle /\ task[d] # Idle => c = d

\* Nobody is a member twice; who was granted nothing has what they started with;
\* without a CP, who could grant something else, everyone sees the members.
Apart ==
  /\ Members(cps) \cap ips = {}
  /\ \A u \in ips \ granted : permissions[u] = IndividualPermission
  /\ cps = <<>> => \A u \in ips : permissions[u].Members

PeopleInv == Serial => TaskAlone /\ Apart /\ \A c \in Calls : TaskHeld(task[c])

\* A step of the one request of this module there is.
LEMMA TaskMoves ==
  ASSUME DelegationTypeOK, TaskAlone, NEW c \in Calls, NEW t, Carry(c, t),
         task[c] # Idle \/ Quiet
  PROVE  /\ \A d \in Calls : d # c => task[d] = Idle /\ task'[d] = Idle
         /\ task'[c] = t
         /\ TaskAlone'
  BY DEF DelegationTypeOK, Carry, TaskAlone, Quiet

LEMMA IdleHeld == TaskHeld(Idle)' /\ TaskHeld(Idle)
  BY DEF TaskHeld, Idle, StaffAt

LEMMA TaskPeople ==
  ASSUME DelegationTypeOK, PeopleInv, Serial, NEW c \in Calls, NEW t, Carry(c, t),
         task[c] # Idle \/ Quiet, Apart', TaskHeld(t)', faults' = faults
  PROVE  PeopleInv'
<1>1. /\ \A d \in Calls : d # c => task[d] = Idle /\ task'[d] = Idle
      /\ task'[c] = t
      /\ TaskAlone'
  BY TaskMoves DEF PeopleInv
<1>2. \A d \in Calls : TaskHeld(task[d])'
  BY <1>1, IdleHeld DEF TaskHeld
<1>3. QED
  BY <1>1, <1>2 DEF PeopleInv, Serial

\* A step while there is none.
LEMMA NoTaskPeople ==
  ASSUME \A c \in Calls : task[c] = Idle, task' = task, Apart'
  PROVE  PeopleInv'
<1>1. \A d \in Calls : TaskHeld(task[d])'
  BY IdleHeld DEF TaskHeld
<1>2. QED
  BY <1>1 DEF PeopleInv, TaskAlone

LEMMA ApartKept ==
  ASSUME Apart, UNCHANGED <<cps, ips, permissions>>, granted \subseteq granted'
  PROVE  Apart'
  BY DEF Apart

\* The rows of the members, who are all that Granting is about.
LEMMA MemberRows ==
  ASSUME DelegationTypeOK, PermissionsInv, Serial
  PROVE  /\ ips \subseteq DOMAIN permissions /\ Members(cps) \subseteq DOMAIN permissions
         /\ purchaser \notin ips
         /\ DOMAIN permissions = Everyone
  BY ProjectFlowAssumption
     DEF PermissionsInv, RowsOfMembers, NoMembersLeft, OnlyMembers, AllMembers, Settled,
         Serial, Everyone, DelegationTypeOK

LEMMA FlowPeople ==
  ASSUME DelegationTypeOK, PermissionsInv, PeopleInv, Serial, NEW c \in Calls, Flow(c)
  PROVE  PeopleInv'
<1>1. Apart /\ \A d \in Calls : task[d] = Idle
  BY DEF PeopleInv, Flow, Elsewhere, CreateProjectWithPurchaser, SaveProjectWithMembers,
         RollBackSave, DeleteProjectWithMembers, InFlow
<1>2. task' = task
  BY DEF Flow, Elsewhere, CreateProjectWithPurchaser, SaveProjectWithMembers,
         RollBackSave, DeleteProjectWithMembers
<1>3. CASE Elsewhere(c)
  <2>1. UNCHANGED <<cps, ips, permissions, granted>>
    BY <1>3 DEF Elsewhere, people, GetProject, SaveDraft, PrepareSave, Accepting,
         AcceptProject, GetMilestones, CreateFunds, CreateEscrow, DeleteDrafts,
         RequestDeployment, DeployContracts, DeclareDeployed, RequestDeletion, Die, data
  <2>2. QED
    BY <1>1, <1>2, <2>1, ApartKept, NoTaskPeople
<1>4. CASE CreateProjectWithPurchaser(c)
  <2>1. ~Exists
    BY <1>4 DEF CreateProjectWithPurchaser, CreateProject, Exists, Editable, Accepted
  <2>2. ips' = {}
    BY <1>4, <2>1 DEF CreateProjectWithPurchaser, PermissionsInv, RowsOfMembers, NoMembersLeft
  <2>3. Apart'
    BY <2>2 DEF Apart
  <2>4. QED
    BY <1>1, <1>2, <2>3, NoTaskPeople
<1>5. ASSUME NEW created \in SUBSET MilestoneIds, NEW joining \in SUBSET Providers,
             SaveProjectWithMembers(c, created, joining)
      PROVE  PeopleInv'
  <2> DEFINE r == request[c]
             new == Joins(r, joining)
  <2>1. CASE ~Committed(r)
    <3>1. UNCHANGED <<cps, ips, permissions, granted>>
      BY <1>5, <2>1 DEF SaveProjectWithMembers, SaveProject, people
    <3>2. QED
      BY <1>1, <1>2, <3>1, ApartKept, NoTaskPeople
  <2>2. CASE Committed(r)
    <3>1. r.provider \in Providers \cup {Nobody} /\ Exists
      BY <1>5, <2>2, ReadType DEF SaveProjectWithMembers, SaveProject, DelegationTypeOK, Committed
    <3>2. /\ ips' = ips \cup joining
          /\ granted' = granted \ new
          /\ permissions' = [u \in DOMAIN permissions \cup new |->
                               IF u \in joining THEN IndividualPermission
                               ELSE IF u = r.provider THEN ProviderPermission
                               ELSE permissions[u]]
      BY <1>5, <2>2 DEF SaveProjectWithMembers
    <3>3. new \cap Everyone = {} /\ joining \subseteq new
      BY <1>5, <2>2 DEF SaveProjectWithMembers, Joins
    <3>4. joining # {} => r.provider = Nobody
      BY <1>5 DEF SaveProjectWithMembers, MayBring
    <3>5. Members(cps') = Members(cps) \cup ({r.provider} \ {Nobody})
          /\ (cps' = <<>> => cps = <<>>)
      <4>1. CASE r.provider = Nobody
        BY <1>5, <2>2, <4>1 DEF SaveProjectWithMembers, SaveProject
      <4>2. CASE r.provider # Nobody
        <5>1. r.provider \in Providers /\ cps' = Append(cps, r.provider)
          BY <1>5, <2>2, <3>1, <4>2 DEF SaveProjectWithMembers, SaveProject
        <5>2. QED
          BY <4>2, <5>1, MembersGrow DEF DelegationTypeOK
      <4>3. QED
        BY <4>1, <4>2
    <3>6. ips \subseteq Everyone /\ Members(cps) \subseteq Everyone
      BY <3>1 DEF Everyone
    <3>7. \A u \in joining : permissions'[u] = IndividualPermission
      BY <3>2, <3>3
    <3>8. \A u \in ips : permissions'[u] = permissions[u] /\ u \notin new
      <4>1. \A u \in ips : u \in DOMAIN permissions /\ u \notin new
        BY <3>3, <3>6, MemberRows
      <4>2. \A u : u = r.provider /\ u \in Providers => u \in new
        BY ProjectFlowAssumption DEF Joins
      <4>3. ips \subseteq Providers
        BY DEF DelegationTypeOK
      <4>4. QED
        BY <3>2, <3>3, <4>1, <4>2, <4>3
    <3>9. IndividualPermission.Members
      BY DEF IndividualPermission
    <3>10. Members(cps') \cap ips' = {}
      <4>1. joining \cap Members(cps) = {} /\ {r.provider} \ {Nobody} \subseteq new
        BY <3>3, <3>6 DEF Joins
      <4>2. QED
        BY <1>1, <3>2, <3>3, <3>4, <3>5, <3>6, <4>1 DEF Apart
    <3>11. Apart'
      BY <1>1, <3>2, <3>3, <3>5, <3>7, <3>8, <3>9, <3>10 DEF Apart
    <3>12. QED
      BY <1>1, <1>2, <3>11, NoTaskPeople
  <2>3. QED
    BY <2>1, <2>2
<1>6. ASSUME NEW joining \in SUBSET Providers, RollBackSave(c, joining)
      PROVE  PeopleInv'
  BY <1>1, <1>2, <1>6, ApartKept, NoTaskPeople DEF RollBackSave, data, people
<1>7. CASE DeleteProjectWithMembers(c)
  <2>1. CASE Exists /\ funds = {} /\ subFunds = {}
    <3>1. ips' = {}
      BY <1>7, <2>1 DEF DeleteProjectWithMembers
    <3>2. Apart'
      BY <3>1 DEF Apart
    <3>3. QED
      BY <1>1, <1>2, <3>2, NoTaskPeople
  <2>2. CASE ~(Exists /\ funds = {} /\ subFunds = {})
    <3>1. UNCHANGED <<cps, people>>
      BY <1>7, <2>2 DEF DeleteProjectWithMembers, DeleteProject, data, people
    <3>2. QED
      BY <1>1, <1>2, <3>1, ApartKept, NoTaskPeople DEF people
  <2>3. QED
    BY <2>1, <2>2
<1>8. QED
  BY <1>3, <1>4, <1>5, <1>6, <1>7 DEF Flow

\* Where requests do not overlap, the members deleted are individual providers.
LEMMA ProvidersStay ==
  ASSUME DelegationTypeOK, PeopleInv, OneProvider, Serial, NEW c \in Calls,
         DeleteProjectProvider(c)
  PROVE  cps' = cps
<1> DEFINE rest == Members(cps) \ task[c].gone
<1>1. rest = Members(cps)
  BY DEF PeopleInv, TaskHeld, StaffAt, DeleteProjectProvider
<1>2. cps \in Seq(Providers) /\ Len(cps) \in Nat /\ Len(cps) <= 1
  BY DEF DelegationTypeOK, TypeOK, OneProvider, Serial
<1>3. PICK n \in 0 .. Len(cps) : cps' \in [1 .. n -> rest] /\ Members(cps') = rest
  BY DEF DeleteProjectProvider, Without
<1>4. cps \in [1 .. Len(cps) -> Providers] /\ cps = [i \in 1 .. Len(cps) |-> cps[i]]
  BY <1>2
<1>5. cps' = [i \in 1 .. n |-> cps'[i]] /\ DOMAIN cps' = 1 .. n
  BY <1>3
<1>6. CASE Len(cps) = 0
  <2>1. n = 0
    BY <1>3, <1>6
  <2>2. 1 .. n = 1 .. Len(cps) /\ 1 .. n = {}
    BY <1>6, <2>1
  <2>3. \A i \in 1 .. n : cps'[i] = cps[i]
    BY <2>2
  <2>4. cps' = [i \in 1 .. n |-> cps[i]]
    BY <1>5, <2>3
  <2>5. QED
    BY <1>4, <2>2, <2>4
<1>7. CASE Len(cps) = 1
  <2>1. Members(cps) = {cps[1]}
    BY <1>4, <1>7 DEF Members
  <2>2. n # 0
    <3>1. n = 0 => Members(cps') = {}
      BY <1>5 DEF Members
    <3>2. QED
      BY <1>1, <1>3, <2>1, <3>1
  <2>3. n = 1
    BY <1>3, <1>7, <2>2
  <2>4. cps'[1] = cps[1]
    BY <1>1, <1>3, <2>1, <2>3
  <2>5. QED
    BY <1>4, <1>5, <1>7, <2>3, <2>4
<1>8. \A k \in Nat : k <= 1 => k = 0 \/ k = 1
  OBVIOUS
<1>9. QED
  BY <1>2, <1>6, <1>7, <1>8

LEMMA AdmitQuiet ==
  ASSUME NEW c, Admit(c), Serial, DelegationTypeOK
  PROVE  Quiet /\ Exists
  BY DelegationAssumption DEF Admit, Exists, ProjectState

LEMMA AddPeople ==
  ASSUME DelegationTypeOK, PermissionsInv, PeopleInv, Serial, NEW c \in Calls,
         CreateProjectProvider(c)
  PROVE  PeopleInv'
<1>1. PICK t : t = task[c]
  OBVIOUS
<1>2. /\ task[c] # Idle /\ t.at = "adding" /\ TaskHeld(t) /\ Apart
      /\ UNCHANGED <<faults, project, cps>>
  BY <1>1 DEF CreateProjectProvider, Idle, PeopleInv, vars, data
<1>3. t \in Tasks /\ t.add \subseteq Users
  BY <1>1, <1>2, ReadTask
<1>4. CASE ~(Exists /\ t.add \cap (Everyone \cup DOMAIN permissions) = {})
  <2>1. Carry(c, Idle) /\ UNCHANGED people
    BY <1>1, <1>4 DEF CreateProjectProvider, Finish
  <2>2. Apart'
    BY <1>2, <2>1, ApartKept DEF people
  <2>3. QED
    BY <1>2, <2>1, <2>2, IdleHeld, TaskPeople
<1>5. CASE Exists /\ t.add \cap (Everyone \cup DOMAIN permissions) = {}
  <2>1. /\ ips' = ips \cup t.add
        /\ permissions' = Granting(t.add, IndividualPermission)
        /\ granted' = granted \ t.add
    BY <1>1, <1>5 DEF CreateProjectProvider
  <2>2. Members(cps) \cup ips \subseteq Everyone
    BY <1>5 DEF Everyone
  <2>3. \A u \in t.add : permissions'[u] = IndividualPermission
    BY <2>1 DEF Granting
  <2>4. \A u \in ips : permissions'[u] = permissions[u] /\ u \notin t.add
    BY <1>5, <2>1, <2>2, MemberRows DEF Granting
  <2>5. IndividualPermission.Members
    BY DEF IndividualPermission
  <2>6. Apart'
    BY <1>2, <1>5, <2>1, <2>2, <2>3, <2>4, <2>5 DEF Apart
  <2>7. CASE t.remove = {}
    <3>1. Carry(c, Idle)
      BY <1>1, <1>5, <2>7 DEF CreateProjectProvider, Finish
    <3>2. QED
      BY <1>2, <2>6, <3>1, IdleHeld, TaskPeople
  <2>8. CASE t.remove # {}
    <3>1. PICK u : u = [t EXCEPT !.at = "removing"]
      OBVIOUS
    <3>2. Carry(c, u)
      BY <1>1, <1>5, <2>8, <3>1 DEF CreateProjectProvider
    <3>3. /\ u.at = "removing" /\ u.remove = t.remove /\ u.asked = t.asked
          /\ u.exact = t.exact
      BY <1>2, <1>3, <3>1 DEF Tasks
    <3>4. TaskHeld(u)'
      <4>1. t.exact
        BY <1>2, <2>8 DEF TaskHeld
      <4>2. t.add = t.asked \ Everyone /\ t.remove = ips \ t.asked
        BY <1>2, <4>1 DEF TaskHeld
      <4>3. u.asked \subseteq Everyone' /\ Exists'
        BY <1>2, <1>5, <2>1, <3>3, <4>2 DEF Everyone, Exists
      <4>4. u.remove = ips' \ u.asked
        BY <2>1, <3>3, <4>2
      <4>5. QED
        BY <1>2, <3>3, <4>1, <4>3, <4>4 DEF TaskHeld, StaffAt
    <3>5. QED
      BY <1>2, <2>6, <3>2, <3>4, TaskPeople
  <2>9. QED
    BY <2>7, <2>8
<1>6. QED
  BY <1>4, <1>5

LEMMA StaffingPeople ==
  ASSUME DelegationTypeOK, PermissionsInv, PeopleInv, OneProvider, Serial,
         NEW c \in Calls, Staffing(c)
  PROVE  PeopleInv'
<1>1. ASSUME NEW asked \in SUBSET Users, RequestAddIP(c, asked)
      PROVE  PeopleInv'
  <2> DEFINE t == [at |-> "adding", add |-> asked, remove |-> {}, exact |-> FALSE,
                   asked |-> asked]
  <2>1. Carry(c, t) /\ Quiet /\ UNCHANGED <<faults, cps, people>>
    BY <1>1, AdmitQuiet DEF RequestAddIP, vars, data
  <2>2. TaskHeld(t)'
    BY DEF TaskHeld, StaffAt
  <2>3. Apart'
    BY <2>1, ApartKept DEF PeopleInv, people
  <2>4. QED
    BY <2>1, <2>2, <2>3, TaskPeople
<1>2. ASSUME NEW asked \in SUBSET Users, RequestModifyIp(c, asked)
      PROVE  PeopleInv'
  <2>1. PICK add, remove : add = asked \ Everyone /\ remove = ips \ asked
    OBVIOUS
  <2> DEFINE t == [at |-> IF add # {} THEN "adding" ELSE "removing", add |-> add,
                   remove |-> remove, exact |-> TRUE, asked |-> asked]
  <2>2. Carry(c, t)
    BY <1>2, <2>1 DEF RequestModifyIp, Leaving
  <2>3. Quiet /\ Exists /\ UNCHANGED <<faults, project, cps, people>>
    BY <1>2, AdmitQuiet DEF RequestModifyIp, vars, data
  <2>4. Everyone' = Everyone /\ Exists' /\ ips' = ips
    BY <2>3 DEF Everyone, Exists, people
  <2>5. remove \cap Members(cps) = {}
    BY <2>1 DEF PeopleInv, Apart
  <2>6. t.at = "removing" => asked \subseteq Everyone
    BY <2>1
  <2>7. TaskHeld(t)'
    BY <2>1, <2>3, <2>4, <2>5, <2>6 DEF TaskHeld, StaffAt
  <2>8. Apart'
    BY <2>3, ApartKept DEF PeopleInv, people
  <2>9. QED
    BY <2>2, <2>3, <2>7, <2>8, TaskPeople
<1>3. CASE DeleteProjectProvider(c)
  <2>1. task[c] # Idle /\ task[c].at = "revoking" /\ cps' = cps
    BY <1>3, ProvidersStay DEF DeleteProjectProvider, Idle
  <2>2. PICK gone : gone = task[c].remove /\ gone = task[c].gone
    BY <2>1 DEF PeopleInv, TaskHeld
  <2>3. /\ ips' = ips \ gone /\ granted' = granted \ gone
        /\ permissions' = Revoking(gone)
        /\ Carry(c, Idle) /\ faults' = faults
    BY <1>3, <2>2 DEF DeleteProjectProvider, Finish
  <2>4. \A u \in ips' : permissions'[u] = permissions[u]
    BY <2>3, MemberRows DEF Revoking
  <2>5. Apart'
    BY <2>1, <2>3, <2>4 DEF PeopleInv, Apart
  <2>6. QED
    BY <2>1, <2>3, <2>5, IdleHeld, TaskPeople
<1>7. CASE DeleteMembers(c)
  <2>1. PICK t : t = [at |-> "revoking", remove |-> task[c].remove,
                      gone |-> task[c].remove \cap (ips \cup Members(cps)),
                      exact |-> task[c].exact, asked |-> task[c].asked]
    OBVIOUS
  <2>2. /\ Carry(c, t) /\ task[c] # Idle /\ task[c].at = "removing"
        /\ UNCHANGED <<faults, project, cps, people>>
    BY <1>7, <2>1 DEF DeleteMembers, Idle, vars, data
  <2>3. /\ task[c].remove \cap Members(cps) = {}
        /\ task[c].exact /\ task[c].asked \subseteq Everyone
        /\ task[c].remove = ips \ task[c].asked
    BY <2>2 DEF PeopleInv, TaskHeld, StaffAt
  <2>4. /\ t.at = "revoking" /\ t.remove = task[c].remove /\ t.gone = t.remove
        /\ t.exact = task[c].exact /\ t.asked = task[c].asked
    BY <2>1, <2>3
  <2>5. Everyone' = Everyone /\ ips' = ips
    BY <2>2 DEF Everyone, Exists, people
  <2>6. TaskHeld(t)'
    BY <2>2, <2>3, <2>4, <2>5 DEF TaskHeld
  <2>7. Apart'
    BY <2>2, ApartKept DEF PeopleInv, people
  <2>8. QED
    BY <2>2, <2>6, <2>7, TaskPeople
<1>4. ASSUME NEW users \in Grantees, NEW permission \in PermissionUpdates,
             RequestPermissions(c, users, permission)
      PROVE  PeopleInv'
  <2> DEFINE t == [at |-> "granting", users |-> users, permission |-> permission]
  <2>1. /\ Carry(c, t) /\ Quiet /\ cps # <<>> /\ granted' = granted \cup users
        /\ UNCHANGED <<faults, cps, ips, permissions>>
    BY <1>4, AdmitQuiet DEF RequestPermissions, vars, data
  <2>2. TaskHeld(t)'
    BY <2>1 DEF TaskHeld, StaffAt
  <2>3. Apart'
    BY <2>1, ApartKept DEF PeopleInv
  <2>4. QED
    BY <2>1, <2>2, <2>3, TaskPeople
<1>5. CASE UpdatePermissions(c)
  <2>1. task[c] # Idle /\ TaskHeld(task[c]) /\ task[c].at = "granting"
    BY <1>5 DEF UpdatePermissions, Idle, PeopleInv
  <2>2. Carry(c, Idle) /\ UNCHANGED <<faults, cps, ips, granted>>
    BY <1>5 DEF UpdatePermissions, Finish, vars, data
  <2>3. cps # <<>> /\ task[c].users \subseteq granted
    BY <2>1 DEF TaskHeld
  <2>4. \A u \in ips \ granted : permissions'[u] = permissions[u]
    BY <1>5, <2>3, MemberRows DEF UpdatePermissions, Granting
  <2>5. Apart'
    BY <2>2, <2>3, <2>4 DEF PeopleInv, Apart
  <2>6. QED
    BY <2>1, <2>2, <2>5, IdleHeld, TaskPeople
<1>8. QED
  BY <1>1, <1>2, <1>3, <1>4, <1>5, <1>7, AddPeople DEF Staffing

\* The requests about sub-milestones know nothing of the members but what they copied.
LEMMA SplittingPeople ==
  ASSUME DelegationTypeOK, PeopleInv, Serial, NEW c \in Calls,
         Splitting(c) \/ DieDelegating(c)
  PROVE  PeopleInv'
<1>1. UNCHANGED <<faults, cps, ips, permissions, granted>>
  BY DEF Splitting, RequestBatch, GetMilestone, SaveSubMilestone, StoreSubMilestone,
         LoseMilestone, CreateSubFunds, DieDelegating, vars, data, people
<1>2. Apart'
  BY <1>1, ApartKept DEF PeopleInv
<1>3. ASSUME NEW t, Carry(c, t), t.at \in {"idle", "reading", "saving", "funding"},
             task[c] # Idle \/ Quiet
      PROVE  PeopleInv'
  <2>1. TaskHeld(t)'
    BY <1>3 DEF TaskHeld, StaffAt
  <2>2. QED
    BY <1>1, <1>2, <1>3, <2>1, TaskPeople
<1>4. Idle.at = "idle"
  BY IdleAt
<1>5. ASSUME NEW items \in 1 .. MaxItems, RequestBatch(c, items)
      PROVE  PeopleInv'
  <2> DEFINE t == [at |-> "reading", members |-> Everyone, left |-> items, created |-> {}]
  <2>1. Carry(c, t) /\ Quiet
    BY <1>5, AdmitQuiet DEF RequestBatch
  <2>2. t.at = "reading"
    OBVIOUS
  <2>3. QED
    BY <1>3, <2>1, <2>2
<1>6. ASSUME NEW item \in Items, GetMilestone(c, item)
      PROVE  PeopleInv'
  <2> DEFINE t == [at |-> "saving", members |-> task[c].members, left |-> task[c].left,
                   created |-> task[c].created, item |-> item,
                   number |-> SequenceNumber(item.milestoneId)]
  <2>1. task[c] # Idle /\ (Carry(c, t) \/ Carry(c, Idle))
    BY <1>6, <1>4 DEF GetMilestone, Reject, Finish
  <2>2. t.at = "saving"
    OBVIOUS
  <2>3. QED
    BY <1>3, <1>4, <2>1, <2>2
<1>7. ASSUME NEW id \in Ids, SaveSubMilestone(c, id)
      PROVE  PeopleInv'
  <2> DEFINE created == IF task[c].item.id = "new" THEN task[c].created \cup {id}
                        ELSE task[c].created
             last == [at |-> "funding", created |-> created]
             next == [at |-> "reading", members |-> task[c].members,
                      left |-> task[c].left - 1, created |-> created]
  <2>1. task[c] # Idle /\ (Carry(c, last) \/ Carry(c, next) \/ Carry(c, Idle))
    BY <1>7, <1>4 DEF SaveSubMilestone, Finish
  <2>2. last.at = "funding" /\ next.at = "reading"
    OBVIOUS
  <2>3. QED
    BY <1>3, <1>4, <2>1, <2>2
<1>8. CASE CreateSubFunds(c) \/ DieDelegating(c)
  BY <1>3, <1>4, <1>8 DEF CreateSubFunds, DieDelegating, Finish
<1>9. QED
  BY <1>5, <1>6, <1>7, <1>8 DEF Splitting

LEMMA PeopleStep ==
  ASSUME DelegationTypeOK, PermissionsInv, PeopleInv, OneProvider,
         [DelegationNext]_delegationVars
  PROVE  PeopleInv'
<1>1. CASE ~Serial
  BY <1>1, Given DEF PeopleInv, Serial
<1>2. CASE Serial
  <2>1. CASE \/ \E m \in Ids : TakeAway(m)
             \/ \E m \in Divisible : ChangeStatus(m)
             \/ StartWork
             \/ UNCHANGED delegationVars
    <3>1. UNCHANGED <<faults, project, cps, ips, permissions, granted, task>>
      BY <2>1 DEF TakeAway, LoseMilestone, ChangeStatus, StartWork, delegationVars, vars,
                  data, people
    <3>2. QED
      BY <3>1 DEF PeopleInv, Serial, TaskAlone, Apart, TaskHeld, Everyone, Exists
  <2>2. QED
    BY <1>2, <2>1, FlowPeople, StaffingPeople, SplittingPeople DEF DelegationNext
<1>3. QED
  BY <1>1, <1>2
-----------------------------------------------------------------------------
\* Where staff requests overlap the second delete of a removal may delete the
\* permissions of a member who was added since the first; not otherwise.
LEMMA PermissionsStep ==
  ASSUME DelegationTypeOK, PermissionsInv, StaffInv, PeopleInv,
         [DelegationNext]_delegationVars
  PROVE  PermissionsInv'
<1>1. GoneAsked' /\ (Settled' <=> Settled)
  BY GoneStep, Given DEF PermissionsInv, Settled
<1>2. ASSUME NEW c \in Calls, DeleteProjectProvider(c)
      PROVE  RowsOfMembers' /\ (Settled => AllMembers')
  <2>1. task[c].at = "revoking" /\ task[c].gone \subseteq task[c].remove
    BY <1>2 DEF DeleteProjectProvider, PermissionsInv, GoneAsked
  <2>2. Settled => task[c].remove \cap (ips \cup Members(cps)) \subseteq task[c].gone
    BY <2>1 DEF Settled, StaffInv, StaffAt, PeopleInv, Serial, TaskHeld
  <2>3. QED
    BY <1>2, <2>1, <2>2, RemovalMembers DEF PermissionsInv
<1>3. ASSUME ~\E c \in Calls : DeleteProjectProvider(c)
      PROVE  RowsOfMembers' /\ (Settled => AllMembers')
  BY <1>3, MembersStep DEF PermissionsInv, MembersFollow
<1>4. QED
  BY <1>1, <1>2, <1>3 DEF PermissionsInv

\* Then, and where requests do not overlap, this module does nothing to what
\* ProjectFlow describes but to end a request.
LEMMA SettledSteps ==
  ASSUME DelegationTypeOK, StaffInv, PeopleInv, OneProvider, Settled,
         [DelegationNext]_delegationVars
  PROVE  [Next]_vars \/ RequestEnds
<1>1. ASSUME NEW c \in Calls, DeleteProjectProvider(c)
      PROVE  UNCHANGED vars
  <2>1. task[c].at = "revoking"
    BY <1>1 DEF DeleteProjectProvider
  <2>2. Serial
    BY <2>1 DEF StaffInv, StaffAt, Settled, Serial
  <2>3. cps' = cps
    BY <1>1, <2>2, ProvidersStay
  <2>4. QED
    BY <1>1, <2>3 DEF DeleteProjectProvider, vars, data
<1>2. QED
  BY <1>1, FlowSteps

\* What the discussion of the terms relies on, see ProjectFlowProofs.
TermsInv == (Settled => FlowInv) /\ UndisturbedInv

LEMMA TermsStep ==
  ASSUME DelegationTypeOK, DelegationTypeOK', StaffInv, PeopleInv, TermsInv,
         [DelegationNext]_delegationVars
  PROVE  TermsInv' /\ (Orderly => Step)
<1>1. TypeOK /\ TypeOK'
  BY DEF DelegationTypeOK
<1>2. UNCHANGED <<faults, clients>>
  BY Given
<1>3. CASE ~Settled
  BY <1>2, <1>3 DEF TermsInv, Settled, Serial, Orderly, UndisturbedInv
<1>4. CASE Settled
  <2>1. FlowInv /\ UndisturbedInv /\ OneProvider
    BY <1>4, UndisturbedHas DEF TermsInv
  <2>2. CASE [Next]_vars
    BY <1>1, <2>1, <2>2, FlowStep, NextSerial DEF TermsInv
  <2>3. CASE RequestEnds
    <3>1. PICK c \in Calls : /\ request[c].at # "idle" /\ End(c)
                             /\ UNCHANGED <<faults, project, data, saved>>
      BY <2>3 DEF RequestEnds
    <3>2. QED
      BY <1>1, <2>1, <3>1, FlowEnded, EndedSerial DEF TermsInv, Orderly
  <2>4. QED
    BY <1>4, <2>1, <2>2, <2>3, SettledSteps
<1>5. QED
  BY <1>3, <1>4

MembersInv == PermissionsInv /\ StaffInv /\ PeopleInv /\ TermsInv

LEMMA MembersInit == DelegationInit => MembersInv
<1> SUFFICES ASSUME DelegationInit PROVE MembersInv
  OBVIOUS
<1>1. /\ cps = <<>> /\ ips = {} /\ DOMAIN permissions = {} /\ ~Exists
      /\ \A c \in Calls : task[c] = Idle
  BY DEF DelegationInit, Init, NoRows, Exists, Editable, Accepted
<1>2. PermissionsInv
  BY <1>1, NoMembers, IdleAt
     DEF PermissionsInv, RowsOfMembers, NoMembersLeft, OnlyMembers, AllMembers, GoneAsked,
         Everyone
<1>3. StaffInv
  BY <1>1, IdleAt DEF StaffInv, StaffAt
<1>4. PeopleInv
  BY <1>1, IdleHeld DEF PeopleInv, TaskAlone, Apart
<1>5. TermsInv
  BY FlowInit, InitSerial DEF DelegationInit, TermsInv
<1>6. QED
  BY <1>2, <1>3, <1>4, <1>5 DEF MembersInv

LEMMA MembersNext ==
  ASSUME DelegationTypeOK, DelegationTypeOK', MembersInv, [DelegationNext]_delegationVars
  PROVE  MembersInv'
<1>1. OneProvider
  BY UndisturbedHas DEF MembersInv, TermsInv
<1>2. QED
  BY <1>1, PermissionsStep, StaffStep, PeopleStep, TermsStep DEF MembersInv

THEOREM MembersCorrect == DelegationSpec => []MembersInv
  BY MembersInit, MembersNext, DelegationTypeCorrect, PTL DEF DelegationSpec

\* However requests overlap and fail, and however many there are: no one but a member
\* has permissions, and every member has, except that where requests overlap no
\* individual providers may be added or removed (getProject and the transactions that
\* change members).
THEOREM MembersHavePermissionsAlways == DelegationSpec => []MembersHavePermissions
<1>1. MembersInv => MembersHavePermissions
  BY DEF MembersInv, PermissionsInv, RowsOfMembers, OnlyMembers, AllMembers,
         MembersHavePermissions
<1>2. QED
  BY <1>1, MembersCorrect, PTL

\* However requests overlap and fail, the two sides take turns, except that where
\* requests overlap no individual providers may be added or removed.
THEOREM TurnsAreKept == DelegationSpec => []TurnsKept
<1>1. MembersInv => TurnsKept
  BY DEF MembersInv, TermsInv, FlowInv, TurnsKept
<1>2. QED
  BY <1>1, MembersCorrect, PTL

\* With the same exception, a provider of the project accepts what the purchaser
\* saved last, and stays.
THEOREM AgreementIsKept == DelegationSpec => []AgreementKept
<1>1. MembersInv => AgreementKept
  BY DEF MembersInv, TermsInv, FlowInv, AgreementKept
<1>2. QED
  BY <1>1, MembersCorrect, PTL

\* As long as requests do not overlap, whatever fails and whoever joins or leaves,
\* a project has at most one provider, ...
THEOREM OneProviderRemains == DelegationSpec => []OneProvider
<1>1. MembersInv => OneProvider
  BY UndisturbedHas DEF MembersInv, TermsInv
<1>2. QED
  BY <1>1, MembersCorrect, PTL

\* ... and if clients name only milestones that are theirs to name, a deployed project
\* has Funds for each of its milestones, ...
THEOREM DeployedRemainsFunded == DelegationSpec => []DeployedHasFunds
<1>1. MembersInv => DeployedHasFunds
  BY UndisturbedHas DEF MembersInv, TermsInv
<1>2. QED
  BY <1>1, MembersCorrect, PTL

\* ... and the service implements Agreement.
THEOREM AgreementStillFollowed == DelegationSpec => FollowsAgreement
<1>1. DelegationInit => A!Init
  BY DEF DelegationInit, Init, A!Init, Stage, Editable
<1>2. DelegationTypeOK /\ DelegationTypeOK' /\ MembersInv
        /\ [DelegationNext]_delegationVars => [AgreementStep]_vars
  BY TermsStep DEF MembersInv, Step, AgreementStep
<1>3. QED
  BY <1>1, <1>2, MembersCorrect, DelegationTypeCorrect, PTL
     DEF DelegationSpec, FollowsAgreement
-----------------------------------------------------------------------------
\* What the members are shown, from the rows of their permissions.
LEMMA ShownRows ==
  ASSUME NEW p \in Permission, NEW u
  PROVE  ChatMilestones(p, u, milestones, subs)
           \subseteq MilestonesShown(p, u, milestones, subs)
<1>1. p.MilestonesShowAll \in BOOLEAN /\ p.SubMilestoneShowAll \in BOOLEAN
  BY DEF Permission
<1>2. CASE p.MilestonesShowAll /\ p.SubMilestoneShowAll
  BY <1>2 DEF ChatMilestones, MilestonesShown
<1>3. CASE p.MilestonesShowAll /\ ~p.SubMilestoneShowAll
  BY <1>3 DEF ChatMilestones, MilestonesShown
<1>4. CASE ~p.MilestonesShowAll /\ p.SubMilestoneShowAll
  BY <1>4 DEF ChatMilestones, MilestonesShown
<1>5. CASE ~p.MilestonesShowAll /\ ~p.SubMilestoneShowAll
  BY <1>5 DEF ChatMilestones, MilestonesShown
<1>6. QED
  BY <1>1, <1>2, <1>3, <1>4, <1>5

\* As long as requests do not overlap, whatever fails: who was granted nothing is
\* shown their own work only, however often they were removed and added again.
THEOREM NothingIsInherited == DelegationSpec => []NothingInherited
<1>1. MembersInv => NothingInherited
  <2> SUFFICES ASSUME PeopleInv, Serial, NEW u \in ips \ granted
               PROVE  MilestonesShown(permissions[u], u, milestones, subs)
                        \subseteq WorkOf(u, subs)
    BY DEF MembersInv, NothingInherited
  <2>1. permissions[u] = IndividualPermission
    BY DEF PeopleInv, Apart
  <2>2. ~permissions[u].MilestonesShowAll /\ ~permissions[u].SubMilestoneShowAll
    BY <2>1 DEF IndividualPermission
  <2>3. QED
    BY <2>2 DEF MilestonesShown
<1>2. QED
  BY <1>1, MembersCorrect, PTL

\* The one provider there is is the one shown.
LEMMA TheProvider ==
  ASSUME DelegationTypeOK, OneProvider, Serial
  PROVE  Members(cps) = IF cps = <<>> THEN {} ELSE {cps[Len(cps)]}
<1>1. cps \in Seq(Providers) /\ Len(cps) \in Nat /\ Len(cps) <= 1
  BY DEF DelegationTypeOK, TypeOK, OneProvider, Serial
<1>2. CASE cps = <<>>
  BY <1>2, NoMembers
<1>3. CASE cps # <<>>
  <2> DEFINE n == Len(cps)
  <2>1. n # 0 /\ n \in Nat /\ n <= 1 /\ DOMAIN cps = 1 .. n
    BY <1>1, <1>3
  <2>2. \A k \in Nat : k # 0 /\ k <= 1 => k = 1 /\ 1 .. k = {1}
    OBVIOUS
  <2>3. Len(cps) = 1 /\ DOMAIN cps = {1}
    BY <2>1, <2>2
  <2>4. QED
    BY <1>3, <2>3 DEF Members
<1>4. QED
  BY <1>2, <1>3

LEMMA PartnersShown ==
  ASSUME DelegationTypeOK, MembersInv, Serial, Exists,
         NEW u \in {purchaser} \cup ips, NEW visible \in BOOLEAN
  PROVE  NotePartners(permissions[u], u, purchaser, cps, ips, visible)
           \subseteq ProvidersShown(permissions[u], u, purchaser, cps, ips, visible)
                       \cup {purchaser}
<1> DEFINE p == permissions[u]
           CPs == Members(cps) \ {u}
           seen == {i \in ips : IF u = purchaser THEN visible ELSE p.Members \/ i = u}
<1>1. /\ CPs = {cps[i] : i \in DOMAIN cps} \ {u}
      /\ ProvidersShown(p, u, purchaser, cps, ips, visible) = Members(cps) \cup seen
  BY TheProvider, UndisturbedHas
     DEF MembersInv, TermsInv, Members, ProvidersShown
<1>2. CASE u = purchaser
  <2>1. NotePartners(p, u, purchaser, cps, ips, visible)
          = CPs \cup (IF visible THEN ips ELSE {})
    BY <1>1, <1>2 DEF NotePartners
  <2>2. (IF visible THEN ips ELSE {}) \subseteq seen
    BY <1>2
  <2>3. QED
    BY <1>1, <2>1, <2>2
<1>3. CASE u # purchaser /\ CPs # {}
  <2>1. NotePartners(p, u, purchaser, cps, ips, visible)
          = CPs \cup (IF p.Members THEN ips \ {u} ELSE {})
    BY <1>1, <1>3 DEF NotePartners
  <2>2. (IF p.Members THEN ips \ {u} ELSE {}) \subseteq seen
    BY <1>3
  <2>3. QED
    BY <1>1, <2>1, <2>2
<1>4. CASE u # purchaser /\ CPs = {}
  <2>1. NotePartners(p, u, purchaser, cps, ips, visible) = {purchaser} \cup (ips \ {u})
    BY <1>1, <1>4 DEF NotePartners
  <2>2. u \in ips /\ Members(cps) \cap ips = {}
    BY <1>4 DEF MembersInv, PeopleInv, Apart
  <2>3. Members(cps) = {}
    BY <1>4, <2>2
  <2>4. cps = <<>>
    BY <2>3, FirstIsMember DEF DelegationTypeOK
  <2>5. p.Members
    BY <2>2, <2>4 DEF MembersInv, PeopleInv, Apart
  <2>6. ips \subseteq seen
    BY <1>4, <2>5
  <2>7. QED
    BY <1>1, <2>1, <2>6
<1>5. QED
  BY <1>2, <1>3, <1>4

\* As long as requests do not overlap, whatever is granted and whatever fails: the
\* three filters agree on what purchaser and individual providers may see.
THEOREM ViewsAlwaysAgree == DelegationSpec => []ViewsAgree
<1>1. DelegationTypeOK /\ MembersInv => ViewsAgree
  <2> SUFFICES ASSUME DelegationTypeOK, MembersInv, Serial, Exists,
                      NEW u \in {purchaser} \cup ips, NEW visible \in BOOLEAN
               PROVE  /\ ChatMilestones(permissions[u], u, milestones, subs)
                           \subseteq MilestonesShown(permissions[u], u, milestones, subs)
                      /\ NotePartners(permissions[u], u, purchaser, cps, ips, visible)
                           \subseteq ProvidersShown(permissions[u], u, purchaser, cps,
                                                    ips, visible) \cup {purchaser}
    BY DEF ViewsAgree
  <2>1. u \in DOMAIN permissions
    BY MemberRows DEF MembersInv, Everyone
  <2>2. permissions[u] \in Permission
    BY <2>1 DEF DelegationTypeOK
  <2>3. QED
    BY <2>2, ShownRows, PartnersShown
<1>2. QED
  BY <1>1, MembersCorrect, DelegationTypeCorrect, PTL

\* The last step of modifyIp where it runs alone.
LEMMA ModifyEnds ==
  ASSUME DelegationTypeOK, MembersInv, Serial, "death" \notin faults,
         [DelegationNext]_delegationVars,
         NEW c \in Calls, task[c].at \in {"adding", "revoking"}, task[c].exact,
         task'[c] = Idle
  PROVE  ips' = task[c].asked \ ({purchaser} \cup Members(cps)) /\ cps' = cps
<1>1. PICK t : t = task[c]
  OBVIOUS
<1>2. /\ task[c] # Idle /\ task'[c] # task[c] /\ TaskHeld(t) /\ TaskAlone /\ Apart
      /\ ~Quiet
  BY <1>1, IdleAt DEF MembersInv, PeopleInv, Quiet
<1>3. /\ purchaser \notin ips /\ NoMembersLeft /\ DOMAIN permissions = Everyone
  BY MemberRows DEF MembersInv, PermissionsInv, RowsOfMembers
<1>4. CreateProjectProvider(c) \/ DeleteProjectProvider(c)
  <2>1. \A d \in Calls : task[d] # Idle => d = c
    BY <1>2 DEF TaskAlone
  <2>2. \A d \in Calls : ~InFlow(d) /\ ~Admit(d)
    BY <1>2 DEF InFlow, Admit
  <2>3. ASSUME NEW d \in Calls, Flow(d) PROVE FALSE
    BY <2>2, <2>3 DEF Flow, Elsewhere, CreateProjectWithPurchaser,
                      SaveProjectWithMembers, RollBackSave, DeleteProjectWithMembers
  <2>4. ASSUME NEW d \in Calls, Staffing(d)
        PROVE  CreateProjectProvider(c) \/ DeleteProjectProvider(c)
    <3>1. \/ CreateProjectProvider(d) \/ DeleteProjectProvider(d)
          \/ task[d].at \in {"granting", "removing"}
      BY <2>2, <2>4 DEF Staffing, RequestAddIP, RequestModifyIp, RequestPermissions,
                        DeleteMembers, UpdatePermissions
    <3>2. task[d] # Idle
      BY <3>1, IdleAt DEF CreateProjectProvider, DeleteProjectProvider
    <3>3. QED
      BY <2>1, <3>1, <3>2
  <2>5. ASSUME NEW d \in Calls, Splitting(d) PROVE FALSE
    <3>1. task[d].at \in {"reading", "saving", "funding"}
      BY <2>2, <2>5 DEF Splitting, RequestBatch, GetMilestone, SaveSubMilestone,
                        CreateSubFunds
    <3>2. QED
      BY <2>1, <3>1, IdleAt
  <2>6. ASSUME NEW d \in Calls, DieDelegating(d) PROVE FALSE
    BY <2>6 DEF DieDelegating
  <2>7. ~(\E m \in Divisible : ChangeStatus(m)) /\ ~(\E m \in Ids : TakeAway(m))
    BY <1>2 DEF ChangeStatus, TakeAway
  <2>8. ~StartWork /\ ~UNCHANGED delegationVars
    BY <1>2 DEF StartWork, delegationVars
  <2>9. QED
    BY <2>3, <2>4, <2>5, <2>6, <2>7, <2>8 DEF DelegationNext
<1>5. CASE CreateProjectProvider(c)
  <2>1. t.at = "adding"
    BY <1>1, <1>5 DEF CreateProjectProvider
  <2>2. Exists /\ t.add = t.asked \ Everyone /\ t.remove = ips \ t.asked
    BY <1>1, <1>2, <2>1 DEF TaskHeld
  <2>3. t.add \cap (Everyone \cup DOMAIN permissions) = {}
    BY <1>3, <2>2
  <2>4. ips' = ips \cup t.add /\ cps' = cps
    BY <1>1, <1>5, <2>2, <2>3 DEF CreateProjectProvider, vars, data
  <2>5. t.remove = {}
    <3>1. t.remove # {} => task'[c] = [t EXCEPT !.at = "removing"]
      BY <1>1, <1>5, <2>2, <2>3 DEF CreateProjectProvider, Carry, DelegationTypeOK
    <3>2. [t EXCEPT !.at = "removing"].at = "removing"
      BY <1>1, <2>1, ReadTask DEF Tasks
    <3>3. QED
      BY <3>1, <3>2, IdleAt
  <2>6. Everyone = {purchaser} \cup Members(cps) \cup ips
    BY <2>2 DEF Everyone
  <2>7. ips' = t.asked \ ({purchaser} \cup Members(cps))
    BY <1>2, <1>3, <2>2, <2>4, <2>5, <2>6 DEF Apart
  <2>8. QED
    BY <1>1, <2>4, <2>7
<1>6. CASE DeleteProjectProvider(c)
  <2>1. t.at = "revoking" /\ ips' = ips \ t.remove
    BY <1>1, <1>2, <1>6 DEF DeleteProjectProvider, TaskHeld
  <2>2. t.asked \subseteq Everyone /\ t.remove = ips \ t.asked
    BY <1>2, <2>1 DEF TaskHeld
  <2>3. t.asked \subseteq {purchaser} \cup Members(cps) \cup ips
    BY <2>2 DEF Everyone
  <2>4. ips' = t.asked \ ({purchaser} \cup Members(cps))
    BY <1>2, <1>3, <2>1, <2>2, <2>3 DEF Apart
  <2>5. cps' = cps
    BY <1>6, ProvidersStay, UndisturbedHas DEF MembersInv, TermsInv
  <2>6. QED
    BY <1>1, <2>4, <2>5
<1>7. QED
  BY <1>4, <1>5, <1>6

\* As long as requests neither overlap nor die, modifyIp ends with the individual
\* providers asked for, and takes nothing from the CP.
THEOREM ModifiedAlwaysAsAsked == DelegationSpec => ModifiedAsAsked
<1>1. DelegationTypeOK /\ MembersInv /\ [DelegationNext]_delegationVars
        => [Serial /\ "death" \notin faults =>
              \A c \in Calls :
                task[c].at \in {"adding", "revoking"} /\ task'[c] = Idle /\ task[c].exact
                  => ips' = task[c].asked \ ({purchaser} \cup Members(cps)) /\ cps' = cps
           ]_delegationVars
  BY ModifyEnds
<1>2. QED
  BY <1>1, MembersCorrect, DelegationTypeCorrect, PTL DEF DelegationSpec, ModifiedAsAsked
-----------------------------------------------------------------------------
\* The steps as the sub-milestones see them.
WorkAt == {"reading", "saving", "funding"}
NoTask == \A c \in Calls : task[c] = Idle

LEMMA WorkSteps ==
  ASSUME DelegationTypeOK, Orderly, [DelegationNext]_delegationVars
  PROVE  \/ UNCHANGED <<work, task>> /\ (milestones' = milestones \/ NoTask)
         \/ UNCHANGED <<subFunds, task>> /\ NoTask /\ subFunds = {} /\ subs' = NoRows
         \/ \E c \in Calls : \E t : /\ Carry(c, t) /\ t.at \notin WorkAt
                                    /\ task[c].at \notin WorkAt
                                    /\ UNCHANGED <<work, milestones>>
         \/ \E c \in Calls : Splitting(c) \/ DieDelegating(c)
<1>1. ASSUME NEW c \in Calls, Flow(c)
      PROVE  /\ NoTask /\ UNCHANGED <<subFunds, task>>
             /\ subs' = subs \/ (subFunds = {} /\ subs' = NoRows)
  <2>1. NoTask
    BY <1>1 DEF Orderly, Flow, Elsewhere, CreateProjectWithPurchaser, SaveProjectWithMembers,
                RollBackSave, DeleteProjectWithMembers, InFlow, NoTask
  <2>2. CASE DeleteProjectWithMembers(c)
    BY <2>1, <2>2 DEF DeleteProjectWithMembers
  <2>3. QED
    BY <1>1, <2>1, <2>2 DEF Flow, Elsewhere, CreateProjectWithPurchaser,
                            SaveProjectWithMembers, RollBackSave, work
<1>2. ASSUME NEW c \in Calls, Staffing(c)
      PROVE  \E t : /\ Carry(c, t) /\ t.at \notin WorkAt
                    /\ task[c].at \notin WorkAt
                    /\ UNCHANGED <<work, milestones>>
  <2>1. UNCHANGED <<work, milestones>>
    BY <1>2 DEF Staffing, RequestAddIP, RequestModifyIp, CreateProjectProvider,
                DeleteMembers, DeleteProjectProvider, RequestPermissions,
                UpdatePermissions, vars, data
  <2>2. task[c].at \notin WorkAt
    BY <1>2, IdleAt
       DEF Staffing, RequestAddIP, RequestModifyIp, CreateProjectProvider,
           DeleteMembers, DeleteProjectProvider, RequestPermissions, UpdatePermissions,
           Admit, WorkAt
  <2>3. ASSUME NEW t, Carry(c, t), t.at \notin WorkAt
        PROVE  \E u : /\ Carry(c, u) /\ u.at \notin WorkAt
                      /\ task[c].at \notin WorkAt
                      /\ UNCHANGED <<work, milestones>>
    BY <2>1, <2>2, <2>3
  <2>4. Idle.at \notin WorkAt
    BY IdleAt DEF WorkAt
  <2>5. ASSUME NEW asked, RequestAddIP(c, asked)
        PROVE  \E t : Carry(c, t) /\ t.at \notin WorkAt
    <3> DEFINE t == [at |-> "adding", add |-> asked, remove |-> {}, exact |-> FALSE,
                     asked |-> asked]
    <3>1. Carry(c, t) /\ t.at \notin WorkAt
      BY <2>5 DEF RequestAddIP, WorkAt
    <3>2. QED
      BY <3>1
  <2>6. ASSUME NEW asked, RequestModifyIp(c, asked)
        PROVE  \E t : Carry(c, t) /\ t.at \notin WorkAt
    <3> DEFINE add == asked \ Everyone
               t == [at |-> IF add # {} THEN "adding" ELSE "removing", add |-> add,
                     remove |-> Leaving(asked), exact |-> TRUE, asked |-> asked]
    <3>1. Carry(c, t) /\ t.at \notin WorkAt
      BY <2>6 DEF RequestModifyIp, WorkAt
    <3>2. QED
      BY <3>1
  <2>7. CASE CreateProjectProvider(c)
    <3> DEFINE t == [task[c] EXCEPT !.at = "removing"]
    <3>1. Carry(c, t) \/ Carry(c, Idle)
      BY <2>7 DEF CreateProjectProvider, Finish
    <3>2. t.at = "removing"
      BY <2>7, ReadTask DEF CreateProjectProvider, Tasks
    <3>3. QED
      BY <2>3, <2>4, <3>1, <3>2 DEF WorkAt
  <2>8. CASE DeleteProjectProvider(c) \/ UpdatePermissions(c)
    BY <2>3, <2>4, <2>8 DEF DeleteProjectProvider, UpdatePermissions, Finish
  <2>9. ASSUME NEW users, NEW permission, RequestPermissions(c, users, permission)
        PROVE  \E t : Carry(c, t) /\ t.at \notin WorkAt
    <3> DEFINE t == [at |-> "granting", users |-> users, permission |-> permission]
    <3>1. Carry(c, t) /\ t.at \notin WorkAt
      BY <2>9 DEF RequestPermissions, WorkAt
    <3>2. QED
      BY <3>1
  <2>10. CASE DeleteMembers(c)
    <3> DEFINE t == [at |-> "revoking", remove |-> task[c].remove,
                     gone |-> task[c].remove \cap (ips \cup Members(cps)),
                     exact |-> task[c].exact, asked |-> task[c].asked]
    <3>1. Carry(c, t) /\ t.at \notin WorkAt
      BY <2>10 DEF DeleteMembers, WorkAt
    <3>2. QED
      BY <2>3, <3>1
  <2>11. QED
    BY <1>2, <2>3, <2>5, <2>6, <2>7, <2>8, <2>9, <2>10 DEF Staffing
<1>3. ASSUME NEW m \in Divisible, ChangeStatus(m)
      PROVE  UNCHANGED <<work, task, milestones>>
  BY <1>3 DEF ChangeStatus, vars, data
<1>4. CASE StartWork
  BY <1>4 DEF StartWork, vars, data
<1>5. CASE UNCHANGED delegationVars
  BY <1>5 DEF delegationVars, vars, data
<1>6. ~\E m \in Ids : TakeAway(m)
  BY DEF TakeAway, Orderly
<1>7. QED
  BY <1>1, <1>2, <1>3, <1>4, <1>5, <1>6 DEF DelegationNext, work

-----------------------------------------------------------------------------
\* Where requests do not overlap and no sub-milestone is saved again: numbers are
\* taken in turn, and the one a request has is the next.
PartsOf(m) == {s \in DOMAIN subs : subs[s].milestoneId = m}

Numbers ==
  /\ \A s \in DOMAIN subs :
       subs[s].sequenceNumber <= Cardinality(PartsOf(subs[s].milestoneId))
  /\ \A s, t \in DOMAIN subs :
       s # t /\ subs[s].milestoneId = subs[t].milestoneId =>
         subs[s].sequenceNumber # subs[t].sequenceNumber
  /\ \A c \in Calls : task[c].at = "saving" =>
       task[c].item.id = "new" /\ task[c].number = SequenceNumber(task[c].item.milestoneId)

NumbersInv == Orderly /\ "resave" \notin clients => Numbers

LEMMA PartsFinite ==
  ASSUME DelegationTypeOK, NEW m
  PROVE  /\ IsFiniteSet(PartsOf(m)) /\ Cardinality(PartsOf(m)) \in Nat
         /\ SequenceNumber(m) = Cardinality(PartsOf(m)) + 1
<1>1. PartsOf(m) \subseteq Ids
  BY DEF DelegationTypeOK, PartsOf
<1>2. IsFiniteSet(PartsOf(m)) /\ Cardinality(PartsOf(m)) \in Nat
  BY <1>1, DelegationAssumption, FS_Subset, FS_CardinalityType
<1>3. QED
  BY <1>2 DEF SequenceNumber, PartsOf

\* A step of a request that saves nothing.
LEMMA NumbersKept ==
  ASSUME DelegationTypeOK, Numbers, NEW c \in Calls, NEW t, Carry(c, t), subs' = subs,
         t.at = "saving" =>
           t.item.id = "new" /\ t.number = SequenceNumber(t.item.milestoneId)
  PROVE  Numbers'
<1>1. \A d \in Calls : task'[d] = IF d = c THEN t ELSE task[d]
  BY DEF Carry, DelegationTypeOK
<1>2. \A m : SequenceNumber(m)' = SequenceNumber(m) /\ PartsOf(m)' = PartsOf(m)
  BY DEF SequenceNumber, PartsOf
<1>3. QED
  BY <1>1, <1>2 DEF Numbers

LEMMA SavedNumbers ==
  ASSUME DelegationTypeOK, DelegationTypeOK', Numbers, NEW c \in Calls,
         \A d \in Calls : d # c => task[d] = Idle,
         NEW id \in Ids, SaveSubMilestone(c, id), subs' # subs
  PROVE  Numbers'
<1>1. PICK row : row = [milestoneId |-> task[c].item.milestoneId,
                        AssignedTo |-> task[c].item.AssignedTo,
                        sequenceNumber |-> task[c].number]
  OBVIOUS
<1>2. PICK m : m = task[c].item.milestoneId
  OBVIOUS
<1>3. /\ task[c].at = "saving" /\ task[c].item.id = "new"
      /\ task[c].number = SequenceNumber(m)
  BY <1>2 DEF SaveSubMilestone, Numbers
<1>4. id \notin DOMAIN subs
  BY <1>3 DEF SaveSubMilestone, Stored
<1>5. subs' = [s \in DOMAIN subs \cup {id} |-> IF s = id THEN row ELSE subs[s]]
  BY <1>1 DEF SaveSubMilestone, StoreSubMilestone, work
<1>6. /\ DOMAIN subs' = DOMAIN subs \cup {id} /\ subs'[id] = row
      /\ \A s \in DOMAIN subs : subs'[s] = subs[s]
  BY <1>4, <1>5
<1>7. /\ row.milestoneId = m
      /\ row.sequenceNumber = Cardinality(PartsOf(m)) + 1
  BY <1>1, <1>2, <1>3, PartsFinite
<1>8. PartsOf(m)' = PartsOf(m) \cup {id} /\ id \notin PartsOf(m)
  BY <1>4, <1>6, <1>7 DEF PartsOf
<1>9. Cardinality(PartsOf(m)') = Cardinality(PartsOf(m)) + 1
  BY <1>8, PartsFinite, FS_AddElement
<1>10. \A k : k # m => PartsOf(k)' = PartsOf(k)
  BY <1>4, <1>6, <1>7 DEF PartsOf
<1>11. \A s \in DOMAIN subs :
         /\ subs[s].sequenceNumber \in Nat
         /\ subs[s].sequenceNumber <= Cardinality(PartsOf(subs[s].milestoneId))
  BY DEF Numbers, DelegationTypeOK, SubMilestone
<1>12. Cardinality(PartsOf(m)) \in Nat
  BY PartsFinite
<1>13. \A s \in DOMAIN subs' : \A k :
         subs'[s].milestoneId = k => subs'[s].sequenceNumber <= Cardinality(PartsOf(k)')
  <2>1. ASSUME NEW s \in DOMAIN subs, NEW k, subs[s].milestoneId = k
        PROVE  subs[s].sequenceNumber <= Cardinality(PartsOf(k)')
    <3>1. CASE k = m
      BY <1>9, <1>11, <1>12, <2>1, <3>1
    <3>2. CASE k # m
      BY <1>10, <1>11, <2>1, <3>2
    <3>3. QED
      BY <3>1, <3>2
  <2>2. row.sequenceNumber <= Cardinality(PartsOf(m)')
    BY <1>7, <1>9, <1>12
  <2>3. QED
    BY <1>6, <1>7, <2>1, <2>2
<1>14. \A s \in DOMAIN subs :
         subs[s].milestoneId = m => subs[s].sequenceNumber # row.sequenceNumber
  BY <1>7, <1>11, <1>12
<1>15. \A s, t \in DOMAIN subs' :
         s # t /\ subs'[s].milestoneId = subs'[t].milestoneId =>
           subs'[s].sequenceNumber # subs'[t].sequenceNumber
  BY <1>6, <1>7, <1>14 DEF Numbers
<1>16. \A d \in Calls : task'[d].at # "saving"
  <2>1. \A d \in Calls : d # c => task'[d] = Idle
    BY DEF SaveSubMilestone, Carry, Finish, DelegationTypeOK
  <2>2. task'[c].at # "saving"
    BY IdleAt DEF SaveSubMilestone, Carry, Finish, DelegationTypeOK
  <2>3. QED
    BY <2>1, <2>2, IdleAt
<1>17. QED
  BY <1>13, <1>15, <1>16 DEF Numbers, PartsOf

LEMMA NumbersStep ==
  ASSUME DelegationTypeOK, DelegationTypeOK', PeopleInv, NumbersInv,
         [DelegationNext]_delegationVars
  PROVE  NumbersInv'
<1> SUFFICES ASSUME Serial, OwnIds, "resave" \notin clients, Numbers PROVE Numbers'
  BY Given DEF NumbersInv, Orderly, Serial, OwnIds
<1>1. CASE UNCHANGED <<work, task>>
  BY <1>1 DEF Numbers, work, SequenceNumber, PartsOf
<1>2. CASE NoTask /\ task' = task /\ subs' = NoRows
  BY <1>2, IdleAt DEF Numbers, NoTask, NoRows
<1>3. ASSUME NEW c \in Calls, NEW t, Carry(c, t), t.at \notin WorkAt, UNCHANGED work
      PROVE  Numbers'
  BY <1>3, NumbersKept DEF WorkAt, work
<1>4. ASSUME NEW c \in Calls, NEW items, RequestBatch(c, items)
      PROVE  Numbers'
  <2> DEFINE t == [at |-> "reading", members |-> Everyone, left |-> items, created |-> {}]
  <2>1. Carry(c, t) /\ t.at = "reading" /\ subs' = subs
    BY <1>4 DEF RequestBatch, work
  <2>2. QED
    BY <2>1, NumbersKept
<1>5. ASSUME NEW c \in Calls, NEW item \in Items, GetMilestone(c, item)
      PROVE  Numbers'
  <2> DEFINE t == [at |-> "saving", members |-> task[c].members, left |-> task[c].left,
                   created |-> task[c].created, item |-> item,
                   number |-> SequenceNumber(item.milestoneId)]
  <2>1. (Carry(c, t) \/ Carry(c, Idle)) /\ subs' = subs
    BY <1>5 DEF GetMilestone, Reject, Finish, work
  <2>2. item.id = "new"
    BY <1>5 DEF GetMilestone, Proper
  <2>3. t.item = item /\ t.number = SequenceNumber(item.milestoneId)
    OBVIOUS
  <2>4. QED
    BY <2>1, <2>2, <2>3, IdleAt, NumbersKept
<1>6. ASSUME NEW c \in Calls, NEW id \in Ids, SaveSubMilestone(c, id)
      PROVE  Numbers'
  <2>1. \A d \in Calls : d # c => task[d] = Idle
    BY <1>6, IdleAt DEF PeopleInv, TaskAlone, SaveSubMilestone
  <2>2. CASE subs' # subs
    BY <1>6, <2>1, <2>2, SavedNumbers
  <2>3. CASE subs' = subs
    <3>1. task'[c].at # "saving" /\ \A d \in Calls : d # c => task'[d] = task[d]
      BY <1>6, IdleAt DEF SaveSubMilestone, Carry, Finish, DelegationTypeOK
    <3>2. \A d \in Calls : task'[d].at # "saving"
      BY <2>1, <3>1, IdleAt
    <3>3. \A m : PartsOf(m)' = PartsOf(m)
      BY <2>3 DEF PartsOf
    <3>4. QED
      BY <2>3, <3>2, <3>3 DEF Numbers
  <2>4. QED
    BY <2>2, <2>3
<1>7. ASSUME NEW c \in Calls, CreateSubFunds(c) \/ DieDelegating(c)
      PROVE  Numbers'
  <2>1. Carry(c, Idle) /\ subs' = subs
    BY <1>7 DEF CreateSubFunds, DieDelegating, Finish, work
  <2>2. QED
    BY <2>1, IdleAt, NumbersKept
<1>8. QED
  BY <1>1, <1>2, <1>3, <1>4, <1>5, <1>6, <1>7, WorkSteps DEF Splitting, work, Orderly

\* As long as requests do not overlap and no sub-milestone is saved again or taken from
\* elsewhere, whatever dies or is rejected: the sub-milestones of a milestone have different
\* numbers, however many there are.
THEOREM NumberedAlwaysUniquely == DelegationSpec => []NumberedUniquely
<1>1. DelegationInit => NumbersInv
  BY IdleAt DEF DelegationInit, NumbersInv, Numbers, NoRows
<1>2. DelegationTypeOK /\ DelegationTypeOK' /\ MembersInv /\ NumbersInv
        /\ [DelegationNext]_delegationVars => NumbersInv'
  BY NumbersStep DEF MembersInv
<1>3. NumbersInv => NumberedUniquely
  BY DEF NumbersInv, Numbers, NumberedUniquely
<1>4. QED
  BY <1>1, <1>2, <1>3, MembersCorrect, DelegationTypeCorrect, PTL DEF DelegationSpec
-----------------------------------------------------------------------------
\* Where requests neither overlap nor die and no item is rejected: the
\* sub-milestones without Funds are those of the request that is at work, and what
\* it saves next can be saved.
Unfunded(t) == IF t.at \in WorkAt THEN t.created ELSE {}

Paying ==
  /\ DOMAIN subs \ subFunds = UNION {Unfunded(task[c]) : c \in Calls}
  /\ \A c \in Calls : task[c].at = "saving" =>
       /\ task[c].item.milestoneId \in Stored
       /\ task[c].item.id # "new" => task[c].item.id \in DOMAIN subs

FundsInv ==
  Orderly /\ "death" \notin faults /\ "badItem" \notin clients => Paying

\* The union, where there is one request.
LEMMA OneTask ==
  ASSUME NEW f, NEW c \in Calls, \A d \in Calls : d # c => f[d] = Idle
  PROVE  UNION {Unfunded(f[d]) : d \in Calls} = Unfunded(f[c])
<1>1. Unfunded(Idle) = {}
  BY IdleAt DEF Unfunded, WorkAt
<1>2. QED
  BY <1>1

LEMMA NoneUnfunded ==
  ASSUME NoTask, Paying
  PROVE  DOMAIN subs \ subFunds = {}
<1>1. Unfunded(Idle) = {}
  BY IdleAt DEF Unfunded, WorkAt
<1>2. QED
  BY <1>1 DEF NoTask, Paying

\* A step of the one request there is.
LEMMA PayingStep ==
  ASSUME DelegationTypeOK, Paying, NEW c \in Calls, NEW t, Carry(c, t),
         \A d \in Calls : d # c => task[d] = Idle,
         DOMAIN subs \ subFunds = Unfunded(task[c]) =>
           DOMAIN subs' \ subFunds' = Unfunded(t),
         t.at = "saving" =>
           /\ t.item.milestoneId \in Stored'
           /\ t.item.id # "new" => t.item.id \in DOMAIN subs'
  PROVE  Paying'
<1>1. task'[c] = t /\ \A d \in Calls : d # c => task'[d] = Idle
  BY DEF Carry, DelegationTypeOK
<1>2. DOMAIN subs \ subFunds = Unfunded(task[c])
  BY OneTask DEF Paying
<1>3. PICK f : f = task'
  OBVIOUS
<1>4. UNION {Unfunded(f[d]) : d \in Calls} = Unfunded(f[c])
  <2>1. \A d \in Calls : d # c => f[d] = Idle
    BY <1>1, <1>3
  <2>2. QED
    BY ONLY <2>1, OneTask
<1>5. DOMAIN subs' \ subFunds' = UNION {Unfunded(task'[d]) : d \in Calls}
  BY <1>1, <1>2, <1>3, <1>4
<1>6. \A d \in Calls : task'[d].at = "saving" =>
        /\ task'[d].item.milestoneId \in Stored'
        /\ task'[d].item.id # "new" => task'[d].item.id \in DOMAIN subs'
  BY <1>1, IdleAt
<1>7. QED
  BY <1>5, <1>6 DEF Paying, Unfunded

LEMMA SplittingPays ==
  ASSUME DelegationTypeOK, PeopleInv, Paying, Serial, OwnIds, "badItem" \notin clients,
         NEW c \in Calls, Splitting(c)
  PROVE  Paying'
<1>1. ASSUME NEW items, RequestBatch(c, items)
      PROVE  Paying'
  <2> DEFINE t == [at |-> "reading", members |-> Everyone, left |-> items, created |-> {}]
  <2>1. Carry(c, t) /\ UNCHANGED <<subs, subFunds>> /\ Quiet
    BY <1>1, AdmitQuiet DEF RequestBatch, work
  <2>2. t.at = "reading" /\ t.created = {}
    OBVIOUS
  <2>3. Unfunded(Idle) = {} /\ Unfunded(t) = {}
    BY <2>2, IdleAt DEF Unfunded, WorkAt
  <2>4. \A d \in Calls : task[d] = Idle
    BY <2>1 DEF Quiet
  <2>5. QED
    BY <2>1, <2>2, <2>3, <2>4, PayingStep
<1>2. CASE task[c] # Idle
  <2>1. \A d \in Calls : d # c => task[d] = Idle
    BY <1>2 DEF PeopleInv, TaskAlone
  <2>2. ASSUME NEW item \in Items, GetMilestone(c, item)
        PROVE  Paying'
    <3> DEFINE t == [at |-> "saving", members |-> task[c].members,
                     left |-> task[c].left, created |-> task[c].created,
                     item |-> item, number |-> SequenceNumber(item.milestoneId)]
    <3>1. /\ Carry(c, t) /\ Acceptable(item, task[c].members)
          /\ UNCHANGED <<subs, subFunds, milestones>>
          /\ item.id # "new" => item.id \in DOMAIN subs
      BY <2>2 DEF GetMilestone, Proper, work, vars, data
    <3>2. t.at = "saving" /\ t.item = item /\ t.created = task[c].created
      OBVIOUS
    <3>3. Unfunded(t) = Unfunded(task[c])
      BY <2>2, <3>2 DEF GetMilestone, Unfunded, WorkAt
    <3>4. item.milestoneId \in Stored'
      BY <3>1 DEF Acceptable, Stored
    <3>5. QED
      BY <2>1, <3>1, <3>2, <3>3, <3>4, PayingStep
  <2>3. ASSUME NEW id \in Ids, SaveSubMilestone(c, id)
        PROVE  Paying'
    <3>1. PICK created : created = IF task[c].item.id = "new" THEN task[c].created \cup {id}
                                   ELSE task[c].created
      OBVIOUS
    <3> DEFINE last == [at |-> "funding", created |-> created]
               next == [at |-> "reading", members |-> task[c].members,
                        left |-> task[c].left - 1, created |-> created]
               t == IF task[c].left = 1 THEN last ELSE next
    <3>2. /\ task[c].at = "saving" /\ task[c].item.milestoneId \in Stored
          /\ task[c].item.id # "new" => id \in DOMAIN subs
          /\ task[c].item.id = "new" => id \notin DOMAIN subs
      BY <2>3 DEF Paying, SaveSubMilestone, Stored
    <3>a. ~LoseMilestone(id) /\ \A S : FundsBrought(S) = {{}}
      BY DEF LoseMilestone, FundsBrought
    <3>b. ~(task[c].item.milestoneId \notin Stored \/ (task[c].item.id # "new" /\ id \notin Stored))
      BY <3>2 DEF Stored
    <3>c. /\ Carry(c, t)
          /\ \E row : StoreSubMilestone(id, row, task[c].item.id = "new")
      BY <2>3, <3>1, <3>b DEF SaveSubMilestone
    <3>3. Carry(c, t) /\ DOMAIN subs' = DOMAIN subs \cup {id} /\ subFunds' = subFunds
      BY <3>a, <3>c DEF StoreSubMilestone
    <3>4. t.at \in {"reading", "funding"} /\ t.created = created
      OBVIOUS
    <3>5. Unfunded(t) = created /\ Unfunded(task[c]) = task[c].created
      BY <3>2, <3>4 DEF Unfunded, WorkAt
    <3>6. subFunds \subseteq DOMAIN subs
      BY DEF DelegationTypeOK
    <3>7. DOMAIN subs \ subFunds = task[c].created => DOMAIN subs' \ subFunds' = created
      BY <3>1, <3>2, <3>3, <3>6
    <3>8. QED
      BY <2>1, <3>3, <3>4, <3>5, <3>7, PayingStep
  <2>4. CASE CreateSubFunds(c)
    <3>1. Unfunded(task[c]) = task[c].created /\ Unfunded(Idle) = {}
      BY <2>4, IdleAt DEF CreateSubFunds, Unfunded, WorkAt
    <3>2. /\ Carry(c, Idle) /\ subs' = subs
          /\ task[c].created \subseteq DOMAIN subs \ subFunds =>
               subFunds' = subFunds \cup task[c].created
      BY <2>4 DEF CreateSubFunds, Finish
    <3>3. DOMAIN subs \ subFunds = task[c].created => DOMAIN subs' \ subFunds' = {}
      BY <3>2
    <3>4. QED
      BY <2>1, <3>1, <3>2, <3>3, IdleAt, PayingStep
  <2>5. QED
    BY <1>1, <2>2, <2>3, <2>4 DEF Splitting
<1>3. CASE task[c] = Idle
  BY <1>1, <1>3, IdleAt
     DEF Splitting, GetMilestone, SaveSubMilestone, CreateSubFunds
<1>4. QED
  BY <1>2, <1>3

LEMMA FundsStep ==
  ASSUME DelegationTypeOK, PeopleInv, FundsInv, [DelegationNext]_delegationVars
  PROVE  FundsInv'
<1> SUFFICES ASSUME Serial, OwnIds, "death" \notin faults, "badItem" \notin clients,
                    Paying
             PROVE  Paying'
  BY Given DEF FundsInv, Orderly, Serial, OwnIds
<1>1. ASSUME UNCHANGED <<work, task>>, milestones' = milestones \/ NoTask
      PROVE  Paying'
  <2>1. DOMAIN subs' \ subFunds' = UNION {Unfunded(task'[c]) : c \in Calls}
    BY <1>1 DEF Paying, work
  <2>2. CASE milestones' = milestones
    BY <1>1, <2>1, <2>2 DEF Paying, Unfunded, work, Stored
  <2>3. CASE NoTask
    BY <1>1, <2>1, <2>3, IdleAt DEF Paying, Unfunded, NoTask, work
  <2>4. QED
    BY <1>1, <2>2, <2>3
<1>2. ASSUME UNCHANGED <<subFunds, task>>, NoTask, subFunds = {}, subs' = NoRows
      PROVE  Paying'
  <2>1. UNION {Unfunded(task'[c]) : c \in Calls} = {}
    BY <1>2, IdleAt DEF NoTask, Unfunded, WorkAt
  <2>2. DOMAIN subs' \ subFunds' = {}
    BY <1>2 DEF NoRows
  <2>3. \A c \in Calls : task'[c].at # "saving"
    BY <1>2, IdleAt DEF NoTask
  <2>4. QED
    BY <2>1, <2>2, <2>3 DEF Paying, Unfunded
<1>3. ASSUME NEW c \in Calls, NEW t, Carry(c, t), t.at \notin WorkAt,
             task[c].at \notin WorkAt, UNCHANGED <<work, milestones>>
      PROVE  Paying'
  <2>1. \A d \in Calls : task'[d] = IF d = c THEN t ELSE task[d]
    BY <1>3 DEF Carry, DelegationTypeOK
  <2>2. \A d \in Calls : Unfunded(task'[d]) = Unfunded(task[d])
    BY <1>3, <2>1 DEF Unfunded
  <2>3. DOMAIN subs' \ subFunds' = UNION {Unfunded(task'[d]) : d \in Calls}
    BY <1>3, <2>2 DEF Paying, work
  <2>4. QED
    BY <1>3, <2>1, <2>3 DEF Paying, Unfunded, work, WorkAt, Stored
<1>4. ~\E c \in Calls : DieDelegating(c)
  BY DEF DieDelegating
<1>5. QED
  BY <1>1, <1>2, <1>3, <1>4, SplittingPays, WorkSteps DEF Orderly

\* As long as requests neither overlap nor die, clients name only milestones that are
\* theirs to name and no item is rejected: when they are done, every sub-milestone has its row of Funds.
THEOREM SubMilestonesAlwaysFunded == DelegationSpec => []SubMilestonesFunded
<1>1. DelegationInit => FundsInv
  BY IdleAt DEF DelegationInit, FundsInv, Paying, NoRows, Unfunded, WorkAt
<1>2. DelegationTypeOK /\ MembersInv /\ FundsInv /\ [DelegationNext]_delegationVars
        => FundsInv'
  BY FundsStep DEF MembersInv
<1>3. DelegationTypeOK /\ FundsInv => SubMilestonesFunded
  BY NoneUnfunded DEF FundsInv, SubMilestonesFunded, Quiet, NoTask, DelegationTypeOK
<1>4. QED
  BY <1>1, <1>2, <1>3, MembersCorrect, DelegationTypeCorrect, PTL DEF DelegationSpec
=============================================================================
