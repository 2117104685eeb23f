------------------------------ MODULE Delegation ------------------------------
(***************************************************************************)
(* ProjectFlow with the people and the work a provider brings in: the      *)
(* individual providers of the project (addIP, modifyIp), what the members *)
(* may see (updatePermissions) and the sub-milestones assigned to them     *)
(* (addSubMilestone).  Every request of ProjectFlow is one here, with what *)
(* it does to the rows added here; the new requests overlap and die like   *)
(* the others.                                                             *)
(***************************************************************************)
EXTENDS ProjectFlow, ProjectView, FiniteSets

CONSTANTS
  SubMilestoneIds,    \* bound: sub-milestones that can be created
  MaxItems,           \* bound: sub-milestones in one request
  PermissionUpdates,  \* bound: what a CP grants
  Grantees,           \* bound: to whom
  Staffable,          \* bound: states in which the requests of this module start
  Divisible,          \* bound: milestones and sub-milestones that are divided
  ForeignIds,         \* bound: milestones of another project that are saved in this one
  Scenarios           \* what can happen: pairs of faults and kinds of requests

Kinds == {"staff", "grant", "split", "badItem", "resave", "work"}
Ids == MilestoneIds \cup SubMilestoneIds

ASSUME DelegationAssumption ==
  /\ IsFiniteSet(Ids) /\ MaxItems \in Nat
  /\ PermissionUpdates \subseteq Permission /\ Grantees \subseteq SUBSET Users
  /\ Staffable \subseteq ProjectState \ {"none", "deleted"}
  /\ Divisible \subseteq Ids /\ ForeignIds \subseteq Ids
  /\ Scenarios \subseteq FaultSets \X SUBSET Kinds

VARIABLES
  clients,      \* what clients do in this behaviour, of Kinds
  ips,          \* the members of kind IP
  permissions,  \* table Permissions, by user
  subs,         \* the sub-milestones
  subFunds,     \* those that have a row of Funds
  begun,        \* milestones whose status is not INIT
  working,      \* whether the status of the project is IN_PROGRESS or COMPLETE
  granted,      \* who was granted something since they became a member
  task          \* per call: the request of this module it runs

people == <<ips, permissions, granted>>
work == <<subs, subFunds>>
status == <<begun, working>>
delegationVars == <<vars, clients, people, work, status, task>>

Everyone == IF Exists THEN {purchaser} \cup Members(cps) \cup ips ELSE {}
Stored == milestones \cup DOMAIN subs

\* The members a transaction has deleted that has not committed: everyone still
\* reads their rows, and whoever writes or deletes them waits.
Locked == UNION {task[c].gone : c \in {d \in Calls : task[d].at = "revoking"}}

Granting(S, p) ==
  [u \in DOMAIN permissions \cup S |-> IF u \in S THEN p ELSE permissions[u]]
NoRows == [x \in {} |-> x]

Carry(c, t) == task' = [task EXCEPT ![c] = t]
Finish(c) == Carry(c, Idle)
Quiet == AllIdle /\ \A c \in Calls : task[c] = Idle

\* A new request of this module, and a step of a request of ProjectFlow.
Admit(c) ==
  /\ task[c] = Idle /\ request[c] = Idle /\ (Serial => Quiet)
  /\ project.state \in Staffable
InFlow(c) == task[c] = Idle /\ (Serial => \A d \in Calls : task[d] = Idle)

-----------------------------------------------------------------------------
\* The requests of ProjectFlow that touch no row of this module.
Elsewhere(c) ==
  /\ InFlow(c)
  /\ \/ GetProject(c)
     \/ SaveDraft(c)
     \/ \E provider \in Providers \cup {Nobody} : PrepareSave(c, provider)
     \/ Accepting(c)
     \/ RequestDeployment(c)
     \/ DeployContracts(c)
     \/ DeclareDeployed(c)
     \/ RequestDeletion(c)
     \/ Die(c)
  /\ UNCHANGED <<clients, people, work, status, task>>

\* createProject makes the purchaser a member, with permissions.
CreateProjectWithPurchaser(c) ==
  /\ InFlow(c)
  /\ CreateProject(c)
  /\ permissions' = Granting({purchaser}, PurchaserPermission)
  /\ UNCHANGED <<clients, ips, granted, work, status, task>>

\* The members a save adds: the provider, or else individual providers, whom a
\* purchaser may not name (the role is that of the request; clients tell the truth).
MayBring(r, joining) ==
  joining # {} => r.provider = Nobody /\ r.user # purchaser /\ "staff" \in clients
Joins(r, joining) == joining \cup ({r.provider} \ {Nobody})

\* saveProjectTransaction; the status of the project is ASSIGNED again.
SaveProjectWithMembers(c, created, joining) ==
  LET r == request[c] IN
  /\ InFlow(c)
  /\ SaveProject(c, created)
  /\ created \cap DOMAIN subs = {}
  /\ MayBring(r, joining) /\ Joins(r, joining) \cap Locked = {}
  /\ Committed(r) => Joins(r, joining) \cap Everyone = {}
  /\ IF Committed(r)
     THEN /\ ips' = ips \cup joining
          /\ permissions' = [u \in DOMAIN permissions \cup Joins(r, joining) |->
               IF u \in joining THEN IndividualPermission
               ELSE IF u = r.provider THEN ProviderPermission
               ELSE permissions[u]]
          /\ granted' = granted \ Joins(r, joining)
          /\ working' = FALSE
     ELSE UNCHANGED <<people, working>>
  /\ UNCHANGED <<clients, work, begun, task>>

\* It is rolled back when one of them is a member already.
RollBackSave(c, joining) ==
  LET r == request[c] IN
  /\ InFlow(c)
  /\ r.at = "saving"
  /\ MayBring(r, joining) /\ Joins(r, joining) \cap Locked = {}
  /\ Joins(r, joining) \cap Everyone # {}
  /\ End(c)
  /\ UNCHANGED <<faults, project, data, saved>>
  /\ UNCHANGED <<clients, people, work, status, task>>

\* deleteProject cascades; the Funds of a sub-milestone refuse it like those of a
\* milestone.
DeleteProjectWithMembers(c) ==
  /\ InFlow(c)
  /\ request[c].at = "deleting"
  /\ Locked = {}
  /\ IF subFunds = {} THEN DeleteProject(c)
     ELSE End(c) /\ UNCHANGED <<faults, project, data, saved>>
  /\ IF Exists /\ funds = {} /\ subFunds = {}
     THEN /\ ips' = {} /\ permissions' = NoRows /\ granted' = {}
          /\ subs' = NoRows /\ begun' = {} /\ working' = FALSE
     ELSE UNCHANGED <<people, subs, status>>
  /\ UNCHANGED <<clients, subFunds, task>>

Flow(c) ==
  \/ Elsewhere(c)
  \/ CreateProjectWithPurchaser(c)
  \/ \E created \in SUBSET MilestoneIds, joining \in SUBSET Providers :
       SaveProjectWithMembers(c, created, joining)
  \/ \E joining \in SUBSET Providers : RollBackSave(c, joining)
  \/ DeleteProjectWithMembers(c)

-----------------------------------------------------------------------------
\* addIP by a member of role PROVIDER, as long as the work has not begun.
RequestAddIP(c, providerIds) ==
  /\ Admit(c) /\ "staff" \in clients
  /\ ~working
  /\ Members(cps) \cup ips # {}
  /\ Carry(c, [at |-> "adding", add |-> providerIds, remove |-> {},
               exact |-> FALSE, asked |-> providerIds])
  /\ UNCHANGED <<vars, clients, people, work, status>>

FaultyLeaving(asked) == ips \cap asked \* faulty: the others

\* The members modifyIp removes: those of kind IP that are not asked for.
Leaving(asked) == ips \ asked

\* modifyIp by the CP: compares the list with the members it reads.
RequestModifyIp(c, asked) ==
  LET add == asked \ Everyone
      remove == Leaving(asked)
  IN
  /\ Admit(c) /\ "staff" \in clients
  /\ ~working
  /\ cps # <<>>
  /\ add # {} \/ remove # {}
  /\ Carry(c, [at |-> IF add # {} THEN "adding" ELSE "removing",
               add |-> add, remove |-> remove, exact |-> TRUE, asked |-> asked])
  /\ UNCHANGED <<vars, clients, people, work, status>>

\* createProjectProvider inserts members, then permissions, and is rolled back when
\* one of them is there.  It is one step, that of its commit: until then nobody
\* reads or deletes its rows, and whoever inserts the same waits for it, as it waits
\* for those who are being deleted.
CreateProjectProvider(c) ==
  LET t == task[c] IN
  /\ t.at = "adding"
  /\ t.add \cap Locked = {}
  /\ IF Exists /\ t.add \cap (Everyone \cup DOMAIN permissions) = {}
     THEN /\ ips' = ips \cup t.add
          /\ permissions' = Granting(t.add, IndividualPermission)
          /\ granted' = granted \ t.add
          /\ IF t.remove = {} THEN Finish(c) ELSE Carry(c, [t EXCEPT !.at = "removing"])
     ELSE Finish(c) /\ UNCHANGED people
  /\ UNCHANGED <<vars, clients, work, status>>

FaultyRevoking(S) == permissions          \* faulty: the rows stay
Revoking(S) == [u \in DOMAIN permissions \ S |-> permissions[u]]

\* cps without S, in its order.
Without(S) ==
  LET rest == Members(cps) \ S IN
  {s \in UNION {[1..n -> rest] : n \in 0..Len(cps)} :
     /\ Members(s) = rest
     /\ \A i, j \in DOMAIN s : i < j =>
          \E k, l \in DOMAIN cps : k < l /\ cps[k] = s[i] /\ cps[l] = s[j]}

\* deleteProjectProvider is one transaction that is not serializable: it deletes the
\* members with these users that are there, of whatever kind they are by now, ...
DeleteMembers(c) ==
  LET t == task[c] IN
  /\ t.at = "removing"
  /\ t.remove \cap Locked = {}
  /\ Carry(c, [at |-> "revoking", remove |-> t.remove,
               gone |-> t.remove \cap (ips \cup Members(cps)),
               exact |-> t.exact, asked |-> t.asked])
  /\ UNCHANGED <<vars, clients, people, work, status>>

\* ... then the permissions that are there by now, and commits.
DeleteProjectProvider(c) ==
  LET t == task[c] IN
  /\ t.at = "revoking"
  /\ ips' = ips \ t.gone
  /\ cps' \in Without(t.gone)
  /\ permissions' = Revoking(t.remove)
  /\ granted' = granted \ t.remove
  /\ Finish(c)
  /\ UNCHANGED <<faults, project, milestones, funds, escrow, draft, saved, request>>
  /\ UNCHANGED <<clients, work, status>>

\* updatePermissions by the CP, for any users, ...
RequestPermissions(c, users, permission) ==
  /\ Admit(c) /\ "grant" \in clients
  /\ cps # <<>>
  /\ Carry(c, [at |-> "granting", users |-> users, permission |-> permission])
  /\ granted' = granted \cup users
  /\ UNCHANGED <<vars, clients, ips, permissions, work, status>>

\* ... in one transaction, which fails for a user who has no row.
UpdatePermissions(c) ==
  LET t == task[c] IN
  /\ t.at = "granting"
  /\ permissions' = IF t.users \subseteq DOMAIN permissions
                    THEN Granting(t.users, t.permission) ELSE permissions
  /\ Finish(c)
  /\ UNCHANGED <<vars, clients, ips, granted, work, status>>

-----------------------------------------------------------------------------
\* addSubMilestone reads the members once, for any user of role PROVIDER, ...
RequestBatch(c, items) ==
  /\ Admit(c) /\ "split" \in clients
  /\ Carry(c, [at |-> "reading", members |-> Everyone, left |-> items, created |-> {}])
  /\ UNCHANGED <<vars, clients, people, work, status>>

\* The milestone to divide may be a sub-milestone itself.
Acceptable(item, members) ==
  /\ item.milestoneId \in Stored \ begun
  /\ project.state = "CONTRACT_DEPLOYED"
  /\ item.AssignedTo \in members

FaultySequenceNumber(m) ==     \* faulty: counts those with Funds only
  Cardinality({s \in subFunds : subs[s].milestoneId = m}) + 1

\* getMilestoneCount, and one.
SequenceNumber(m) == Cardinality({s \in DOMAIN subs : subs[s].milestoneId = m}) + 1

\* A rejected item ends the request; the items before it are stored.
Reject(c) == Finish(c)

\* What the clients of the application send: a sub-milestone of a main milestone,
\* a new one or, from some of them, one to be saved again.
Proper(item) ==
  /\ item.milestoneId \in MilestoneIds
  /\ item.id # "new" => "resave" \in clients /\ item.id \in DOMAIN subs

\* ... and per item the milestone and the number of its sub-milestones: two
\* queries in one step, since the first is only compared.  The id of the item is
\* not looked at.
GetMilestone(c, item) ==
  LET t == task[c] IN
  /\ t.at = "reading"
  /\ OwnIds => Proper(item)
  /\ Serial /\ "badItem" \notin clients => Acceptable(item, t.members)
  /\ IF Acceptable(item, t.members)
     THEN Carry(c, [at |-> "saving", members |-> t.members, left |-> t.left,
                    created |-> t.created, item |-> item,
                    number |-> SequenceNumber(item.milestoneId)])
     ELSE Reject(c)
  /\ UNCHANGED <<vars, clients, people, work, status>>

\* The repository's addSubMilestone creates the row or updates it: any milestone
\* that has the id, a main one or one of another project, which may come with Funds.
StoreSubMilestone(id, row, new) ==
  /\ subs' = [s \in DOMAIN subs \cup {id} |-> IF s = id THEN row ELSE subs[s]]
  /\ IF id \in milestones
     THEN LoseMilestone(id) /\ subFunds' = subFunds \cup (funds \cap {id})
     ELSE /\ UNCHANGED vars
          /\ \E brought \in FundsBrought(IF new THEN {} ELSE {id} \ DOMAIN subs) :
               subFunds' = subFunds \cup brought

\* The milestone to divide, and a row to update, must be there, in this project or
\* another.
SaveSubMilestone(c, id) ==
  LET t == task[c]
      new == t.item.id = "new"
      row == [milestoneId |-> t.item.milestoneId, AssignedTo |-> t.item.AssignedTo,
              sequenceNumber |-> t.number]
      created == IF new THEN t.created \cup {id} ELSE t.created
  IN
  /\ t.at = "saving"
  /\ IF new THEN id \in SubMilestoneIds \ Stored ELSE id = t.item.id
  /\ \/ /\ OwnIds => t.item.milestoneId \in Stored
        /\ new \/ id \in Stored \/ (~OwnIds /\ id \in ForeignIds)
        /\ StoreSubMilestone(id, row, new)
        /\ Carry(c, IF t.left = 1 THEN [at |-> "funding", created |-> created]
                    ELSE [at |-> "reading", members |-> t.members,
                          left |-> t.left - 1, created |-> created])
     \/ /\ t.item.milestoneId \notin Stored \/ (~new /\ id \notin Stored)
        /\ Finish(c)
        /\ UNCHANGED <<vars, work>>
  /\ UNCHANGED <<clients, people, status>>

FaultyCreateSubFunds(c) ==    \* faulty: a row for one of them at most
  LET t == task[c] IN
  /\ t.at = "funding"
  /\ \E few \in SUBSET t.created : Cardinality(few) <= 1 /\ subFunds' = subFunds \cup few
  /\ Finish(c)
  /\ UNCHANGED <<vars, clients, people, subs, status>>

\* createManyFunds for those that are new.
CreateSubFunds(c) ==
  LET t == task[c] IN
  /\ t.at = "funding"
  /\ subFunds' = IF t.created \subseteq DOMAIN subs \ subFunds
                 THEN subFunds \cup t.created ELSE subFunds
  /\ Finish(c)
  /\ UNCHANGED <<vars, clients, people, subs, status>>

DieDelegating(c) ==
  /\ "death" \in faults
  /\ task[c] # Idle
  /\ Finish(c)
  /\ UNCHANGED <<vars, clients, people, work, status>>

-----------------------------------------------------------------------------
\* What another project does that saves a milestone, or a sub-milestone, of this one.
TakeAway(m) ==
  /\ ~OwnIds /\ (Serial => Quiet)
  /\ \/ LoseMilestone(m) /\ UNCHANGED work
     \/ /\ m \in DOMAIN subs
        /\ subs' = [s \in DOMAIN subs \ {m} |-> subs[s]]
        /\ subFunds' = subFunds \ {m}
        /\ UNCHANGED vars
  /\ begun' = begun \ {m}
  /\ UNCHANGED <<clients, people, working, task>>

\* What the mirror of the contract does meanwhile (updateMilestoneStatus, see
\* MilestoneMirror): a milestone is begun, and is INIT again after a stop, ...
ChangeStatus(m) ==
  /\ "work" \in clients /\ (Serial => Quiet)
  /\ project.state = "CONTRACT_DEPLOYED"
  /\ m \in Stored
  /\ begun' = IF m \in begun THEN begun \ {m} ELSE begun \cup {m}
  /\ UNCHANGED <<vars, clients, people, work, working, task>>

\* ... and the status of the project follows when work has begun.
StartWork ==
  /\ Serial => Quiet
  /\ begun # {} /\ ~working
  /\ working' = TRUE
  /\ UNCHANGED <<vars, clients, people, work, begun, task>>

Staffing(c) ==
  \/ \E asked \in SUBSET Users : RequestAddIP(c, asked) \/ RequestModifyIp(c, asked)
  \/ CreateProjectProvider(c)
  \/ DeleteMembers(c)
  \/ DeleteProjectProvider(c)
  \/ \E users \in Grantees, permission \in PermissionUpdates :
       RequestPermissions(c, users, permission)
  \/ UpdatePermissions(c)

Items ==
  [id : Ids \cup {"new"}, milestoneId : Divisible, AssignedTo : Users]

Splitting(c) ==
  \/ \E items \in 1..MaxItems : RequestBatch(c, items)
  \/ \E item \in Items : GetMilestone(c, item)
  \/ \E id \in Ids : SaveSubMilestone(c, id)
  \/ CreateSubFunds(c)

DelegationInit ==
  /\ Init
  /\ clients \in SUBSET Kinds /\ <<faults, clients>> \in Scenarios
  /\ ips = {} /\ permissions = NoRows /\ granted = {}
  /\ subs = NoRows /\ subFunds = {}
  /\ begun = {} /\ working = FALSE
  /\ task = [c \in Calls |-> Idle]

DelegationNext ==
  \/ \E c \in Calls : Flow(c) \/ Staffing(c) \/ Splitting(c) \/ DieDelegating(c)
  \/ \E m \in Ids : TakeAway(m)
  \/ \E m \in Divisible : ChangeStatus(m)
  \/ StartWork

DelegationSpec == DelegationInit /\ [][DelegationNext]_delegationVars

-----------------------------------------------------------------------------
SubMilestone == [milestoneId : Ids, AssignedTo : Users, sequenceNumber : Nat]

Tasks ==
  [at : {"idle"}]
  \cup [at : {"adding", "removing"}, add : SUBSET Users, remove : SUBSET Providers,
        exact : BOOLEAN, asked : SUBSET Users]
  \cup [at : {"revoking"}, remove : SUBSET Providers, gone : SUBSET Providers,
        exact : BOOLEAN, asked : SUBSET Users]
  \cup [at : {"granting"}, users : SUBSET Users, permission : Permission]
  \cup [at : {"reading"}, members : SUBSET Users, left : Nat \ {0},
        created : SUBSET SubMilestoneIds]
  \cup [at : {"saving"}, members : SUBSET Users, left : Nat \ {0},
        created : SUBSET SubMilestoneIds, item : Items, number : Nat]
  \cup [at : {"funding"}, created : SUBSET SubMilestoneIds]

\* The columns of the tables, and of ProjectFlow's.
DelegationTypeOK ==
  /\ TypeOK
  /\ clients \subseteq Kinds
  /\ ips \subseteq Providers
  /\ DOMAIN permissions \subseteq Users
  /\ permissions \in [DOMAIN permissions -> Permission]
  /\ DOMAIN subs \subseteq Ids
  /\ subs \in [DOMAIN subs -> SubMilestone]
  /\ subFunds \subseteq DOMAIN subs
  /\ begun \subseteq Stored /\ working \in BOOLEAN
  /\ granted \subseteq Users
  /\ task \in [Calls -> Tasks]

\* modifyIp deletes members by their users, whatever these became since it read
\* them.  Where two of its requests overlap with a save that names a second
\* provider, they can delete the provider whose turn it is, or who agreed.
Settled == "overlap" \in faults => "staff" \notin clients

\* In all other cases, however requests overlap and fail, the two sides take turns
\* (saveProject, currentEditor, deleteProjectProvider).
TurnsKept == Settled => TurnsAlternate

\* In all other cases what is accepted is what the purchaser saved last, by a
\* provider who stays in the project (acceptProject, deleteProjectProvider).
AgreementKept == Settled => AgreedByBoth

\* However requests overlap and fail, no one but a member has permissions; and
\* "there should always be permissions for the user if the user has access to the
\* project" (getProject), except where staff requests overlap: of two that remove the
\* same member, one can delete the permissions of the member a third request added
\* between its two deletes (createProjectProvider, deleteProjectProvider).
MembersHavePermissions ==
  /\ DOMAIN permissions \subseteq Everyone
  /\ Settled => Everyone \subseteq DOMAIN permissions

\* As long as requests neither overlap nor die, and clients send no item that is
\* rejected and name no milestone that is not theirs to name, every sub-milestone has
\* its row of Funds when the requests are done, although the rows are made after the
\* last item (addSubMilestone).
SubMilestonesFunded ==
  Orderly /\ "death" \notin faults /\ "badItem" \notin clients /\ Quiet =>
    subFunds = DOMAIN subs

\* As long as requests do not overlap and no sub-milestone is saved again or taken
\* from elsewhere, those of a milestone have different numbers, by which they are
\* ordered, whatever dies or is rejected (addSubMilestone, getMilestoneCount).
NumberedUniquely ==
  Orderly /\ "resave" \notin clients =>
    \A s, t \in DOMAIN subs :
      s # t /\ subs[s].milestoneId = subs[t].milestoneId =>
        subs[s].sequenceNumber # subs[t].sequenceNumber

\* As long as requests do not overlap, an individual provider to whom nothing was
\* granted since they were added is shown their own work only, whatever they were
\* granted before they were removed (createProjectProvider, filterProjectMetadata).
NothingInherited ==
  Serial => \A u \in ips \ granted :
    MilestonesShown(permissions[u], u, milestones, subs) \subseteq WorkOf(u, subs)

\* As long as requests do not overlap, purchaser and individual providers may chat
\* about what they are shown, and write notes to those they are shown, whatever
\* was granted and whether the purchaser may see the individual providers or not
\* (getAllowedChat and getNotes against filterProjectMetadata).
ViewsAgree ==
  Serial /\ Exists => \A u \in {purchaser} \cup ips, visible \in BOOLEAN :
    LET p == permissions[u] IN
    /\ ChatMilestones(p, u, milestones, subs)
         \subseteq MilestonesShown(p, u, milestones, subs)
    /\ NotePartners(p, u, purchaser, cps, ips, visible)
         \subseteq ProvidersShown(p, u, purchaser, cps, ips, visible) \cup {purchaser}

\* As long as requests neither overlap nor die, modifyIp ends with the individual
\* providers asked for, and the CP who asked stays (modifyIp).
ModifiedAsAsked ==
  [][Serial /\ "death" \notin faults =>
       \A c \in Calls :
         task[c].at \in {"adding", "revoking"} /\ task'[c] = Idle /\ task[c].exact
           => ips' = task[c].asked \ ({purchaser} \cup Members(cps)) /\ cps' = cps
    ]_delegationVars
=============================================================================
