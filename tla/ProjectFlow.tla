----------------------------- MODULE ProjectFlow -----------------------------
(***************************************************************************)
(* The life cycle of one project (ProjectsService): the purchaser creates  *)
(* it and names a provider, the two send it back and forth, the provider   *)
(* accepts it, the purchaser has its contracts deployed; until then it can *)
(* be deleted.  A request is several queries, and what it read of the      *)
(* project decides what it writes later.                                   *)
(*                                                                         *)
(* The terms of an agreement are a number that counts the versions     *)
(* saved.  What add-escrow does on the chain is the subject of             *)
(* EscrowDeployment; here it succeeds or fails.                            *)
(***************************************************************************)
EXTENDS Naturals, Sequences

CONSTANTS
  Calls,            \* requests that can be in flight at the same time
  purchaser,        \* the user who creates the project
  Providers,        \* the users of role PROVIDER
  Nobody,           \* no user
  MilestoneIds,     \* bound: milestones that can be created
  MaxTerms,         \* bound: versions after which nothing is saved any more
  FaultSets         \* what can happen: sets of "overlap", "death", "anyId"

ASSUME ProjectFlowAssumption ==
  /\ purchaser \notin Providers
  /\ Nobody \notin Providers \cup {purchaser}
  /\ MaxTerms \in Nat
  /\ FaultSets \subseteq SUBSET {"overlap", "death", "anyId"}

VARIABLES
  faults,      \* what can happen in this behaviour
  project,     \* the row of table Projects
  cps,         \* its members of kind CP, in the order they were added
  milestones,  \* its main milestones
  funds,       \* those that have a row of table Funds
  escrow,      \* whether it has a row of table Escrow
  draft,       \* who saved the drafts that are not deleted, or Nobody
  terms,       \* the version that was saved last
  author,      \* who saved it
  agreed,      \* what was accepted last
  request      \* per call: where it is and what it read

data == <<cps, milestones, funds, escrow, draft>>
saved == <<terms, author, agreed>>
vars == <<faults, project, data, saved, request>>

\* Requests come one after the other; clients name milestones only by ids that are
\* theirs to name.
Serial == "overlap" \notin faults
OwnIds == "anyId" \notin faults
Orderly == Serial /\ OwnIds

Users == Providers \cup {purchaser}
Editable == {"INITILIZED", "NEW_PROJECT", "ADD_MILESTONES"}
Accepted == {"ADD_ESCROW", "CONTRACT_DEPLOYED"}
ProjectState == Editable \cup Accepted \cup {"none", "deleted"}
Exists == project.state \in Editable \cup Accepted

Members(s) == {s[i] : i \in DOMAIN s}
NoAgreement == [terms |-> 0, by |-> Nobody, author |-> Nobody]

Idle == [at |-> "idle"]
AllIdle == \A c \in Calls : request[c] = Idle
Goto(c, r) == request' = [request EXCEPT ![c] = r]
End(c) == Goto(c, Idle)

-----------------------------------------------------------------------------
\* A new request; only where requests overlap is it not the only one.
Start(c) ==
  /\ request[c] = Idle
  /\ Serial => AllIdle

\* addProject without an id.
CreateProject(c) ==
  /\ Start(c)
  /\ project.state = "none"
  /\ project' = [state |-> "INITILIZED", editor |-> purchaser]
  /\ Goto(c, [at |-> "editing", user |-> purchaser, state |-> "INITILIZED"])
  /\ UNCHANGED <<faults, data, saved>>

FaultyGetProject(c) ==                \* faulty: ADD_ESCROW is not rejected
  /\ Start(c)
  /\ project.state \in Editable \cup {"ADD_ESCROW"}
  /\ Goto(c, [at |-> "editing", user |-> project.editor,
              state |-> IF project.state = "ADD_ESCROW" THEN "ADD_MILESTONES"
                        ELSE project.state])
  /\ UNCHANGED <<faults, project, data, saved>>

\* addProject with one: the row must be editable, and the user its editor.
GetProject(c) ==
  /\ Start(c)
  /\ project.state \in Editable
  /\ Goto(c, [at |-> "editing", user |-> project.editor, state |-> project.state])
  /\ UNCHANGED <<faults, project, data, saved>>

\* The type of the request is DRAFT; the drafts refer to the project.
SaveDraft(c) ==
  /\ request[c].at = "editing"
  /\ draft' = IF Exists THEN request[c].user ELSE draft
  /\ End(c)
  /\ UNCHANGED <<faults, project, cps, milestones, funds, escrow, saved>>

\* findProjectState
NextState(state) ==
  IF state = "INITILIZED" THEN "NEW_PROJECT" ELSE "ADD_MILESTONES"

FaultyOther(user, provider) ==        \* faulty: the editor keeps the turn
  CASE provider # Nobody -> provider
    [] OTHER -> user

\* The next editor is a provider who is named now, or the other side as
\* findCurrentEditor sees it.
Other(user, provider) ==
  CASE provider # Nobody -> provider
    [] provider = Nobody /\ user # purchaser -> purchaser
    [] provider = Nobody /\ user = purchaser -> IF cps = <<>> THEN Nobody ELSE cps[1]

FaultyMayName(provider) == TRUE       \* faulty: a provider is named again

\* A project gets one provider, the first time it is saved.
MayName(provider) == cps = <<>> \/ provider = Nobody

\* saveProject: the type is COMPLETE, and so far only rows were read.
PrepareSave(c, provider) ==
  /\ request[c].at = "editing"
  /\ terms < MaxTerms
  /\ IF /\ Exists
        /\ request[c].state = "INITILIZED" => provider # Nobody
        /\ MayName(provider)
     THEN Goto(c, [at |-> "saving", user |-> request[c].user,
                   new |-> request[c].state # "INITILIZED",
                   state |-> NextState(request[c].state), provider |-> provider,
                   editor |-> Other(request[c].user, provider)])
     ELSE End(c)
  /\ UNCHANGED <<faults, project, data, saved>>

\* A member is not added a second time; of the milestones, some are created.
CanJoin(provider) == provider \notin Members(cps)
CanCreate(r, created) ==
  /\ created \cap milestones = {}
  /\ created # {} => r.new

\* saveProjectTransaction is rolled back when the project is gone or the provider
\* a member already.
Committed(r) == Exists /\ CanJoin(r.provider)

\* Milestones with an id are updated, to whatever project they belong: those this
\* one takes from another come with their Funds.
FundsBrought(created) == IF OwnIds THEN {{}} ELSE SUBSET created

\* Undefined as the next editor leaves the column alone.
SaveProject(c, created) ==
  LET r == request[c] IN
  /\ r.at = "saving"
  /\ CanCreate(r, created)
  /\ IF Committed(r)
     THEN /\ project' = [state |-> r.state, editor |->
                           IF r.editor = Nobody THEN project.editor ELSE r.editor]
          /\ cps' = IF r.provider = Nobody THEN cps ELSE Append(cps, r.provider)
          /\ milestones' = milestones \cup created
          /\ \E brought \in FundsBrought(created) : funds' = funds \cup brought
          /\ draft' = Nobody
          /\ terms' = terms + 1
          /\ author' = r.user
     ELSE UNCHANGED <<project, cps, milestones, funds, draft, terms, author>>
  /\ End(c)
  /\ UNCHANGED <<faults, escrow, agreed>>

\* In the same way this project loses a milestone, with its Funds: to another one
\* that saves it, or as addSubMilestone turns it into a sub-milestone.
LoseMilestone(m) ==
  /\ ~OwnIds
  /\ Exists /\ m \in milestones /\ terms < MaxTerms
  /\ milestones' = milestones \ {m} /\ funds' = funds \ {m}
  /\ terms' = terms + 1
  /\ UNCHANGED <<faults, project, cps, escrow, draft, author, agreed, request>>

-----------------------------------------------------------------------------
FaultyAcceptProject(c, user) ==       \* faulty: anyone of role PROVIDER accepts
  /\ Start(c)
  /\ project.state = "ADD_MILESTONES"
  /\ project' = [project EXCEPT !.state = "ADD_ESCROW"]
  /\ agreed' = [terms |-> terms, by |-> user, author |-> author]
  /\ Goto(c, [at |-> "accepted"])
  /\ UNCHANGED <<faults, data, terms, author>>

\* acceptProject, only for the role PROVIDER: one update with the conditions in
\* its where, ...
AcceptProject(c, user) ==
  /\ Start(c)
  /\ project.state = "ADD_MILESTONES" /\ project.editor = user
  /\ project' = [project EXCEPT !.state = "ADD_ESCROW"]
  /\ agreed' = [terms |-> terms, by |-> user, author |-> author]
  /\ Goto(c, [at |-> "accepted"])
  /\ UNCHANGED <<faults, data, terms, author>>

FaultyGetMilestones(c) ==             \* faulty: looks for sub-milestones
  /\ request[c].at = "accepted"
  /\ Goto(c, [at |-> "funding", milestones |-> {}])
  /\ UNCHANGED <<faults, project, data, saved>>

\* ... the milestones, ...
GetMilestones(c) ==
  /\ request[c].at = "accepted"
  /\ Goto(c, [at |-> "funding", milestones |-> milestones])
  /\ UNCHANGED <<faults, project, data, saved>>

\* ... a row of Funds for each of them, which must exist and have none, ...
CreateFunds(c) ==
  LET r == request[c] IN
  /\ r.at = "funding"
  /\ IF r.milestones \subseteq milestones \ funds
     THEN /\ funds' = funds \cup r.milestones
          /\ Goto(c, [at |-> "escrow"])
     ELSE End(c) /\ UNCHANGED funds
  /\ UNCHANGED <<faults, project, cps, milestones, escrow, draft, saved>>

FaultyCreateEscrow(c) ==              \* faulty: the row is never made
  /\ request[c].at = "escrow"
  /\ Goto(c, [at |-> "cleaning"])
  /\ UNCHANGED <<faults, project, data, saved>>

\* ... the row of Escrow, of which a project has one, ...
CreateEscrow(c) ==
  /\ request[c].at = "escrow"
  /\ IF Exists /\ ~escrow
     THEN escrow' = TRUE /\ Goto(c, [at |-> "cleaning"])
     ELSE End(c) /\ UNCHANGED escrow
  /\ UNCHANGED <<faults, project, cps, milestones, funds, draft, saved>>

\* ... and the drafts.
DeleteDrafts(c) ==
  /\ request[c].at = "cleaning"
  /\ draft' = Nobody
  /\ End(c)
  /\ UNCHANGED <<faults, project, cps, milestones, funds, escrow, saved>>

-----------------------------------------------------------------------------
\* addEscrow of an accepted project.
RequestDeployment(c) ==
  /\ Start(c)
  /\ project.state = "ADD_ESCROW"
  /\ Goto(c, [at |-> "deploying"])
  /\ UNCHANGED <<faults, project, data, saved>>

\* Without a row of Escrow nothing is deployed; otherwise it succeeds or fails.
DeployContracts(c) ==
  /\ request[c].at = "deploying"
  /\ \/ escrow /\ Goto(c, [at |-> "declaring"])
     \/ End(c)
  /\ UNCHANGED <<faults, project, data, saved>>

DeclareDeployed(c) ==
  /\ request[c].at = "declaring"
  /\ project' = IF Exists THEN [project EXCEPT !.state = "CONTRACT_DEPLOYED"]
                          ELSE project
  /\ End(c)
  /\ UNCHANGED <<faults, data, saved>>

\* deleteProject, for anyone: reads the state, ...
RequestDeletion(c) ==
  /\ Start(c)
  /\ Exists /\ project.state # "CONTRACT_DEPLOYED"
  /\ Goto(c, [at |-> "deleting"])
  /\ UNCHANGED <<faults, project, data, saved>>

\* ... and deletes the project with all that cascades, unless Funds refer to its
\* milestones.  Its row of Escrow stays, without a project.
DeleteProject(c) ==
  /\ request[c].at = "deleting"
  /\ IF Exists /\ funds = {}
     THEN /\ project' = [project EXCEPT !.state = "deleted"]
          /\ cps' = <<>> /\ milestones' = {} /\ draft' = Nobody /\ escrow' = FALSE
     ELSE UNCHANGED <<project, cps, milestones, draft, escrow>>
  /\ End(c)
  /\ UNCHANGED <<faults, funds, saved>>

\* The process dies, or a query of the request fails.
Die(c) ==
  /\ "death" \in faults
  /\ request[c] # Idle
  /\ End(c)
  /\ UNCHANGED <<faults, project, data, saved>>

-----------------------------------------------------------------------------
Init ==
  /\ faults \in FaultSets
  /\ project = [state |-> "none", editor |-> purchaser]
  /\ cps = <<>> /\ milestones = {} /\ funds = {} /\ escrow = FALSE
  /\ draft = Nobody
  /\ terms = 0 /\ author = Nobody /\ agreed = NoAgreement
  /\ request = [c \in Calls |-> Idle]

Editing(c) ==
  \/ CreateProject(c)
  \/ GetProject(c)
  \/ SaveDraft(c)
  \/ \E provider \in Providers \cup {Nobody} : PrepareSave(c, provider)
  \/ \E created \in SUBSET MilestoneIds : SaveProject(c, created)

Accepting(c) ==
  \/ \E user \in Providers : AcceptProject(c, user)
  \/ GetMilestones(c)
  \/ CreateFunds(c)
  \/ CreateEscrow(c)
  \/ DeleteDrafts(c)

Ending(c) ==
  \/ RequestDeployment(c)
  \/ DeployContracts(c)
  \/ DeclareDeployed(c)
  \/ RequestDeletion(c)
  \/ DeleteProject(c)
  \/ Die(c)

Next ==
  \/ \E c \in Calls : Editing(c) \/ Accepting(c) \/ Ending(c)
  \/ \E m \in MilestoneIds : LoseMilestone(m)

Spec == Init /\ [][Next]_vars

-----------------------------------------------------------------------------
Requests ==
  [at : {"idle", "accepted", "escrow", "cleaning", "deploying", "declaring",
         "deleting"}]
  \cup [at : {"editing"}, user : Users, state : Editable]
  \cup [at : {"saving"}, user : Users, new : BOOLEAN,
        state : {"NEW_PROJECT", "ADD_MILESTONES"},
        provider : Providers \cup {Nobody}, editor : Users \cup {Nobody}]
  \cup [at : {"funding"}, milestones : SUBSET MilestoneIds]

\* The columns of the tables (schema.prisma); the state and the editor of a
\* project are never null.
TypeOK ==
  /\ faults \in FaultSets
  /\ project \in [state : ProjectState, editor : Users]
  /\ cps \in Seq(Providers)
  /\ milestones \subseteq MilestoneIds /\ funds \subseteq MilestoneIds
  /\ escrow \in BOOLEAN
  /\ draft \in Users \cup {Nobody}
  /\ terms \in Nat /\ author \in Users \cup {Nobody}
  /\ agreed \in [terms : Nat, by : Users \cup {Nobody},
                 author : Users \cup {Nobody}]
  /\ request \in [Calls -> Requests]

\* However requests overlap and fail, where no member is removed: while terms are
\* discussed, the purchaser and a provider of the project are the one who saved last
\* and the one whose turn it is (saveProject, currentEditor).
TurnsAlternate ==
  project.state \in {"NEW_PROJECT", "ADD_MILESTONES"} =>
    \/ author = purchaser /\ project.editor \in Members(cps)
    \/ author \in Members(cps) /\ project.editor = purchaser

\* However requests overlap and fail, where no member is removed: what is accepted
\* is what the purchaser saved last, by a provider of the project (acceptProject,
\* the where of its update).
AgreedByBoth ==
  agreed # NoAgreement =>
    /\ agreed.author = purchaser
    /\ Exists => agreed.by \in Members(cps)

\* As long as requests do not overlap, a project has one provider, whatever
\* fails (saveProject, PROVIDER_ALREADY_EXIST).
OneProvider == Serial => Len(cps) <= 1

\* As long as requests do not overlap, and clients name no milestone that is not
\* theirs to name, a deployed project has a row of Funds for each of its milestones,
\* although acceptProject makes them in queries of their own and may fail in between.
DeployedHasFunds ==
  Orderly /\ project.state = "CONTRACT_DEPLOYED" =>
    funds = milestones

\* Unless a request dies half way, or milestones were taken from another project,
\* overlapping or not, a project that waits for its contracts has the row of Escrow
\* that addEscrow needs, once the requests are done (acceptProject, addEscrow).
AcceptedHasRow ==
  "death" \notin faults /\ OwnIds /\ project.state = "ADD_ESCROW" /\ AllIdle => escrow

-----------------------------------------------------------------------------
Stage ==
  CASE project.state \in Editable -> "open"
    [] project.state = "ADD_ESCROW" -> "accepted"
    [] project.state = "CONTRACT_DEPLOYED" -> "deployed"
    [] project.state = "deleted" -> "withdrawn"
    [] project.state = "none" -> "none"

A == INSTANCE Agreement WITH stage <- Stage, turn <- project.editor

AgreementStep == Orderly => A!Next \/ UNCHANGED A!vars

\* As long as requests do not overlap, and clients name no milestone that is not
\* theirs to name, whatever fails, every step of the service is one of the
\* agreement: what was accepted is never edited again, and what was deployed is
\* never deleted (getOrCreateProject, deleteProject).
FollowsAgreement ==
  A!Init /\ [][AgreementStep]_vars
=============================================================================
