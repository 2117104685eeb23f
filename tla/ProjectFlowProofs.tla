-------------------------- MODULE ProjectFlowProofs --------------------------
(***************************************************************************)
(* Proofs about ProjectFlow, for any number of requests, providers,        *)
(* milestones and versions.                                                *)
(*                                                                         *)
(* None of its invariants is inductive, because what a request writes      *)
(* depends on what it read.  FlowInv adds, for any faults, that the two    *)
(* sides a request speaks of are members of the project; UndisturbedInv    *)
(* adds, for requests that do not overlap, that what a request read is     *)
(* still what the project is.                                              *)
(***************************************************************************)
EXTENDS ProjectFlow, SequenceTheorems, TLAPS

LEMMA RequestType ==
  ASSUME TypeOK, NEW c \in Calls, NEW r \in Requests, Goto(c, r)
  PROVE  request' \in [Calls -> Requests]
  BY DEF TypeOK, Goto

LEMMA IdleType == Idle \in Requests
  BY DEF Idle, Requests

LEMMA ReadType ==
  ASSUME TypeOK, NEW c \in Calls
  PROVE  /\ request[c] \in Requests
         /\ request[c].at = "editing" =>
              /\ request[c].user \in Users
              /\ request[c].state \in Editable
         /\ request[c].at = "saving" =>
              /\ request[c].user \in Users
              /\ request[c].new \in BOOLEAN
              /\ request[c].state \in {"NEW_PROJECT", "ADD_MILESTONES"}
              /\ request[c].provider \in Providers \cup {Nobody}
              /\ request[c].editor \in Users \cup {Nobody}
         /\ request[c].at = "funding" => request[c].milestones \subseteq MilestoneIds
<1>1. request[c] \in Requests
  BY DEF TypeOK
<1>2. QED
  BY <1>1 DEF Requests

LEMMA EndType ==
  ASSUME TypeOK, NEW c \in Calls, End(c)
  PROVE  request' \in [Calls -> Requests]
  BY IdleType, RequestType DEF End

LEMMA OtherType ==
  ASSUME TypeOK, NEW user \in Users, NEW provider \in Providers \cup {Nobody}
  PROVE  Other(user, provider) \in Users \cup {Nobody}
  BY DEF TypeOK, Other, Users

\* The types are kept by every request, whatever fails.
LEMMA FlowTypeStep ==
  TypeOK /\ [Next]_vars => TypeOK'
<1> SUFFICES ASSUME TypeOK, [Next]_vars PROVE TypeOK'
  OBVIOUS
<1> USE ProjectFlowAssumption
<1>1. ASSUME NEW c \in Calls, Editing(c) PROVE TypeOK'
  <2>1. CASE CreateProject(c)
    <3>1. [at |-> "editing", user |-> purchaser, state |-> "INITILIZED"] \in Requests
      BY DEF Requests, Users, Editable
    <3>2. request' \in [Calls -> Requests]
      BY <2>1, <3>1, RequestType DEF CreateProject
    <3>3. QED
      BY <2>1, <3>2 DEF CreateProject, TypeOK, data, saved, ProjectState, Editable, Users
  <2>2. CASE GetProject(c)
    <3>1. [at |-> "editing", user |-> project.editor, state |-> project.state]
            \in Requests
      BY <2>2 DEF GetProject, TypeOK, Requests, Users, Editable
    <3>2. request' \in [Calls -> Requests]
      BY <2>2, <3>1, RequestType DEF GetProject
    <3>3. QED
      BY <2>2, <3>2 DEF GetProject, TypeOK, data, saved
  <2>3. CASE SaveDraft(c)
    <3>1. request' \in [Calls -> Requests]
      BY <2>3, EndType DEF SaveDraft
    <3>2. QED
      BY <2>3, <3>1, ReadType DEF SaveDraft, TypeOK, saved
  <2>4. ASSUME NEW provider \in Providers \cup {Nobody}, PrepareSave(c, provider)
        PROVE  TypeOK'
    <3> DEFINE r == [at |-> "saving", user |-> request[c].user,
                     new |-> request[c].state # "INITILIZED",
                     state |-> NextState(request[c].state), provider |-> provider,
                     editor |-> Other(request[c].user, provider)]
    <3>1. request[c].user \in Users /\ request[c].state \in Editable
      BY <2>4, ReadType DEF PrepareSave
    <3>2. Other(request[c].user, provider) \in Users \cup {Nobody}
      BY <3>1, OtherType
    <3>3. r \in Requests
      BY <3>1, <3>2 DEF Requests, NextState, Editable
    <3>4. request' \in [Calls -> Requests]
      BY <2>4, <3>3, RequestType, EndType DEF PrepareSave
    <3>5. QED
      BY <2>4, <3>4 DEF PrepareSave, TypeOK, data, saved
  <2>5. ASSUME NEW created \in SUBSET MilestoneIds, SaveProject(c, created)
        PROVE  TypeOK'
    <3>1. request' \in [Calls -> Requests]
      BY <2>5, EndType DEF SaveProject
    <3>2. CASE ~Committed(request[c])
      BY <2>5, <3>1, <3>2 DEF SaveProject, TypeOK
    <3>3. CASE Committed(request[c])
      <4>1. /\ request[c].user \in Users
            /\ request[c].state \in {"NEW_PROJECT", "ADD_MILESTONES"}
            /\ request[c].provider \in Providers \cup {Nobody}
            /\ request[c].editor \in Users \cup {Nobody}
        BY <2>5, ReadType DEF SaveProject
      <4>2. cps' \in Seq(Providers)
        BY <2>5, <3>3, <4>1, AppendProperties DEF SaveProject, TypeOK
      <4>3. project' \in [state : ProjectState, editor : Users]
        BY <2>5, <3>3, <4>1 DEF SaveProject, TypeOK, ProjectState, Editable
      <4>4. funds' \subseteq MilestoneIds
        BY <2>5, <3>3 DEF SaveProject, FundsBrought, TypeOK
      <4>5. QED
        BY <2>5, <3>1, <3>3, <4>1, <4>2, <4>3, <4>4 DEF SaveProject, TypeOK
    <3>4. QED
      BY <3>2, <3>3
  <2>6. QED
    BY <1>1, <2>1, <2>2, <2>3, <2>4, <2>5 DEF Editing
<1>2. ASSUME NEW c \in Calls, Accepting(c) PROVE TypeOK'
  <2>1. ASSUME NEW user \in Providers, AcceptProject(c, user) PROVE TypeOK'
    <3>1. [at |-> "accepted"] \in Requests
      BY DEF Requests
    <3>2. request' \in [Calls -> Requests]
      BY <2>1, <3>1, RequestType DEF AcceptProject
    <3>3. QED
      BY <2>1, <3>2 DEF AcceptProject, TypeOK, data, ProjectState, Accepted, Users
  <2>2. CASE GetMilestones(c)
    <3>1. [at |-> "funding", milestones |-> milestones] \in Requests
      BY DEF TypeOK, Requests
    <3>2. request' \in [Calls -> Requests]
      BY <2>2, <3>1, RequestType DEF GetMilestones
    <3>3. QED
      BY <2>2, <3>2 DEF GetMilestones, TypeOK, data, saved
  <2>3. CASE CreateFunds(c)
    <3>1. [at |-> "escrow"] \in Requests
      BY DEF Requests
    <3>2. request' \in [Calls -> Requests]
      BY <2>3, <3>1, RequestType, EndType DEF CreateFunds
    <3>3. QED
      BY <2>3, <3>2 DEF CreateFunds, TypeOK, saved
  <2>4. CASE CreateEscrow(c)
    <3>1. [at |-> "cleaning"] \in Requests
      BY DEF Requests
    <3>2. request' \in [Calls -> Requests]
      BY <2>4, <3>1, RequestType, EndType DEF CreateEscrow
    <3>3. QED
      BY <2>4, <3>2 DEF CreateEscrow, TypeOK, saved
  <2>5. CASE DeleteDrafts(c)
    <3>1. request' \in [Calls -> Requests]
      BY <2>5, EndType DEF DeleteDrafts
    <3>2. QED
      BY <2>5, <3>1 DEF DeleteDrafts, TypeOK, saved
  <2>6. QED
    BY <1>2, <2>1, <2>2, <2>3, <2>4, <2>5 DEF Accepting
<1>3. ASSUME NEW c \in Calls, Ending(c) PROVE TypeOK'
  <2>1. /\ [at |-> "deploying"] \in Requests
        /\ [at |-> "declaring"] \in Requests
        /\ [at |-> "deleting"] \in Requests
    BY DEF Requests
  <2>2. request' \in [Calls -> Requests]
    BY <1>3, <2>1, RequestType, EndType
    DEF Ending, RequestDeployment, DeployContracts, DeclareDeployed,
        RequestDeletion, DeleteProject, Die
  <2>3. CASE UNCHANGED <<faults, project, data, saved>>
    BY <2>2, <2>3 DEF TypeOK, data, saved
  <2>4. CASE DeclareDeployed(c)
    BY <2>2, <2>4 DEF DeclareDeployed, TypeOK, data, saved, ProjectState, Accepted
  <2>5. CASE DeleteProject(c)
    <3>1. <<>> \in Seq(Providers)
      OBVIOUS
    <3>2. CASE Exists /\ funds = {}
      <4>1. project' \in [state : ProjectState, editor : Users]
        BY <2>5, <3>2 DEF DeleteProject, TypeOK, ProjectState
      <4>2. cps' \in Seq(Providers) /\ milestones' \subseteq MilestoneIds
        BY <2>5, <3>1, <3>2 DEF DeleteProject
      <4>3. escrow' \in BOOLEAN
        BY <2>5, <3>2 DEF DeleteProject
      <4>4. draft' \in Users \cup {Nobody}
        BY <2>5, <3>2 DEF DeleteProject
      <4>5. QED
        BY <2>2, <2>5, <4>1, <4>2, <4>3, <4>4 DEF DeleteProject, TypeOK, saved
    <3>3. CASE ~(Exists /\ funds = {})
      BY <2>2, <2>5, <3>3 DEF DeleteProject, TypeOK, saved
    <3>4. QED
      BY <3>2, <3>3
  <2>6. QED
    BY <1>3, <2>3, <2>4, <2>5
    DEF Ending, RequestDeployment, DeployContracts, RequestDeletion, Die
<1>4. ASSUME NEW m \in MilestoneIds, LoseMilestone(m) PROVE TypeOK'
  BY <1>4 DEF LoseMilestone, TypeOK
<1>5. CASE UNCHANGED vars
  BY <1>5 DEF TypeOK, vars, data, saved
<1>6. QED
  BY <1>1, <1>2, <1>3, <1>4, <1>5 DEF Next

LEMMA FlowTypeInit == Init => TypeOK
<1> SUFFICES ASSUME Init PROVE TypeOK
  OBVIOUS
<1>1. <<>> \in Seq(Providers)
  OBVIOUS
<1>2. request \in [Calls -> Requests]
  BY IdleType DEF Init
<1>3. QED
  BY <1>1, <1>2 DEF Init, TypeOK, ProjectState, Users, NoAgreement

\* The types of all columns, and of what a request carries from query to query,
\* for any faults.
THEOREM FlowTypeCorrect == Spec => []TypeOK
  BY FlowTypeInit, FlowTypeStep, PTL DEF Spec

-----------------------------------------------------------------------------
\* The two sides a request speaks of are members: the one who saves, and the one
\* whose turn it is then.
Sides(r, s) ==
  /\ r.at = "editing" =>
       /\ r.user \in Members(s) \cup {purchaser}
       /\ r.state = "INITILIZED" => r.user = purchaser
       /\ r.state # "INITILIZED" => s # <<>>
  /\ r.at = "saving" =>
       \/ r.user = purchaser /\ r.provider \in Providers /\ r.editor = r.provider
       \/ r.user = purchaser /\ r.provider = Nobody /\ r.editor \in Members(s)
       \/ r.user \in Members(s) /\ r.provider = Nobody /\ r.editor = purchaser

FlowInv ==
  /\ project.state = "none" => AllIdle /\ agreed = NoAgreement
  /\ project.state = "INITILIZED" => project.editor = purchaser
  /\ project.state \in {"NEW_PROJECT", "ADD_MILESTONES"} => cps # <<>>
  /\ Exists => \A c \in Calls : Sides(request[c], cps)
  /\ TurnsAlternate
  /\ AgreedByBoth

LEMMA FirstIsMember ==
  ASSUME TypeOK, cps # <<>>
  PROVE  cps[1] \in Members(cps)
  BY DEF TypeOK, Members

LEMMA MembersAreProviders ==
  ASSUME TypeOK
  PROVE  Members(cps) \subseteq Providers
  BY DEF TypeOK, Members

LEMMA MembersGrow ==
  ASSUME TypeOK, NEW p \in Providers, cps' = Append(cps, p)
  PROVE  Members(cps') = Members(cps) \cup {p} /\ cps' # <<>>
<1>1. /\ Len(cps') = Len(cps) + 1 /\ Len(cps) \in Nat
      /\ DOMAIN cps = 1 .. Len(cps)
      /\ DOMAIN cps' = 1 .. Len(cps) + 1
      /\ \A i \in 1 .. Len(cps) : cps'[i] = cps[i]
      /\ cps'[Len(cps) + 1] = p
  BY AppendProperties DEF TypeOK
<1>2. Members(cps') \subseteq Members(cps) \cup {p}
  BY <1>1 DEF Members
<1>3. Members(cps) \cup {p} \subseteq Members(cps')
  BY <1>1 DEF Members
<1>4. cps' # <<>>
  BY <1>1
<1>5. QED
  BY <1>2, <1>3, <1>4

\* Requests stay sound while members are only added.
LEMMA SidesKept ==
  ASSUME TypeOK, NEW c \in Calls, NEW r, Goto(c, r),
         \A d \in Calls : Sides(request[d], cps),
         Members(cps) \subseteq Members(cps'),
         cps # <<>> => cps' # <<>>,
         Sides(r, cps')
  PROVE  \A d \in Calls : Sides(request'[d], cps')
<1> SUFFICES ASSUME NEW d \in Calls PROVE Sides(request'[d], cps')
  OBVIOUS
<1>1. CASE d = c
  BY <1>1 DEF Goto, TypeOK
<1>2. CASE d # c
  <2>1. request'[d] = request[d]
    BY <1>2 DEF Goto, TypeOK
  <2>2. Sides(request[d], cps')
    BY DEF Sides
  <2>3. QED
    BY <2>1, <2>2
<1>3. QED
  BY <1>1, <1>2

\* A step of one request that leaves the project, its members and what was saved
\* as they are.
LEMMA QuietStep ==
  ASSUME TypeOK, FlowInv, NEW c \in Calls, NEW r, Goto(c, r),
         Exists => Sides(r, cps), project.state # "none",
         UNCHANGED <<project, cps, author, agreed>>
  PROVE  FlowInv'
<1>1. Exists => \A d \in Calls : Sides(request'[d], cps')
  BY SidesKept DEF FlowInv
<1>2. QED
  BY <1>1 DEF FlowInv, TurnsAlternate, AgreedByBoth, Exists

LEMMA IdleSides == \A s : Sides(Idle, s)
  BY DEF Sides, Idle

LEMMA Busy ==
  ASSUME TypeOK, FlowInv, NEW c \in Calls, request[c].at # "idle"
  PROVE  project.state # "none"
  BY DEF FlowInv, AllIdle, Idle

LEMMA FlowInit == Init => FlowInv
<1> SUFFICES ASSUME Init PROVE FlowInv
  OBVIOUS
<1>1. AllIdle
  BY DEF Init, AllIdle
<1>2. QED
  BY <1>1 DEF Init, FlowInv, TurnsAlternate, AgreedByBoth, Exists, Editable,
              Accepted, NoAgreement

\* What requests and failures do to each other, for any faults.
LEMMA FlowStep ==
  TypeOK /\ TypeOK' /\ FlowInv /\ [Next]_vars => FlowInv'
<1> SUFFICES ASSUME TypeOK, TypeOK', FlowInv, [Next]_vars PROVE FlowInv'
  OBVIOUS
<1> USE ProjectFlowAssumption
<1>1. ASSUME NEW c \in Calls, CreateProject(c) PROVE FlowInv'
  <2> DEFINE r == [at |-> "editing", user |-> purchaser, state |-> "INITILIZED"]
  <2>1. \A d \in Calls : request[d] = Idle
    BY <1>1 DEF CreateProject, FlowInv, AllIdle
  <2>2. \A d \in Calls : Sides(request[d], cps)
    BY <2>1, IdleSides
  <2>3. Sides(r, cps)
    BY DEF Sides
  <2>4. \A d \in Calls : Sides(request'[d], cps')
    BY <1>1, <2>2, <2>3, SidesKept DEF CreateProject, data
  <2>5. project'.state = "INITILIZED" /\ project'.editor = purchaser
    BY <1>1 DEF CreateProject
  <2>6. agreed' = NoAgreement
    BY <1>1 DEF CreateProject, FlowInv, saved
  <2>7. QED
    BY <2>4, <2>5, <2>6 DEF FlowInv, TurnsAlternate, AgreedByBoth
<1>2. ASSUME NEW c \in Calls, GetProject(c) PROVE FlowInv'
  <2> DEFINE r == [at |-> "editing", user |-> project.editor,
                   state |-> project.state]
  <2>1. Sides(r, cps)
    BY <1>2 DEF GetProject, Editable, Sides, FlowInv, TurnsAlternate
  <2>2. QED
    BY <1>2, <2>1, QuietStep DEF GetProject, Editable, data, saved
<1>3. ASSUME NEW c \in Calls, SaveDraft(c) PROVE FlowInv'
  BY <1>3, Busy, IdleSides, QuietStep DEF SaveDraft, End, saved
<1>4. ASSUME NEW c \in Calls, NEW provider \in Providers \cup {Nobody},
             PrepareSave(c, provider)
      PROVE  FlowInv'
  <2> DEFINE old == request[c]
  <2> DEFINE r == [at |-> "saving", user |-> old.user,
                   new |-> old.state # "INITILIZED",
                   state |-> NextState(old.state), provider |-> provider,
                   editor |-> Other(old.user, provider)]
  <2>1. project.state # "none"
    BY <1>4, Busy DEF PrepareSave
  <2>2. UNCHANGED <<project, cps, author, agreed>>
    BY <1>4 DEF PrepareSave, data, saved
  <2>3. CASE End(c)
    BY <2>1, <2>2, <2>3, IdleSides, QuietStep DEF End
  <2>4. CASE /\ Exists
             /\ old.state = "INITILIZED" => provider # Nobody
             /\ MayName(provider)
             /\ Goto(c, r)
    <3>1. Sides(old, cps) /\ old.at = "editing"
      BY <1>4, <2>4 DEF PrepareSave, FlowInv
    <3>2. CASE provider # Nobody
      <4>1. cps = <<>> /\ Members(cps) = {}
        BY <2>4, <3>2 DEF MayName, Members
      <4>2. old.user = purchaser
        BY <3>1, <4>1 DEF Sides
      <4>3. Sides(r, cps)
        BY <3>2, <4>2 DEF Sides, Other
      <4>4. QED
        BY <2>1, <2>2, <2>4, <4>3, QuietStep
    <3>3. CASE provider = Nobody /\ old.user = purchaser
      <4>1. cps # <<>>
        BY <2>4, <3>1, <3>3 DEF Sides
      <4>2. r.editor \in Members(cps)
        BY <3>3, <4>1, FirstIsMember DEF Other
      <4>3. Sides(r, cps)
        BY <3>3, <4>2 DEF Sides
      <4>4. QED
        BY <2>1, <2>2, <2>4, <4>3, QuietStep
    <3>4. CASE provider = Nobody /\ old.user # purchaser
      <4>1. old.user \in Members(cps)
        BY <3>1, <3>4 DEF Sides
      <4>2. r.editor = purchaser
        BY <3>4 DEF Other
      <4>3. Sides(r, cps)
        BY <3>4, <4>1, <4>2 DEF Sides
      <4>4. QED
        BY <2>1, <2>2, <2>4, <4>3, QuietStep
    <3>5. QED
      BY <3>2, <3>3, <3>4
  <2>5. QED
    BY <1>4, <2>3, <2>4 DEF PrepareSave
<1>5. ASSUME NEW c \in Calls, NEW created \in SUBSET MilestoneIds,
             SaveProject(c, created)
      PROVE  FlowInv'
  <2> DEFINE r == request[c]
  <2>1. project.state # "none"
    BY <1>5, Busy DEF SaveProject
  <2>2. CASE ~Committed(r)
    BY <1>5, <2>1, <2>2, IdleSides, QuietStep DEF SaveProject, End
  <2>3. CASE Committed(r)
    <3>1. Sides(r, cps) /\ r.at = "saving" /\ Exists
      BY <1>5, <2>3 DEF SaveProject, FlowInv, Committed
    <3>2. /\ project'.state = r.state
          /\ project'.editor = IF r.editor = Nobody THEN project.editor ELSE r.editor
          /\ cps' = IF r.provider = Nobody THEN cps ELSE Append(cps, r.provider)
          /\ author' = r.user /\ agreed' = agreed /\ Goto(c, Idle)
      BY <1>5, <2>3 DEF SaveProject, End
    <3>3. r.state \in {"NEW_PROJECT", "ADD_MILESTONES"}
      BY <3>1, ReadType
    <3>4. Sides(Idle, cps') /\ agreed.by \in Users \cup {Nobody}
      BY IdleSides DEF TypeOK
    <3>5. CASE r.provider # Nobody
      <4>1. r.user = purchaser /\ r.provider \in Providers /\ r.editor = r.provider
        BY <3>1, <3>5 DEF Sides
      <4>2. Members(cps') = Members(cps) \cup {r.provider} /\ cps' # <<>>
        BY <3>2, <3>5, <4>1, MembersGrow
      <4>3. \A d \in Calls : Sides(request'[d], cps')
        BY <3>1, <3>2, <3>4, <4>2, SidesKept DEF FlowInv
      <4>4. author' = purchaser /\ project'.editor \in Members(cps')
        BY <3>2, <4>1, <4>2
      <4>5. AgreedByBoth'
        BY <3>1, <3>2, <4>2 DEF FlowInv, AgreedByBoth
      <4>6. QED
        BY <3>2, <3>3, <4>2, <4>3, <4>4, <4>5 DEF FlowInv, TurnsAlternate
    <3>6. CASE r.provider = Nobody
      <4>1. \/ r.user = purchaser /\ r.editor \in Members(cps)
            \/ r.user \in Members(cps) /\ r.editor = purchaser
        BY <3>1, <3>6 DEF Sides
      <4>2. cps' = cps /\ cps # <<>>
        BY <3>2, <3>6, <4>1 DEF Members
      <4>3. \A d \in Calls : Sides(request'[d], cps')
        BY <3>1, <3>2, <3>4, <4>2, SidesKept DEF FlowInv
      <4>4. r.editor # Nobody
        BY <4>1, MembersAreProviders
      <4>5. \/ author' = purchaser /\ project'.editor \in Members(cps')
            \/ author' \in Members(cps') /\ project'.editor = purchaser
        BY <3>2, <4>1, <4>2, <4>4
      <4>6. AgreedByBoth'
        BY <3>1, <3>2, <4>2 DEF FlowInv, AgreedByBoth
      <4>7. QED
        BY <3>2, <3>3, <4>2, <4>3, <4>5, <4>6 DEF FlowInv, TurnsAlternate
    <3>7. QED
      BY <3>5, <3>6
  <2>4. QED
    BY <2>2, <2>3
<1>6. ASSUME NEW c \in Calls, NEW user \in Providers, AcceptProject(c, user)
      PROVE  FlowInv'
  <2>1. \A s : Sides([at |-> "accepted"], s)
    BY DEF Sides
  <2>2. Exists /\ cps' = cps /\ project'.state = "ADD_ESCROW"
    BY <1>6 DEF AcceptProject, Exists, Editable, data, TypeOK
  <2>3. \A d \in Calls : Sides(request'[d], cps')
    BY <1>6, <2>1, <2>2, SidesKept DEF AcceptProject, FlowInv
  <2>4. author = purchaser /\ user \in Members(cps)
    BY <1>6, MembersAreProviders DEF AcceptProject, FlowInv, TurnsAlternate
  <2>5. AgreedByBoth'
    BY <1>6, <2>2, <2>4 DEF AcceptProject, AgreedByBoth
  <2>6. QED
    BY <2>2, <2>3, <2>5 DEF FlowInv, TurnsAlternate
<1>7. ASSUME NEW c \in Calls,
             \/ GetMilestones(c) \/ CreateFunds(c) \/ CreateEscrow(c)
             \/ DeleteDrafts(c) \/ DeployContracts(c)
      PROVE  FlowInv'
  <2> DEFINE Steps == {Idle, [at |-> "funding", milestones |-> milestones],
                       [at |-> "escrow"], [at |-> "cleaning"], [at |-> "declaring"]}
  <2>1. PICK r \in Steps : Goto(c, r)
    BY <1>7 DEF GetMilestones, CreateFunds, CreateEscrow, DeleteDrafts,
                DeployContracts, End
  <2>2. \A s : Sides(r, s)
    BY IdleSides DEF Sides
  <2>3. project.state # "none"
    BY <1>7, Busy DEF GetMilestones, CreateFunds, CreateEscrow, DeleteDrafts,
                      DeployContracts
  <2>4. UNCHANGED <<project, cps, author, agreed>>
    BY <1>7 DEF GetMilestones, CreateFunds, CreateEscrow, DeleteDrafts,
                DeployContracts, data, saved
  <2>5. QED
    BY <2>1, <2>2, <2>3, <2>4, QuietStep
<1>8. ASSUME NEW c \in Calls, RequestDeployment(c) \/ RequestDeletion(c)
      PROVE  FlowInv'
  <2>1. PICK r \in {[at |-> "deploying"], [at |-> "deleting"]} : Goto(c, r)
    BY <1>8 DEF RequestDeployment, RequestDeletion
  <2>2. \A s : Sides(r, s)
    BY DEF Sides
  <2>3. project.state # "none" /\ UNCHANGED <<project, cps, author, agreed>>
    BY <1>8 DEF RequestDeployment, RequestDeletion, Exists, Editable, Accepted,
                data, saved
  <2>4. QED
    BY <2>1, <2>2, <2>3, QuietStep
<1>9. ASSUME NEW c \in Calls, DeclareDeployed(c) PROVE FlowInv'
  <2>1. project.state # "none"
    BY <1>9, Busy DEF DeclareDeployed
  <2>2. Goto(c, Idle) /\ UNCHANGED <<cps, author, agreed>>
    BY <1>9 DEF DeclareDeployed, End, data, saved
  <2>3. CASE ~Exists
    BY <1>9, <2>1, <2>2, <2>3, QuietStep DEF DeclareDeployed
  <2>4. CASE Exists
    <3>1. project'.state = "CONTRACT_DEPLOYED"
      BY <1>9, <2>4 DEF DeclareDeployed, TypeOK
    <3>2. \A d \in Calls : Sides(request'[d], cps')
      BY <2>2, <2>4, IdleSides, SidesKept DEF FlowInv
    <3>3. AgreedByBoth'
      BY <2>2, <2>4 DEF FlowInv, AgreedByBoth
    <3>4. QED
      BY <3>1, <3>2, <3>3 DEF FlowInv, TurnsAlternate
  <2>5. QED
    BY <2>3, <2>4
<1>10. ASSUME NEW c \in Calls, DeleteProject(c) PROVE FlowInv'
  <2>1. project.state # "none"
    BY <1>10, Busy DEF DeleteProject
  <2>2. Goto(c, Idle) /\ UNCHANGED <<author, agreed>>
    BY <1>10 DEF DeleteProject, End, saved
  <2>3. CASE ~(Exists /\ funds = {})
    BY <1>10, <2>1, <2>2, <2>3, IdleSides, QuietStep DEF DeleteProject
  <2>4. CASE Exists /\ funds = {}
    <3>1. project'.state = "deleted"
      BY <1>10, <2>4 DEF DeleteProject, TypeOK
    <3>2. ~Exists'
      BY <3>1 DEF Exists, Editable, Accepted
    <3>3. QED
      BY <2>2, <3>1, <3>2 DEF FlowInv, TurnsAlternate, AgreedByBoth
  <2>5. QED
    BY <2>3, <2>4
<1>11. ASSUME NEW c \in Calls, Die(c) PROVE FlowInv'
  <2>1. project.state # "none"
    BY <1>11 DEF Die, FlowInv, AllIdle
  <2>2. QED
    BY <1>11, <2>1, IdleSides, QuietStep DEF Die, End, data, saved
<1>12. CASE UNCHANGED vars
  BY <1>12 DEF vars, data, saved, FlowInv, TurnsAlternate, AgreedByBoth, Exists,
               AllIdle
<1>13. ASSUME NEW m \in MilestoneIds, LoseMilestone(m) PROVE FlowInv'
  BY <1>13 DEF LoseMilestone, FlowInv, TurnsAlternate, AgreedByBoth, Exists, AllIdle
<1>14. QED
  BY <1>1, <1>2, <1>3, <1>4, <1>5, <1>6, <1>7, <1>8, <1>9, <1>10, <1>11, <1>12, <1>13
  DEF Next, Editing, Accepting, Ending

\* A request that ends without a write of its own, whatever for.
LEMMA FlowEnded ==
  ASSUME TypeOK, FlowInv, NEW c \in Calls, request[c].at # "idle", End(c),
         UNCHANGED <<faults, project, data, saved>>
  PROVE  FlowInv'
  BY Busy, IdleSides, QuietStep DEF End, data, saved

\* The invariant of the discussion, for any faults.
THEOREM FlowCorrect == Spec => [](TypeOK /\ FlowInv)
  BY FlowInit, FlowStep, FlowTypeCorrect, PTL DEF Spec

-----------------------------------------------------------------------------
\* Where requests do not overlap, what a request read still holds of the project
\* p, its providers s and row e of Escrow, and, where no milestone is lost to or
\* taken from another project, of its milestones m and funds f.
Current(r, p, s, m, f, e, own) ==
  /\ r.at = "editing" => p.state = r.state /\ p.editor = r.user
  /\ r.at = "saving" =>
       /\ p.state \in Editable /\ r.state = NextState(p.state)
       /\ p.editor = r.user
       /\ r.provider # Nobody => s = <<>>
  /\ r.at \in {"accepted", "funding", "escrow", "cleaning", "deploying", "declaring"} =>
       p.state = "ADD_ESCROW"
  /\ r.at \in {"accepted", "funding", "escrow"} => ~e
  /\ own /\ r.at \in {"accepted", "funding"} => f = {}
  /\ own /\ r.at = "funding" => r.milestones = m
  /\ own /\ r.at = "escrow" => f = m
  /\ r.at = "declaring" => e
  /\ r.at = "deleting" => p.state \in Editable \cup {"ADD_ESCROW"}

\* The rows that belong to a project in each of its states.
Books(p, s, m, f, e, t, own) ==
  /\ p.state \in Editable \cup {"none"} => ~e
  /\ own /\ p.state \in Editable \cup {"none"} => f = {}
  /\ own /\ p.state = "ADD_ESCROW" /\ e => f = m
  /\ own /\ p.state = "CONTRACT_DEPLOYED" => f = m
  /\ p.state = "none" => t = 0
  /\ p.state = "ADD_MILESTONES" => t > 0
  /\ s = <<>> \/ Len(s) = 1

Undisturbed ==
  /\ \A c, d \in Calls : request[c] # Idle /\ request[d] # Idle => c = d
  /\ \A c \in Calls : Current(request[c], project, cps, milestones, funds, escrow, OwnIds)
  /\ Books(project, cps, milestones, funds, escrow, terms, OwnIds)

UndisturbedInv == Serial => Undisturbed

LEMMA SerialStep ==
  ASSUME TypeOK, Undisturbed, NEW c \in Calls, NEW r, Goto(c, r), faults' = faults,
         request[c] # Idle \/ AllIdle,
         Current(r, project', cps', milestones', funds', escrow', OwnIds),
         Books(project', cps', milestones', funds', escrow', terms', OwnIds)
  PROVE  Undisturbed'
<1>1. \A d \in Calls \ {c} : request'[d] = Idle
  BY DEF Goto, Undisturbed, AllIdle, TypeOK
<1>2. request'[c] = r
  BY DEF Goto, TypeOK
<1>3. Current(Idle, project', cps', milestones', funds', escrow', OwnIds)
  BY DEF Current, Idle
<1>4. \A d \in Calls : Current(request'[d], project', cps', milestones', funds', escrow', OwnIds)
  BY <1>1, <1>2, <1>3
<1>5. \A d, e \in Calls : request'[d] # Idle /\ request'[e] # Idle => d = e
  BY <1>1
<1>6. OwnIds' = OwnIds
  BY DEF OwnIds
<1>7. QED
  BY <1>4, <1>5, <1>6 DEF Undisturbed

\* A step that changes nothing but the request.
LEMMA ReadStep ==
  ASSUME TypeOK, Undisturbed, NEW c \in Calls, NEW r, Goto(c, r), faults' = faults,
         request[c] # Idle \/ AllIdle,
         Current(r, project, cps, milestones, funds, escrow, OwnIds),
         UNCHANGED <<faults, project, cps, milestones, funds, escrow, terms>>
  PROVE  Undisturbed'
  BY SerialStep DEF Undisturbed

LEMMA IdleCurrent ==
  \A p, s, m, f, e, own : Current(Idle, p, s, m, f, e, own)
  BY DEF Current, Idle

\* Where requests do not overlap: a step of a request is one of the agreement, or
\* none.
Step == A!Next \/ UNCHANGED A!vars

LEMMA Unseen ==
  ASSUME UNCHANGED <<project, terms>>
  PROVE  Step
  BY DEF Step, A!vars, Stage

\* Without milestones of others no Funds are brought.
LEMMA FundsOwn ==
  ASSUME NEW c \in Calls, NEW created, SaveProject(c, created), OwnIds
  PROVE  funds' = funds
<1>1. CASE Committed(request[c])
  <2>1. PICK brought \in FundsBrought(created) : funds' = funds \cup brought
    BY <1>1 DEF SaveProject
  <2>2. brought = {}
    BY DEF FundsBrought
  <2>3. QED
    BY <2>1, <2>2
<1>2. CASE ~Committed(request[c])
  BY <1>2 DEF SaveProject
<1>3. QED
  BY <1>1, <1>2

LEMMA EditingSerial ==
  ASSUME TypeOK, Undisturbed, FlowInv, Serial,
         NEW c \in Calls, Editing(c)
  PROVE  Undisturbed' /\ Step
<1> USE ProjectFlowAssumption
<1>1. CASE CreateProject(c)
  <2> DEFINE r == [at |-> "editing", user |-> purchaser, state |-> "INITILIZED"]
  <2>1. /\ project' = [state |-> "INITILIZED", editor |-> purchaser]
        /\ UNCHANGED <<faults, cps, milestones, funds, escrow, terms>>
        /\ project.state = "none"
    BY <1>1 DEF CreateProject, data, saved
  <2>2. Current(r, project', cps', milestones', funds', escrow', OwnIds)
    BY <2>1 DEF Current
  <2>3. Books(project', cps', milestones', funds', escrow', terms', OwnIds)
    BY <2>1 DEF Undisturbed, Books, Editable
  <2>4. Undisturbed'
    BY <1>1, <2>2, <2>3, SerialStep DEF CreateProject, Start
  <2>5. A!Open
    BY <2>1 DEF A!Open, Stage, Editable, Undisturbed, Books
  <2>6. QED
    BY <2>4, <2>5 DEF Step, A!Next
<1>2. CASE GetProject(c)
  <2> DEFINE r == [at |-> "editing", user |-> project.editor, state |-> project.state]
  <2>1. Current(r, project, cps, milestones, funds, escrow, OwnIds)
    BY DEF Current
  <2>2. UNCHANGED <<faults, project, cps, milestones, funds, escrow, terms>>
    BY <1>2 DEF GetProject, data, saved
  <2>3. QED
    BY <1>2, <2>1, <2>2, ReadStep, Unseen DEF GetProject, Start
<1>3. CASE SaveDraft(c)
  <2>1. UNCHANGED <<faults, project, cps, milestones, funds, escrow, terms>>
    BY <1>3 DEF SaveDraft, saved
  <2>2. request[c] # Idle
    BY <1>3 DEF SaveDraft, Idle
  <2>3. QED
    BY <1>3, <2>1, <2>2, IdleCurrent, ReadStep, Unseen DEF SaveDraft, End
<1>4. ASSUME NEW provider \in Providers \cup {Nobody}, PrepareSave(c, provider)
      PROVE  Undisturbed' /\ Step
  <2> DEFINE old == request[c]
  <2> DEFINE r == [at |-> "saving", user |-> old.user,
                   new |-> old.state # "INITILIZED",
                   state |-> NextState(old.state), provider |-> provider,
                   editor |-> Other(old.user, provider)]
  <2>1. /\ UNCHANGED <<faults, project, cps, milestones, funds, escrow, terms>>
        /\ old.at = "editing" /\ old # Idle
    BY <1>4 DEF PrepareSave, data, saved, Idle
  <2>2. CASE End(c)
    BY <2>1, <2>2, IdleCurrent, ReadStep, Unseen DEF End
  <2>3. CASE MayName(provider) /\ Goto(c, r)
    <3>1. old.state \in Editable /\ project.state = old.state /\ project.editor = old.user
      BY <2>1, ReadType DEF Undisturbed, Current
    <3>2. Current(r, project, cps, milestones, funds, escrow, OwnIds)
      BY <2>3, <3>1 DEF Current, MayName
    <3>3. QED
      BY <2>1, <2>3, <3>2, ReadStep, Unseen
  <2>4. QED
    BY <1>4, <2>2, <2>3 DEF PrepareSave
<1>5. ASSUME NEW created \in SUBSET MilestoneIds, SaveProject(c, created)
      PROVE  Undisturbed' /\ Step
  <2> DEFINE r == request[c]
  <2>1. /\ r.at = "saving" /\ r # Idle
        /\ Goto(c, Idle)
        /\ UNCHANGED <<faults, escrow>>
    BY <1>5 DEF SaveProject, End, Idle
  <2>a. OwnIds => funds' = funds
    BY <1>5, FundsOwn
  <2>2. CASE ~Committed(r)
    <3>1. UNCHANGED <<faults, project, cps, milestones, funds, escrow, terms>>
      BY <1>5, <2>2 DEF SaveProject
    <3>2. QED
      BY <2>1, <3>1, IdleCurrent, ReadStep, Unseen
  <2>3. CASE Committed(r)
    <3>1. /\ project'.state = r.state
          /\ project'.editor = IF r.editor = Nobody THEN project.editor ELSE r.editor
          /\ cps' = IF r.provider = Nobody THEN cps ELSE Append(cps, r.provider)
          /\ terms' = terms + 1
      BY <1>5, <2>3 DEF SaveProject
    <3>2. /\ project.state \in Editable /\ r.user = project.editor
          /\ r.provider # Nobody => cps = <<>>
          /\ r.state \in {"NEW_PROJECT", "ADD_MILESTONES"}
      BY <2>1, ReadType DEF Undisturbed, Current
    <3>3. cps' = <<>> \/ Len(cps') = 1
      BY <2>1, <3>1, <3>2, ReadType, AppendProperties DEF Undisturbed, Books, TypeOK
    <3>4. Books(project', cps', milestones', funds', escrow', terms', OwnIds)
      BY <2>1, <2>a, <3>1, <3>2, <3>3 DEF Undisturbed, Books, Editable, TypeOK
    <3>5. Undisturbed'
      BY <2>1, <3>4, IdleCurrent, SerialStep
    <3>6. Sides(r, cps)
      BY <2>3 DEF FlowInv, Committed
    <3>7. IF project.editor = purchaser THEN project'.editor \in Providers
                                        ELSE project'.editor = purchaser
      BY <2>1, <3>1, <3>2, <3>6, MembersAreProviders DEF Sides
    <3>8. Stage = "open" /\ Stage' = "open"
      BY <3>1, <3>2 DEF Stage, Editable
    <3>9. A!Propose
      BY <3>1, <3>7, <3>8 DEF A!Propose
    <3>10. QED
      BY <3>5, <3>9 DEF Step, A!Next
  <2>4. QED
    BY <2>2, <2>3
<1>6. QED
  BY <1>1, <1>2, <1>3, <1>4, <1>5 DEF Editing

LEMMA AcceptingSerial ==
  ASSUME TypeOK, Undisturbed, FlowInv, Serial,
         NEW c \in Calls, Accepting(c)
  PROVE  Undisturbed' /\ Step
<1> USE ProjectFlowAssumption
<1>1. ASSUME NEW user \in Providers, AcceptProject(c, user)
      PROVE  Undisturbed' /\ Step
  <2>1. /\ project.state = "ADD_MILESTONES" /\ project.editor = user
        /\ project'.state = "ADD_ESCROW" /\ project'.editor = user
        /\ UNCHANGED <<faults, cps, milestones, funds, escrow, terms>>
    BY <1>1 DEF AcceptProject, data, TypeOK
  <2>2. (OwnIds => funds = {}) /\ ~escrow /\ terms > 0
    BY <2>1 DEF Undisturbed, Books, Editable
  <2>3. Current([at |-> "accepted"], project', cps', milestones', funds', escrow', OwnIds)
    BY <2>1, <2>2 DEF Current
  <2>4. Books(project', cps', milestones', funds', escrow', terms', OwnIds)
    BY <2>1, <2>2 DEF Undisturbed, Books, Editable
  <2>5. Undisturbed'
    BY <1>1, <2>3, <2>4, SerialStep DEF AcceptProject, Start
  <2>6. A!Accept
    BY <2>1, <2>2 DEF A!Accept, Stage, Editable
  <2>7. QED
    BY <2>5, <2>6 DEF Step, A!Next
<1>2. CASE GetMilestones(c)
  <2> DEFINE r == [at |-> "funding", milestones |-> milestones]
  <2>1. UNCHANGED <<faults, project, cps, milestones, funds, escrow, terms>>
    BY <1>2 DEF GetMilestones, data, saved
  <2>2. request[c].at = "accepted" /\ request[c] # Idle
    BY <1>2 DEF GetMilestones, Idle
  <2>3. Current(r, project, cps, milestones, funds, escrow, OwnIds)
    BY <2>2 DEF Undisturbed, Current
  <2>4. QED
    BY <1>2, <2>1, <2>2, <2>3, ReadStep, Unseen DEF GetMilestones
<1>3. CASE CreateFunds(c)
  <2>1. /\ UNCHANGED <<faults, project, cps, milestones, escrow, terms>>
        /\ request[c].at = "funding" /\ request[c] # Idle
    BY <1>3 DEF CreateFunds, saved, Idle
  <2>2. /\ project.state = "ADD_ESCROW" /\ ~escrow
        /\ OwnIds => funds = {} /\ request[c].milestones = milestones
    BY <2>1 DEF Undisturbed, Current
  <2>3. CASE End(c)
    <3>1. funds' = funds
      BY <1>3, <2>3, <2>1 DEF CreateFunds, End, Goto, Idle, TypeOK
    <3>2. QED
      BY <2>1, <2>3, <3>1, IdleCurrent, ReadStep, Unseen DEF End
  <2>4. CASE funds' = funds \cup request[c].milestones /\ Goto(c, [at |-> "escrow"])
    <3>1. OwnIds => funds' = milestones
      BY <2>2, <2>4
    <3>2. Current([at |-> "escrow"], project', cps', milestones', funds', escrow', OwnIds)
      BY <2>1, <2>2, <3>1 DEF Current
    <3>3. Books(project', cps', milestones', funds', escrow', terms', OwnIds)
      BY <2>1, <2>2, <3>1 DEF Undisturbed, Books, Editable
    <3>4. QED
      BY <2>1, <2>4, <3>2, <3>3, SerialStep, Unseen
  <2>5. QED
    BY <1>3, <2>3, <2>4 DEF CreateFunds
<1>4. CASE CreateEscrow(c)
  <2>1. /\ UNCHANGED <<faults, project, cps, milestones, funds, terms>>
        /\ request[c].at = "escrow" /\ request[c] # Idle
    BY <1>4 DEF CreateEscrow, saved, Idle
  <2>2. project.state = "ADD_ESCROW" /\ (OwnIds => funds = milestones) /\ ~escrow
    BY <2>1 DEF Undisturbed, Current
  <2>3. escrow' = TRUE /\ Goto(c, [at |-> "cleaning"])
    BY <1>4, <2>2 DEF CreateEscrow, Exists, Accepted
  <2>4. Current([at |-> "cleaning"], project', cps', milestones', funds', escrow', OwnIds)
    BY <2>1, <2>2 DEF Current
  <2>5. Books(project', cps', milestones', funds', escrow', terms', OwnIds)
    BY <2>1, <2>2 DEF Undisturbed, Books, Editable
  <2>6. QED
    BY <2>1, <2>3, <2>4, <2>5, SerialStep, Unseen
<1>5. CASE DeleteDrafts(c)
  <2>1. UNCHANGED <<faults, project, cps, milestones, funds, escrow, terms>>
    BY <1>5 DEF DeleteDrafts, saved
  <2>2. request[c] # Idle
    BY <1>5 DEF DeleteDrafts, Idle
  <2>3. QED
    BY <1>5, <2>1, <2>2, IdleCurrent, ReadStep, Unseen DEF DeleteDrafts, End
<1>6. QED
  BY <1>1, <1>2, <1>3, <1>4, <1>5 DEF Accepting

LEMMA EndingSerial ==
  ASSUME TypeOK, Undisturbed, Serial, NEW c \in Calls, Ending(c)
  PROVE  Undisturbed' /\ Step
<1>1. CASE RequestDeployment(c)
  <2>1. Current([at |-> "deploying"], project, cps, milestones, funds, escrow, OwnIds)
    BY <1>1 DEF RequestDeployment, Current
  <2>2. UNCHANGED <<faults, project, cps, milestones, funds, escrow, terms>>
    BY <1>1 DEF RequestDeployment, data, saved
  <2>3. QED
    BY <1>1, <2>1, <2>2, ReadStep, Unseen DEF RequestDeployment, Start
<1>2. CASE DeployContracts(c)
  <2>1. UNCHANGED <<faults, project, cps, milestones, funds, escrow, terms>>
    BY <1>2 DEF DeployContracts, data, saved
  <2>2. request[c].at = "deploying" /\ request[c] # Idle
    BY <1>2 DEF DeployContracts, Idle
  <2>3. CASE escrow /\ Goto(c, [at |-> "declaring"])
    <3>1. Current([at |-> "declaring"], project, cps, milestones, funds, escrow, OwnIds)
      BY <2>2, <2>3 DEF Undisturbed, Current
    <3>2. QED
      BY <2>1, <2>2, <2>3, <3>1, ReadStep, Unseen
  <2>4. CASE End(c)
    BY <2>1, <2>2, <2>4, IdleCurrent, ReadStep, Unseen DEF End
  <2>5. QED
    BY <1>2, <2>3, <2>4 DEF DeployContracts
<1>3. CASE DeclareDeployed(c)
  <2>1. /\ UNCHANGED <<faults, cps, milestones, funds, escrow, terms>>
        /\ request[c].at = "declaring" /\ request[c] # Idle /\ Goto(c, Idle)
    BY <1>3 DEF DeclareDeployed, data, saved, End, Idle
  <2>2. project.state = "ADD_ESCROW" /\ escrow /\ (OwnIds => funds = milestones)
    BY <2>1 DEF Undisturbed, Current, Books
  <2>3. project'.state = "CONTRACT_DEPLOYED" /\ project'.editor = project.editor
    BY <1>3, <2>2 DEF DeclareDeployed, Exists, Accepted, TypeOK
  <2>4. Books(project', cps', milestones', funds', escrow', terms', OwnIds)
    BY <2>1, <2>2, <2>3 DEF Undisturbed, Books, Editable
  <2>5. Undisturbed'
    BY <2>1, <2>4, IdleCurrent, SerialStep
  <2>6. A!Deploy
    BY <2>1, <2>2, <2>3 DEF A!Deploy, Stage, Editable
  <2>7. QED
    BY <2>5, <2>6 DEF Step, A!Next
<1>4. CASE RequestDeletion(c)
  <2>1. Current([at |-> "deleting"], project, cps, milestones, funds, escrow, OwnIds)
    BY <1>4 DEF RequestDeletion, Current, Exists, Accepted
  <2>2. UNCHANGED <<faults, project, cps, milestones, funds, escrow, terms>>
    BY <1>4 DEF RequestDeletion, data, saved
  <2>3. QED
    BY <1>4, <2>1, <2>2, ReadStep, Unseen DEF RequestDeletion, Start
<1>5. CASE DeleteProject(c)
  <2>1. /\ UNCHANGED <<faults, funds, terms>>
        /\ request[c].at = "deleting" /\ request[c] # Idle /\ Goto(c, Idle)
    BY <1>5 DEF DeleteProject, saved, End, Idle
  <2>2. CASE ~(Exists /\ funds = {})
    <3>1. UNCHANGED <<faults, project, cps, milestones, funds, escrow, terms>>
      BY <1>5, <2>1, <2>2 DEF DeleteProject
    <3>2. QED
      BY <2>1, <3>1, IdleCurrent, ReadStep, Unseen
  <2>3. CASE Exists /\ funds = {}
    <3>1. /\ project'.state = "deleted" /\ project'.editor = project.editor
          /\ cps' = <<>>
      BY <1>5, <2>3 DEF DeleteProject, TypeOK
    <3>2. project.state \in Editable \cup {"ADD_ESCROW"}
      BY <2>1 DEF Undisturbed, Current
    <3>3. Books(project', cps', milestones', funds', escrow', terms', OwnIds)
      BY <3>1 DEF Books, Editable
    <3>4. Undisturbed'
      BY <2>1, <3>3, IdleCurrent, SerialStep
    <3>5. A!Withdraw
      BY <2>1, <3>1, <3>2 DEF A!Withdraw, Stage, Editable
    <3>6. QED
      BY <3>4, <3>5 DEF Step, A!Next
  <2>4. QED
    BY <2>2, <2>3
<1>6. CASE Die(c)
  <2>1. UNCHANGED <<faults, project, cps, milestones, funds, escrow, terms>>
    BY <1>6 DEF Die, data, saved
  <2>2. QED
    BY <1>6, <2>1, IdleCurrent, ReadStep, Unseen DEF Die, End
<1>7. QED
  BY <1>1, <1>2, <1>3, <1>4, <1>5, <1>6 DEF Ending

\* What a milestone that is lost could disturb is not claimed then.
LEMMA LostSerial ==
  ASSUME TypeOK, Undisturbed, NEW m \in MilestoneIds, LoseMilestone(m)
  PROVE  Undisturbed'
<1>1. /\ UNCHANGED <<project, cps, escrow, request>> /\ terms' = terms + 1
      /\ ~OwnIds /\ ~OwnIds' /\ project.state # "none"
  BY DEF LoseMilestone, OwnIds, Exists, Editable, Accepted
<1>2. \A c \in Calls : Current(request'[c], project', cps', milestones', funds', escrow', FALSE)
  BY <1>1 DEF Undisturbed, Current
<1>3. Books(project', cps', milestones', funds', escrow', terms', FALSE)
  BY <1>1 DEF Undisturbed, Books, TypeOK
<1>4. \A c, d \in Calls : request'[c] # Idle /\ request'[d] # Idle => c = d
  BY <1>1 DEF Undisturbed
<1>5. OwnIds' = FALSE
  BY <1>1 DEF OwnIds
<1>6. /\ \A c \in Calls : Current(request'[c], project', cps', milestones', funds', escrow', OwnIds')
      /\ Books(project', cps', milestones', funds', escrow', terms', OwnIds')
  BY <1>2, <1>3, <1>5
<1>7. QED
  BY <1>4, <1>6 DEF Undisturbed

LEMMA NextSerial ==
  ASSUME TypeOK, FlowInv, UndisturbedInv, [Next]_vars
  PROVE  UndisturbedInv' /\ (Orderly => Step)
<1>1. faults' = faults
  BY DEF Next, Editing, Accepting, Ending, vars, CreateProject, GetProject, SaveDraft,
         PrepareSave, SaveProject, AcceptProject, GetMilestones, CreateFunds,
         CreateEscrow, DeleteDrafts, RequestDeployment, DeployContracts,
         DeclareDeployed, RequestDeletion, DeleteProject, Die, LoseMilestone
<1>2. CASE ~Serial
  BY <1>1, <1>2 DEF UndisturbedInv, Serial, Orderly
<1>3. CASE Serial
  <2>1. Undisturbed
    BY <1>3 DEF UndisturbedInv
  <2>2. ASSUME NEW c \in Calls, Editing(c) \/ Accepting(c) \/ Ending(c)
        PROVE  UndisturbedInv' /\ Step
    BY <1>3, <2>1, <2>2, EditingSerial, AcceptingSerial, EndingSerial DEF UndisturbedInv
  <2>3. ASSUME NEW m \in MilestoneIds, LoseMilestone(m)
        PROVE  UndisturbedInv' /\ ~Orderly
    BY <2>1, <2>3, LostSerial DEF UndisturbedInv, Orderly, LoseMilestone
  <2>4. CASE UNCHANGED vars
    BY <2>1, <2>4, Unseen DEF vars, data, saved, Undisturbed, UndisturbedInv, OwnIds
  <2>5. QED
    BY <2>2, <2>3, <2>4 DEF Next
<1>4. QED
  BY <1>2, <1>3

LEMMA InitSerial == Init => UndisturbedInv
<1> SUFFICES ASSUME Init PROVE Undisturbed
  BY DEF UndisturbedInv
<1>1. \A c \in Calls : request[c] = Idle
  BY DEF Init
<1>2. Books(project, cps, milestones, funds, escrow, terms, OwnIds)
  BY DEF Init, Books, Editable
<1>3. QED
  BY <1>1, <1>2, IdleCurrent DEF Undisturbed

\* A request that ends without a write is no step of the agreement.
LEMMA EndedSerial ==
  ASSUME TypeOK, UndisturbedInv, NEW c \in Calls, request[c].at # "idle", End(c),
         UNCHANGED <<faults, project, data, saved>>
  PROVE  UndisturbedInv' /\ Step
<1>1. request[c] # Idle
  BY DEF Idle
<1>2. QED
  BY <1>1, IdleCurrent, ReadStep, Unseen DEF End, UndisturbedInv, Serial, data, saved

\* Where requests do not overlap, what the running request read of the project is
\* still true when it writes, and the rows of funds and Escrow keep up with the
\* milestones (acceptProject, saveProject, addEscrow).
THEOREM SerialCorrect == Spec => []UndisturbedInv
<1>1. TypeOK /\ FlowInv /\ UndisturbedInv /\ [Next]_vars => UndisturbedInv'
  BY NextSerial
<1>2. QED
  BY <1>1, InitSerial, FlowCorrect, PTL DEF Spec

\* What that says of the rows.
LEMMA UndisturbedHas == UndisturbedInv => OneProvider /\ DeployedHasFunds
<1>1. UndisturbedInv => OneProvider
  <2> SUFFICES ASSUME Books(project, cps, milestones, funds, escrow, terms, OwnIds)
               PROVE  Len(cps) <= 1
    BY DEF UndisturbedInv, Undisturbed, OneProvider
  <2>1. Len(<<>>) = 0
    OBVIOUS
  <2>2. QED
    BY <2>1 DEF Books
<1>2. UndisturbedInv => DeployedHasFunds
  BY DEF UndisturbedInv, Undisturbed, Books, DeployedHasFunds, Orderly
<1>3. QED
  BY <1>1, <1>2

\* As long as requests do not overlap, whatever fails, a project has at most one
\* provider.
THEOREM OneProviderAlone == Spec => []OneProvider
  BY UndisturbedHas, SerialCorrect, PTL

\* As long as requests do not overlap and clients name only their own milestones,
\* whatever fails, a deployed project has Funds for each of its milestones.
THEOREM DeployedIsFunded == Spec => []DeployedHasFunds
  BY UndisturbedHas, SerialCorrect, PTL

\* As long as requests do not overlap and clients name only their own milestones,
\* whatever fails, the service implements Agreement.
THEOREM AgreementFollowed == Spec => FollowsAgreement
<1>1. Init => A!Init
  BY DEF Init, A!Init, Stage, Editable
<1>2. TypeOK /\ FlowInv /\ UndisturbedInv /\ [Next]_vars
        => [AgreementStep]_vars
  BY NextSerial DEF Step, AgreementStep
<1>3. QED
  BY <1>1, <1>2, FlowCorrect, SerialCorrect, PTL DEF Spec, FollowsAgreement

-----------------------------------------------------------------------------
\* Where no request dies, and no milestone is lost to or taken from another project,
\* what one of them accepted is on its way to its row of Escrow until the row is
\* there: of requests that overlap the first to create rows of Funds succeeds, and
\* goes on to the row.
OnItsWay(r) == r.at \in {"accepted", "funding"}

RowInv ==
  "death" \notin faults /\ OwnIds =>
    /\ project.state = "none" => funds = {}
    /\ Exists =>
         /\ \A c \in Calls : request[c].at = "funding" => request[c].milestones \subseteq milestones
         /\ \/ escrow
            \/ \E c \in Calls : request[c].at = "escrow"
            \/ /\ funds = {}
               /\ project.state = "ADD_ESCROW" => \E c \in Calls : OnItsWay(request[c])

\* Steps of requests that accepted nothing.
LEMMA RowKept ==
  ASSUME TypeOK, RowInv, NEW c \in Calls, NEW r, Goto(c, r),
         request[c].at \notin {"accepted", "funding", "escrow"}, r.at # "funding",
         faults' = faults, escrow' = escrow, OwnIds => funds' = funds, Exists' => Exists,
         project'.state = "none" => project.state = "none",
         project'.state = "ADD_ESCROW" => project.state = "ADD_ESCROW" \/ OnItsWay(r),
         Exists' => milestones \subseteq milestones'
  PROVE  RowInv'
<1>1. /\ request' = [request EXCEPT ![c] = r] /\ request'[c] = r
      /\ \A d \in Calls : d # c => request'[d] = request[d]
  BY DEF TypeOK, Goto
<1>2. SUFFICES ASSUME "death" \notin faults, OwnIds, Exists'
               PROVE  /\ \A d \in Calls : request'[d].at = "funding" =>
                                            request'[d].milestones \subseteq milestones'
                      /\ \/ escrow'
                         \/ \E d \in Calls : request'[d].at = "escrow"
                         \/ /\ funds' = {}
                            /\ project'.state = "ADD_ESCROW" =>
                                 \E d \in Calls : OnItsWay(request'[d])
  BY DEF RowInv, OwnIds
<1>3. \A d \in Calls : request'[d].at = "funding" => request'[d].milestones \subseteq milestones'
  BY <1>1, <1>2 DEF RowInv
<1>4. (\E d \in Calls : request[d].at = "escrow") => \E d \in Calls : request'[d].at = "escrow"
  BY <1>1
<1>5. (\E d \in Calls : OnItsWay(request[d])) => \E d \in Calls : OnItsWay(request'[d])
  BY <1>1 DEF OnItsWay
<1>6. OnItsWay(r) => \E d \in Calls : OnItsWay(request'[d])
  BY <1>1
<1>7. QED
  BY <1>2, <1>3, <1>4, <1>5, <1>6 DEF RowInv

LEMMA IdleAt == Idle.at = "idle"
  BY DEF Idle

\* Before there is a project no request is under way.
Fresh == project.state = "none" => AllIdle

LEMMA FreshStep ==
  ASSUME TypeOK, Fresh, [Next]_vars
  PROVE  Fresh'
<1>1. CASE project.state # "none"
  <2>1. project'.state # "none"
    <3>1. CASE UNCHANGED project
      BY <1>1, <3>1
    <3>2. ASSUME NEW c \in Calls, NEW created, SaveProject(c, created), Committed(request[c])
          PROVE  project'.state # "none"
      BY <3>2, ReadType DEF SaveProject
    <3>3. ASSUME NEW c \in Calls, NEW user, AcceptProject(c, user)
          PROVE  project'.state # "none"
      BY <3>3 DEF AcceptProject, TypeOK
    <3>4. ASSUME NEW c \in Calls, CreateProject(c) \/ DeclareDeployed(c) \/ DeleteProject(c)
          PROVE  project'.state # "none"
      BY <1>1, <3>4 DEF CreateProject, DeclareDeployed, DeleteProject, TypeOK
    <3>5. QED
      BY <3>1, <3>2, <3>3, <3>4
         DEF Next, vars, data, Editing, Accepting, Ending, CreateProject, GetProject,
             SaveDraft, PrepareSave, SaveProject, GetMilestones, CreateFunds,
             CreateEscrow, DeleteDrafts, RequestDeployment, DeployContracts,
             RequestDeletion, Die, LoseMilestone
  <2>2. QED
    BY <2>1 DEF Fresh
<1>2. CASE project.state = "none"
  <2>1. \A c \in Calls : request[c].at = "idle" /\ request[c] = Idle
    BY <1>2, IdleAt DEF Fresh, AllIdle
  <2>2. ASSUME NEW c \in Calls, CreateProject(c) PROVE project'.state # "none"
    BY <2>2 DEF CreateProject
  <2>3. CASE UNCHANGED vars
    BY <2>3 DEF Fresh, vars, AllIdle
  <2>4. QED
    BY <1>2, <2>1, <2>2, <2>3
       DEF Fresh, Next, Editing, Accepting, Ending, GetProject, SaveDraft, PrepareSave,
           SaveProject, AcceptProject, GetMilestones, CreateFunds, CreateEscrow,
           DeleteDrafts, RequestDeployment, DeployContracts, DeclareDeployed,
           RequestDeletion, DeleteProject, Die, LoseMilestone, Editable, Exists, Accepted
<1>3. QED
  BY <1>1, <1>2

LEMMA FreshEnded ==
  ASSUME Fresh, NEW c \in Calls, request[c].at # "idle", UNCHANGED project
  PROVE  Fresh'
  BY IdleAt DEF Fresh, AllIdle

LEMMA RowStep ==
  TypeOK /\ Fresh /\ RowInv /\ [Next]_vars => RowInv'
<1> SUFFICES ASSUME TypeOK, Fresh, RowInv, [Next]_vars PROVE RowInv'
  OBVIOUS
<1>1. CASE UNCHANGED vars
  BY <1>1 DEF RowInv, vars, data, saved, Exists, OwnIds
<1>2. ASSUME NEW c \in Calls, Editing(c) \/ Accepting(c) \/ Ending(c)
      PROVE  RowInv'
  <2>1. CASE CreateProject(c)
    <3>1. project.state = "none" /\ faults' = faults /\ AllIdle
      BY <2>1 DEF CreateProject, Fresh
    <3>2. \A d \in Calls : request'[d].at \in {"idle", "editing"}
      BY <2>1, <3>1, IdleAt DEF CreateProject, Goto, AllIdle, TypeOK
    <3>3. project'.state = "INITILIZED" /\ funds' = funds
      BY <2>1 DEF CreateProject, data
    <3>4. QED
      BY <3>1, <3>2, <3>3 DEF RowInv, OwnIds
  <2>2. CASE GetProject(c)
    <3>1. request[c].at = "idle" /\ UNCHANGED <<faults, project, milestones, funds, escrow>>
      BY <2>2, IdleAt DEF GetProject, Start, data
    <3>2. PICK r : r.at = "editing" /\ Goto(c, r)
      BY <2>2 DEF GetProject
    <3>3. QED
      BY <3>1, <3>2, RowKept DEF Exists
  <2>3. CASE SaveDraft(c)
    BY <2>3, IdleAt, RowKept DEF SaveDraft, End, Exists
  <2>4. ASSUME NEW provider \in Providers \cup {Nobody}, PrepareSave(c, provider)
        PROVE  RowInv'
    <3>1. /\ request[c].at = "editing"
          /\ UNCHANGED <<faults, project, milestones, funds, escrow>>
      BY <2>4 DEF PrepareSave, data
    <3>2. PICK r : r.at \in {"saving", "idle"} /\ Goto(c, r)
      BY <2>4, IdleAt DEF PrepareSave, End
    <3>3. QED
      BY <3>1, <3>2, RowKept DEF Exists
  <2>5. ASSUME NEW created \in SUBSET MilestoneIds, SaveProject(c, created)
        PROVE  RowInv'
    <3>1. /\ request[c].at = "saving" /\ UNCHANGED <<faults, escrow>> /\ Goto(c, Idle)
          /\ OwnIds => funds' = funds
      BY <2>5, FundsOwn DEF SaveProject, End
    <3>2. milestones \subseteq milestones'
      BY <2>5 DEF SaveProject
    <3>3. /\ Exists' => Exists
          /\ project'.state = "none" => project.state = "none"
          /\ project'.state = "ADD_ESCROW" => project.state = "ADD_ESCROW"
      <4>1. request[c].state \in {"NEW_PROJECT", "ADD_MILESTONES"}
        BY <3>1, ReadType
      <4>2. CASE Committed(request[c])
        BY <2>5, <4>1, <4>2 DEF SaveProject, Committed
      <4>3. CASE ~Committed(request[c])
        BY <2>5, <4>3 DEF SaveProject, Exists
      <4>4. QED
        BY <4>2, <4>3
    <3>4. QED
      BY <3>1, <3>2, <3>3, IdleAt, RowKept
  <2>6. ASSUME NEW user \in Providers, AcceptProject(c, user)
        PROVE  RowInv'
    <3>1. request[c].at = "idle" /\ UNCHANGED <<faults, milestones, funds, escrow>>
      BY <2>6, IdleAt DEF AcceptProject, Start, data
    <3>2. PICK r : r.at = "accepted" /\ Goto(c, r)
      BY <2>6 DEF AcceptProject
    <3>3. project.state = "ADD_MILESTONES" /\ project'.state = "ADD_ESCROW"
      BY <2>6 DEF AcceptProject, TypeOK
    <3>4. QED
      BY <3>1, <3>2, <3>3, RowKept DEF Exists, Editable, OnItsWay
  <2>7. CASE GetMilestones(c)
    <3>1. /\ request[c].at = "accepted"
          /\ UNCHANGED <<faults, project, milestones, funds, escrow>>
      BY <2>7 DEF GetMilestones, data
    <3>2. /\ request'[c] = [at |-> "funding", milestones |-> milestones]
          /\ \A d \in Calls : d # c => request'[d] = request[d]
      BY <2>7 DEF GetMilestones, Goto, TypeOK
    <3>3. /\ (\E d \in Calls : request[d].at = "escrow") => \E d \in Calls : request'[d].at = "escrow"
          /\ \E d \in Calls : OnItsWay(request'[d])
      BY <3>1, <3>2 DEF OnItsWay
    <3>4. QED
      BY <3>1, <3>2, <3>3 DEF RowInv, Exists, OwnIds
  <2>8. CASE CreateFunds(c)
    <3> DEFINE r == request[c]
    <3>1. r.at = "funding" /\ UNCHANGED <<faults, project, milestones, escrow>>
      BY <2>8 DEF CreateFunds
    <3>2. \A d \in Calls : d # c => request'[d] = request[d]
      BY <2>8 DEF CreateFunds, End, Goto, TypeOK
    <3>3. request'[c].at \in {"idle", "escrow"}
      BY <2>8, IdleAt DEF CreateFunds, End, Goto, TypeOK
    <3>4. SUFFICES ASSUME "death" \notin faults, OwnIds, Exists
                   PROVE  escrow' \/ \E d \in Calls : request'[d].at = "escrow"
      <4>1. project.state # "none"
        BY <3>1, IdleAt DEF Fresh, AllIdle
      <4>2. QED
        BY <3>1, <3>2, <3>3, <3>4, <4>1 DEF RowInv, Exists, OwnIds
    <3>5. CASE escrow \/ \E d \in Calls : request[d].at = "escrow"
      BY <3>1, <3>2, <3>5
    <3>6. CASE funds = {}
      <4>1. r.milestones \subseteq milestones \ funds
        BY <3>1, <3>4, <3>6 DEF RowInv
      <4>2. request'[c].at = "escrow"
        BY <2>8, <4>1 DEF CreateFunds, Goto, TypeOK
      <4>3. QED
        BY <4>2
    <3>7. QED
      BY <3>4, <3>5, <3>6 DEF RowInv, OwnIds
  <2>9. CASE CreateEscrow(c)
    <3>1. /\ request[c].at = "escrow" /\ UNCHANGED <<faults, project, milestones, funds>>
          /\ Exists => escrow'
      BY <2>9 DEF CreateEscrow
    <3>2. /\ request'[c].at # "funding"
          /\ \A d \in Calls : d # c => request'[d] = request[d]
      BY <2>9, IdleAt DEF CreateEscrow, End, Goto, TypeOK
    <3>3. QED
      BY <3>1, <3>2 DEF RowInv, Exists, OwnIds
  <2>10. CASE DeleteDrafts(c)
    BY <2>10, IdleAt, RowKept DEF DeleteDrafts, End, Exists
  <2>11. CASE RequestDeployment(c) \/ RequestDeletion(c)
    <3>1. request[c].at = "idle" /\ UNCHANGED <<faults, project, milestones, funds, escrow>>
      BY <2>11, IdleAt DEF RequestDeployment, RequestDeletion, Start, data
    <3>2. PICK r : r.at \in {"deploying", "deleting"} /\ Goto(c, r)
      BY <2>11 DEF RequestDeployment, RequestDeletion
    <3>3. QED
      BY <3>1, <3>2, RowKept DEF Exists
  <2>12. CASE DeployContracts(c)
    <3>1. request[c].at = "deploying" /\ UNCHANGED <<faults, project, milestones, funds, escrow>>
      BY <2>12 DEF DeployContracts, data
    <3>2. PICK r : r.at \in {"declaring", "idle"} /\ Goto(c, r)
      BY <2>12, IdleAt DEF DeployContracts, End
    <3>3. QED
      BY <3>1, <3>2, RowKept DEF Exists
  <2>13. CASE DeclareDeployed(c)
    <3>1. /\ request[c].at = "declaring" /\ UNCHANGED <<faults, milestones, funds, escrow>>
          /\ Goto(c, Idle)
      BY <2>13 DEF DeclareDeployed, End, data
    <3>2. /\ Exists' => Exists
          /\ project'.state = "none" => project.state = "none"
          /\ project'.state = "ADD_ESCROW" => project.state = "ADD_ESCROW"
      <4>1. CASE Exists
        BY <2>13, <4>1 DEF DeclareDeployed, TypeOK
      <4>2. CASE ~Exists
        BY <2>13, <4>2 DEF DeclareDeployed, Exists
      <4>3. QED
        BY <4>1, <4>2
    <3>3. QED
      BY <3>1, <3>2, IdleAt, RowKept
  <2>14. CASE DeleteProject(c)
    <3>1. CASE Exists /\ funds = {}
      <4>1. project'.state = "deleted"
        BY <2>14, <3>1 DEF DeleteProject, TypeOK
      <4>2. ~Exists' /\ project'.state # "none"
        BY <4>1 DEF Exists, Editable, Accepted
      <4>3. QED
        BY <4>2 DEF RowInv
    <3>2. CASE ~(Exists /\ funds = {})
      BY <2>14, <3>2, IdleAt, RowKept DEF DeleteProject, End, Exists
    <3>3. QED
      BY <3>1, <3>2
  <2>15. CASE Die(c)
    BY <2>15 DEF Die, RowInv
  <2>16. QED
    BY <1>2, <2>1, <2>2, <2>3, <2>4, <2>5, <2>6, <2>7, <2>8, <2>9, <2>10, <2>11, <2>12,
       <2>13, <2>14, <2>15 DEF Editing, Accepting, Ending
<1>3. ASSUME NEW m \in MilestoneIds, LoseMilestone(m) PROVE RowInv'
  BY <1>3 DEF LoseMilestone, RowInv, OwnIds
<1>4. QED
  BY <1>1, <1>2, <1>3 DEF Next

LEMMA RowInit == Init => RowInv
  BY DEF Init, RowInv, Exists, Editable, Accepted

\* A request that ends without a write, unless it accepted the project.
LEMMA RowEnded ==
  ASSUME TypeOK, RowInv, NEW c \in Calls, End(c),
         request[c].at \notin {"accepted", "funding", "escrow"},
         UNCHANGED <<faults, project, data, saved>>
  PROVE  RowInv'
  BY IdleAt, RowKept DEF End, data, Exists

LEMMA RowHas == RowInv => AcceptedHasRow
<1> SUFFICES ASSUME RowInv, "death" \notin faults, OwnIds, project.state = "ADD_ESCROW", AllIdle
             PROVE  escrow
  BY DEF AcceptedHasRow
<1>1. \A c \in Calls : request[c].at = "idle"
  BY IdleAt DEF AllIdle
<1>2. QED
  BY <1>1 DEF RowInv, Exists, Accepted, OnItsWay

\* However requests overlap, a project that waits for its contracts has the row
\* of Escrow that addEscrow needs once no request is under way, unless one died on
\* the way or milestones were taken from another project (acceptProject, addEscrow).
THEOREM AcceptedHasItsRow == Spec => []AcceptedHasRow
<1>1. FlowInv => Fresh
  BY DEF FlowInv, Fresh
<1>2. QED
  BY <1>1, RowInit, RowStep, RowHas, FlowCorrect, PTL DEF Spec
=============================================================================
