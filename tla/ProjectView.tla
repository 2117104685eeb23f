----------------------------- MODULE ProjectView -----------------------------
(***************************************************************************)
(* What ProjectsService shows of a project to one of its members, as       *)
(* functions of the rows: the page of the project (getProject), the        *)
(* milestones one may chat about (getAllowedChat) and the members one may  *)
(* write notes to (getNotes).  Each of the three filters in code of its    *)
(* own.                                                                    *)
(*                                                                         *)
(* cps is the sequence of members of kind CP, ips the set of those of kind *)
(* IP, p the row of Permissions of member u, subs the sub-milestones.      *)
(***************************************************************************)
EXTENDS Naturals, Sequences

\* Table Permissions, of its columns those that decide which rows are shown.
Permission ==
  [MilestonesShowAll : BOOLEAN, SubMilestoneShowAll : BOOLEAN, Members : BOOLEAN]

\* What createProject and saveProjectTransaction give purchaser and CP, ...
PurchaserPermission ==
  [MilestonesShowAll |-> TRUE, SubMilestoneShowAll |-> FALSE, Members |-> TRUE]
ProviderPermission ==
  [MilestonesShowAll |-> TRUE, SubMilestoneShowAll |-> TRUE, Members |-> TRUE]

FaultyIndividualPermission == ProviderPermission \* faulty: columns left out

\* ... and what an individual provider starts with (createProjectProvider).
IndividualPermission ==
  [MilestonesShowAll |-> FALSE, SubMilestoneShowAll |-> FALSE, Members |-> TRUE]

WorkOf(u, subs) == {s \in DOMAIN subs : subs[s].AssignedTo = u}

\* filterProjectMetadata; where both are shown, sub-milestones are nested in
\* their milestones.
MilestonesShown(p, u, milestones, subs) ==
  CASE ~p.MilestonesShowAll /\ p.SubMilestoneShowAll -> DOMAIN subs
    [] p.MilestonesShowAll /\ ~p.SubMilestoneShowAll -> milestones
    [] ~p.MilestonesShowAll /\ ~p.SubMilestoneShowAll -> WorkOf(u, subs)
    [] OTHER -> milestones \cup DOMAIN subs

FaultyChatMilestones(p, u, milestones, subs) == \* faulty: the flags are swapped
  IF p.MilestonesShowAll THEN milestones
  ELSE IF p.SubMilestoneShowAll THEN WorkOf(u, subs)
  ELSE DOMAIN subs

\* getAllowedChat, in which nothing is nested.
ChatMilestones(p, u, milestones, subs) ==
  IF p.MilestonesShowAll THEN milestones
  ELSE IF p.SubMilestoneShowAll THEN DOMAIN subs
  ELSE WorkOf(u, subs)

\* The providers filterProjectMetadata leaves on the page: of the CPs the last
\* one read, of the individual providers those u may see.
ProvidersShown(p, u, purchaser, cps, ips, visible) ==
  (IF cps = <<>> THEN {} ELSE {cps[Len(cps)]})
    \cup {i \in ips : IF u = purchaser THEN visible ELSE p.Members \/ i = u}

\* The members getNotes offers.  Who finds no other CP is taken to be the CP.
NotePartners(p, u, purchaser, cps, ips, visible) ==
  LET CPs == {cps[i] : i \in DOMAIN cps} \ {u} IN
  CASE u = purchaser -> CPs \cup (IF visible THEN ips ELSE {})
    [] u # purchaser /\ CPs # {} -> CPs \cup (IF p.Members THEN ips \ {u} ELSE {})
    [] OTHER -> {purchaser} \cup (ips \ {u})
=============================================================================
