----------------------------- MODULE MCDelegation -----------------------------
(***************************************************************************)
(* A small instance of Delegation.                                         *)
(***************************************************************************)
EXTENDS Delegation, TLC
CONSTANTS c1, c2, p1, p2, m1, m2, s1, s2
TwoCalls == {c1, c2}
TwoProviders == {p1, p2}
TwoMilestones == {m1, m2}
TwoSubMilestones == {s1, s2}
OwnFaults == SUBSET {"overlap", "death"}
AnyFaults == OwnFaults \cup {{"anyId"}}
FewGrantees == {{p1}, {p2}, {purchaser}}
AgreedOrDeployed == {"ADD_MILESTONES", "CONTRACT_DEPLOYED"}
\* The life of the project without the requests of Delegation; with all of them,
\* careful ones where nothing fails, and any where requests die; with members who
\* come and go, and are granted something, while requests overlap; and with
\* sub-milestones under any id.
SomeScenarios ==
  {<<f, {}>> : f \in OwnFaults}
  \cup {<<{}, {"staff", "grant", "split", "work"}>>}
  \cup {<<{"death"}, {"staff", "grant", "work"}>>}
  \cup {<<{"death"}, {"split", "badItem", "resave", "work"}>>}
  \cup {<<{"overlap", "death"}, {"staff"}>>, <<{"overlap"}, {"staff", "grant"}>>}
  \cup {<<{"anyId"}, {"split"}>>}
\* All sub-milestones, but not the other members.
OneUpdate ==
  {[IndividualPermission EXCEPT !.SubMilestoneShowAll = TRUE, !.Members = FALSE]}
Alike == Permutations(TwoCalls) \cup Permutations(TwoProviders)
           \cup Permutations(TwoSubMilestones)
=============================================================================
