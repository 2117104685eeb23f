-------------------------- MODULE MCMilestoneMirror --------------------------
(***************************************************************************)
(* Small instances of MilestoneMirror.                                     *)
(***************************************************************************)
EXTENDS MilestoneMirror, TLC

CONSTANTS m1, m2, s1, c1, c2

TwoMilestones == {m1, m2}
OneSubMilestone == {s1}
ParentOf == (s1 :> m1)
TwoCalls == {c1, c2}
OneRevision == [i \in {m1, m2, s1} |-> 1]
TwoRevisions == [i \in {m1, m2, s1} |-> 2]
Prices == (m1 :> 10 @@ m2 :> 20 @@ s1 :> 5)
OffByOne == {-1, 0, 1}
MinusTwo == -2

Scenario(mode, items, start, complete, limit) ==
  [mode |-> mode, items |-> items, start |-> start, limit |-> limit,
   foreign |-> FALSE, whole |-> TRUE,
   fundingType |-> IF complete THEN "PROJECT" ELSE "MILESTONE",
   fundTransferType |-> IF complete THEN "PROJECT_COMPLETE" ELSE "MILESTONE_COMPLETE"]

AllModes ==
  {Scenario("orderly", {m1, m2, s1}, "INIT", FALSE, 0),
   Scenario("orderly", {m1, m2}, "INIT", TRUE, 0),
   [Scenario("orderly", {m1, m2}, "INIT", FALSE, 0) EXCEPT !.whole = FALSE],
   Scenario("serial", {m1, m2}, "INIT", FALSE, 2),
   Scenario("serial", {m1, s1}, "IN_REVIEW", TRUE, 3),
   [Scenario("serial", {m1}, "INIT", FALSE, 0) EXCEPT !.foreign = TRUE],
   Scenario("overlap", {m1}, "INIT", FALSE, 1),
   Scenario("overlap", {m1}, "IN_REVIEW", FALSE, 3)}
OneOrderly == {Scenario("orderly", {m1, m2}, "IN_REVIEW", TRUE, 0)}

AnyCall == Permutations(TwoCalls)
=============================================================================
