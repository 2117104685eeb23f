------------------------------ MODULE MCEscrow ------------------------------
(***************************************************************************)
(* Small instances of EscrowContract.  Amounts are multiples of ten with   *)
(* one odd five, so that a fee of ten percent truncates; dates are single  *)
(* digits.                                                                 *)
(***************************************************************************)
EXTENDS EscrowContract

Parties == {"purchaser", "provider", "ip", "mo"}
WithoutIp == {"purchaser", "provider", "mo"}

\* Two milestones without sub-milestones.
TwoMilestones == {"m1", "m2"}
NoSubMilestones == {}
NoParent == [s \in {} |-> "m1"]
TwoFunds == [i \in Items |-> CASE i = "m1" -> 10
                               [] i = "m2" -> 15
                               [] OTHER -> 6]
OneRevision == [i \in Items |-> 1]
NoRevision == [i \in Items |-> 0]
Starts == [i \in Items |-> 0]
Ends == [i \in Items |-> 1]
NoPenalty == [i \in Items |-> << >>]
TwoRoyalties == [i \in {"m1", "m2"} |-> 10]
MixedRoyalty == [i \in {"m1", "m2"} |-> IF i = "m1" THEN "PRE_PAYMENT"
                                                    ELSE "POST_KPI"]

\* Two milestones, the first with two sub-milestones: deadlines, revisions and
\* penalties.
TwoSubMilestones == {"s1", "s2"}
OfM1 == [s \in SubMilestones |-> "m1"]

\* One sub-milestone, where the token refuses transfers.
OneSubMilestone == {"s1"}
SplitFunds == [i \in Items |-> CASE i = "m1" -> 27
                                 [] i = "m2" -> 10
                                 [] OTHER -> 9]
OneRevisionOfM1 == [i \in Items |-> IF i \in {"m1", "s1"} THEN 1 ELSE 0]
SplitPenalties ==
  [i \in Items |->
     CASE i = "m1" -> <<[duration |-> 1, penaltyValue |-> 5]>>
       [] i = "s1" -> <<[duration |-> 0, penaltyValue |-> 2],
                        [duration |-> 1, penaltyValue |-> 4]>>
       [] OTHER -> << >>]

AllStates == milestoneContract!MilestoneStatus
ShortCut == {"IN_PROGRESS", "COMPLETED", "FORCE_CLOSED"}
WorkStates == {"IN_PROGRESS", "IN_REVIEW", "REWORK", "COMPLETED"}
=============================================================================
