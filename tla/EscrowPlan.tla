----------------------------- MODULE EscrowPlan -----------------------------
(***************************************************************************)
(* What the parties agreed on before the contracts are deployed: the       *)
(* milestones of the project with their amounts, dates, revisions,         *)
(* penalties and royalties.  It is the data that addEscrow (milestones and *)
(* royalties) and the provider (sub-milestones) write to the contracts.    *)
(***************************************************************************)
EXTENDS Integers, Sequences, FiniteSets

CONSTANTS
  Milestones, SubMilestones,   \* the ids the parties can use
  Parent,           \* the milestone a sub-milestone belongs to
  fundAllocated,    \* amount of each milestone and sub-milestone
  noOfRevision,     \* reworks each of them allows
  startDate,
  plannedEndDate,   \* the end date it is added with
  penalties,        \* sequence of [duration, penaltyValue] for each of them
  royaltyAmount,    \* royalty of each milestone
  royaltyType,      \* PRE_PAYMENT or POST_KPI
  UINT32_MAX        \* largest date; 2^32 - 1 in the contracts

Items == Milestones \cup SubMilestones
Dates == 0 .. UINT32_MAX

ASSUME PlanAssumption ==
  /\ Milestones \cap SubMilestones = {}
  /\ IsFiniteSet(Items)
  /\ Parent \in [SubMilestones -> Milestones]
  /\ UINT32_MAX \in Nat
  /\ fundAllocated \in [Items -> Nat]
  /\ noOfRevision \in [Items -> Nat]
  /\ startDate \in [Items -> Dates]
  /\ plannedEndDate \in [Items -> Dates]
  /\ \A i \in Items :
       penalties[i] \in Seq([duration : Dates, penaltyValue : Nat])
  /\ royaltyAmount \in [Milestones -> Nat]
  /\ royaltyType \in [Milestones -> {"PRE_PAYMENT", "POST_KPI"}]
=============================================================================
