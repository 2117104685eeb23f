------------------------- MODULE MCEscrowDeployment -------------------------
(***************************************************************************)
(* A small instance of EscrowDeployment: three milestones in two batches,  *)
(* up to two requests, from nothing that fails to everything that can.     *)
(***************************************************************************)
EXTENDS EscrowDeployment

CONSTANTS c1, c2
TwoCalls == {c1, c2}
RejectedOnly == {{"rejected"}}
CalmToStormy == {{}, {"rejected"}, {"rejected", "lost", "crash"}}
=============================================================================
