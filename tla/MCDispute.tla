------------------------------ MODULE MCDispute ------------------------------
(***************************************************************************)
(* A small instance of Dispute.                                            *)
(***************************************************************************)
EXTENDS Dispute, TLC

CONSTANTS c1, c2
TwoCalls == {c1, c2}
AnyCall == Permutations(TwoCalls)
=============================================================================
