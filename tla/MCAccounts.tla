----------------------------- MODULE MCAccounts -----------------------------
(***************************************************************************)
(* A small instance of Accounts.                                           *)
(***************************************************************************)
EXTENDS Accounts, TLC

CONSTANTS c1, c2, old, new
TwoCalls == {c1, c2}
TwoPasswords == {old, new}
OneFault == {{}, {"overlap"}, {"death"}}
Alike == Permutations(TwoCalls) \cup Permutations(TwoPasswords)
=============================================================================
