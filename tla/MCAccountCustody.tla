-------------------------- MODULE MCAccountCustody --------------------------
(* Model values of the AccountCustody runs.                                 *)
EXTENDS AccountCustody, TLC

RunSymmetry == Permutations(Runs)
=============================================================================
