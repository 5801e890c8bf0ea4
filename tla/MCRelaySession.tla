---------------------------- MODULE MCRelaySession ----------------------------
(* Instances of RelaySession for TLC.                                        *)
EXTENDS RelaySession, TLC

Symmetry == Permutations(Procs)
=============================================================================
