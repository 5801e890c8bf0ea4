---------------------------- MODULE MCCommandJobs ----------------------------
EXTENDS CommandJobs, TLC

Symmetry == Permutations(Commands)
=============================================================================
