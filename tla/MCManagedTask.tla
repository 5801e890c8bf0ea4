---------------------------- MODULE MCManagedTask ----------------------------
(* Model-checking instances of ManagedTask.                                  *)
EXTENDS ManagedTask, TLC

CONSTANTS t1, t2

OneTask == {t1}
TwoTasks == {t1, t2}
NoOverlap == {}
BothOverlap == {<<t1, t2>>, <<t2, t1>>}
Symmetric == Permutations(TwoTasks)
==============================================================================
