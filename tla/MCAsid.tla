------------------------------- MODULE MCAsid -------------------------------
(* Five user tasks.                                                        *)
EXTENDS Asid, TLC

CONSTANTS t1, t2, t3, t4, t5

MCTasks == {t1, t2, t3, t4, t5}
MCSymmetry == Permutations(MCTasks)
=============================================================================
