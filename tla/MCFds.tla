------------------------------- MODULE MCFds --------------------------------
(* Instances of Fds for TLC.                                               *)
EXTENDS Fds, TLC

CONSTANTS t1, t2, k1

TwoThreads == {t1, t2}
Swap == Permutations(TwoThreads)
=============================================================================
