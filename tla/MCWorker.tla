------------------------------ MODULE MCWorker ------------------------------
(***************************************************************************)
(* Instances of Worker for TLC: the processes and the permits are model    *)
(* values, interchangeable in the safety runs.                             *)
(***************************************************************************)
EXTENDS Worker, TLC

CONSTANTS w1, w2, s1, s2

OneWorker  == {w1}
TwoWorkers == {w1, w2}
OnePermit  == {s1}
TwoPermits == {s1, s2}

\* Sound in the runs without temporal properties.
Symmetry == Permutations(Workers) \cup Permutations(Slots)
=============================================================================
