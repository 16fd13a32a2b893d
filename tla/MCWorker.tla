------------------------------- MODULE MCWorker -------------------------------
(***************************************************************************)
(* Three jobs on a queue with room for one. The safety run takes any of    *)
(* the jobs, workers and cancelers for any other; in the liveness run one  *)
(* job may never return.                                                   *)
(***************************************************************************)
EXTENDS Worker, TLC
CONSTANTS j1, j2, j3, w1, w2, c1, c2
MCJobs == {j1, j2, j3}
MCWorkers == {w1, w2}
MCCancelers == {c1, c2}
MCSymmetry == Permutations(MCJobs) \cup Permutations(MCWorkers) \cup Permutations(MCCancelers)
=============================================================================
