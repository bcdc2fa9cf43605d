---------------------------- MODULE MCJobSystem ----------------------------
(***************************************************************************)
(* JobSystem for TLC.  j1 is a job whose handler looks for a stored output *)
(* first, j2 one whose handler does not; each cfg picks its jobs, workers, *)
(* requests and disturbances.                                              *)
(***************************************************************************)
EXTENDS JobSystem, TLC

CONSTANTS j1, j2, w1, w2, e1, e2, r1, r2

OneJob   == {j1}
PlainJob == {j2}
TwoJobs  == {j1, j2}
CachedJob == {j1}

OneWorker  == {w1}
TwoWorkers == {w1, w2}

OneEnqueue   == {e1}
TwoEnqueues  == {e1, e2}
OneRetry     == {r1}
TwoRetries   == {r1, r2}

OneOrTwo == {1, 2}

TimelyFaults == {"kill", "stop", "dbError"}
Stalls       == {"stall"}
EveryFault   == FaultKinds

WorkerSymmetry == Permutations(TwoWorkers)
=============================================================================
