---------------------------- MODULE FaultBudget ----------------------------
(***************************************************************************)
(* The disturbances an environment may cause, and how many of them.  A     *)
(* run names the kinds it allows:                                          *)
(*   "kill"       a worker process dies at any point (crash, SIGKILL)      *)
(*   "stop"       a worker process gets SIGINT or SIGTERM                  *)
(*   "dbError"    a statement fails and is not committed                   *)
(*   "lostReply"  a statement commits, its caller gets an error            *)
(*   "stall"      the claim of a live worker ages past the stuck timeout   *)
(*                (its heartbeats do not reach the database in time)       *)
(* MaxFaults bounds their number: the code counts none of them.            *)
(***************************************************************************)
EXTENDS Integers

CONSTANTS Faults, MaxFaults

FaultKinds == {"kill", "stop", "dbError", "lostReply", "stall"}
ASSUME FaultsAssumption == Faults \subseteq FaultKinds /\ MaxFaults \in Nat

VARIABLE faults   \* how many disturbances are left

Fault(kind) == kind \in Faults /\ faults > 0 /\ faults' = faults - 1
=============================================================================
