---------------------------- MODULE JobLifecycle ----------------------------
(***************************************************************************)
(* What task-2-background-jobs promises of one job, without workers,       *)
(* heartbeats or requests: the state machine of its README, section 2, with*)
(* the transitions of the code.  A job is submitted once, is started while *)
(* it has budget, and each start ends exactly once: in success, which      *)
(* stores the result, or in one charged failure.  Only a dead job is reset,*)
(* and a succeeded one stays so.                                           *)
(***************************************************************************)
EXTENDS Integers

CONSTANTS Jobs, Budgets, Results, NoOutput

VARIABLES phase, spent, budget, result
lifecycleVars == <<phase, spent, budget, result>>

Init ==
    /\ phase = [j \in Jobs |-> "absent"]
    /\ spent = [j \in Jobs |-> 0]
    /\ budget = [j \in Jobs |-> 0]
    /\ result = [j \in Jobs |-> NoOutput]

Submit(j) ==
    /\ phase[j] = "absent"
    /\ phase' = [phase EXCEPT ![j] = "pending"]
    /\ \E b \in Budgets : budget' = [budget EXCEPT ![j] = b]
    /\ UNCHANGED <<spent, result>>

Begin(j) ==
    /\ phase[j] \in {"pending", "failed"} /\ spent[j] < budget[j]
    /\ phase' = [phase EXCEPT ![j] = "processing"]
    /\ UNCHANGED <<spent, budget, result>>

Succeed(j) ==
    /\ phase[j] = "processing"
    /\ phase' = [phase EXCEPT ![j] = "succeeded"]
    /\ result[j] = NoOutput
    /\ \E r \in Results : result' = [result EXCEPT ![j] = r]
    /\ UNCHANGED <<spent, budget>>

\* One sweep may charge several jobs at once.
Charge(S) ==
    /\ S # {} /\ \A j \in S : phase[j] = "processing"
    /\ spent' = [j \in Jobs |-> IF j \in S THEN spent[j] + 1 ELSE spent[j]]
    /\ phase' = [j \in Jobs |-> IF j \notin S THEN phase[j]
                                ELSE IF spent'[j] < budget[j] THEN "failed" ELSE "dead"]
    /\ UNCHANGED <<budget, result>>

Reset(j) ==
    /\ phase[j] = "dead"
    /\ phase' = [phase EXCEPT ![j] = "pending"]
    /\ spent' = [spent EXCEPT ![j] = 0]
    /\ UNCHANGED <<budget, result>>

Next ==
    \/ \E j \in Jobs : Submit(j) \/ Begin(j) \/ Succeed(j) \/ Reset(j)
    \/ \E S \in SUBSET Jobs : Charge(S)

Spec == Init /\ [][Next]_lifecycleVars
=============================================================================
