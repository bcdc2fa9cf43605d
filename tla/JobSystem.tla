----------------------------- MODULE JobSystem -----------------------------
(***************************************************************************)
(* task-2-background-jobs as deployed: the tables, the worker processes    *)
(* and the API processes on them, and the passage of time.                 *)
(***************************************************************************)
EXTENDS JobWorker, JobApi

vars == <<tableVars, workerVars, req, faults>>

Init == TableInit /\ WorkerInit /\ ApiInit /\ faults = MaxFaults

\* A claim ages when nobody attends to it.  A live process heartbeats the row
\* every heartbeatIntervalMs, which the configuration keeps under the stuck
\* timeout: the claim it holds ages only if the process is stalled.
Ages(j) ==
    /\ BeatAges(j)
    /\ IF Attended(j) THEN Fault("stall") ELSE UNCHANGED faults
    /\ UNCHANGED <<workerVars, req>>

DueNow(j) == RunAtArrives(j) /\ UNCHANGED <<workerVars, req, faults>>

Next ==
    \/ \E w \in Workers : WorkerNext(w) /\ UNCHANGED req
    \/ ApiNext /\ UNCHANGED workerVars
    \/ \E j \in Jobs : Ages(j) \/ DueNow(j)

Spec == Init /\ [][Next]_vars

\* Every process is restarted, every loop and every execution goes on, a sweep
\* takes the longest-stuck rows first and so reaches each of them, and time
\* passes.  Nothing is assumed of clients, signals, errors and crashes.
SweepReaches(w, j) ==
    /\ proc[w] = "up"
    /\ \E S \in SUBSET Jobs : j \in S /\ SweepRows(S)
    /\ UNCHANGED <<workerVars, req, faults>>

Fairness ==
    /\ \A w \in Workers :
         /\ WF_vars(Start(w) /\ UNCHANGED req)
         /\ WF_vars((StopDrained(w) \/ StopGivesUp(w)) /\ UNCHANGED req)
         /\ WF_vars(LoopStep(w) /\ UNCHANGED req)
         /\ \A s \in Slots : WF_vars(ExecStep(w, s) /\ UNCHANGED req)
    /\ \A j \in Jobs :
         /\ WF_vars(\E w \in Workers : SweepReaches(w, j))
         /\ WF_vars(DueNow(j))
         /\ WF_vars(BeatAges(j) /\ ~Attended(j) /\ UNCHANGED <<workerVars, req, faults>>)

FairSpec == Spec /\ Fairness

-----------------------------------------------------------------------------
(***************************************************************************)
(* Properties of every environment.                                        *)
(***************************************************************************)

SystemTypeOK == TypeOK /\ WorkerTypeOK /\ ApiTypeOK

\* activeJobsCount is a counter kept beside the executions it counts: they
\* agree at every await, and the cap holds, across crashes, signals and errors.
CountKeepsCap ==
    \A w \in Workers :
        active[w] = Cardinality(Busy(w)) /\ active[w] <= Concurrency

\* No process, live or stalled, does to the tables what TableSpec does not
\* allow: what is proved of TableSpec holds of the system.
ImplementsTable == TableSpec

\* Whatever disturbs the system, if the disturbances and the requests are
\* finitely many every accepted job is settled in the end and stays settled:
\* no orphaned claim, no lost retry slot, no job that keeps coming back.
Settled(j) == job[j].status \in {"succeeded", "dead"}
EventuallySettled == \A j \in Jobs : Exists(j) ~> []Settled(j)

-----------------------------------------------------------------------------
(***************************************************************************)
(* Properties of a timely environment: no stalls, no lost replies, and no  *)
(* two retries of one job at the same time.                                *)
(***************************************************************************)

\* Every execution in a live process works on the claim its row stands for:
\* the row is in processing and is at the execution's attempt.
ExecutionsOwnTheirRow ==
    \A w \in Workers : \A s \in Busy(w) :
        LET row == job[exec[w][s].job]
        IN  row.status = "processing" /\ exec[w][s].attempt = row.attempts + 1

\* No job is executed twice at the same time, by one process or by two.
SingleExecution ==
    \A w, v \in Workers : \A s \in Busy(w), t \in Busy(v) :
        exec[w][s].job = exec[v][t].job => w = v /\ s = t

\* Every charge has a claim and every claim is charged once or still open:
\* a crash, the sweeper and the worker's own report never charge one attempt twice.
ClaimsAccounted ==
    \A j \in Jobs : claims[j] = job[j].attempts
        + (IF job[j].status \in {"processing", "succeeded"} THEN 1 ELSE 0)

\* handlers/index.ts:34: a handler "can never leave an output behind without
\* the job being marked done".  In a timely environment; a stalled worker's
\* completion, which comes when its row is no longer in processing, does.
OutputMeansDone ==
    \A j \in Jobs : output[j] # NoOutput => job[j].status = "succeeded"

\* The system is an implementation of the documented life of a job.
Lifecycle == INSTANCE JobLifecycle WITH
    phase  <- [j \in Jobs |-> job[j].status],
    spent  <- [j \in Jobs |-> job[j].attempts],
    budget <- [j \in Jobs |-> job[j].maxAttempts],
    result <- output

ImplementsLifecycle == Lifecycle!Spec

-----------------------------------------------------------------------------
(***************************************************************************)
(* What a comment says of the code, where it does otherwise.               *)
(***************************************************************************)

\* queue/index.ts:243: "a worker whose job was already recovered by the sweeper
\* cannot stamp a re-claimed row as succeeded".
OnlyTheOwnerCompletes ==
    [][\A w \in Workers, s \in Slots :
         CompleteCommits(w, s) /\ job[exec[w][s].job].status = "processing"
            => exec[w][s].attempt = job[exec[w][s].job].attempts + 1]_vars

\* app.ts:241: "Only "dead" jobs can be retried".  The status is read in one
\* statement and the row reset in another: of two operators who read the same
\* dead row, the second resets it when it is pending, in a worker's hands or done.
OnlyDeadIsReset ==
    [][\A r \in RetryRequests :
         RetryResets(r) => job[req[r].job].status = "dead"]_vars
=============================================================================
