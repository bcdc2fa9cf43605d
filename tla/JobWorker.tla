----------------------------- MODULE JobWorker -----------------------------
(***************************************************************************)
(* The worker processes of task-2-background-jobs: BackgroundWorker of     *)
(* src/worker/runner.ts with the handlers of src/handlers/index.ts.        *)
(*                                                                         *)
(* A process is one event loop on which run, interleaved at every await:   *)
(*   - runLoop, which claims (loop, fetched);                              *)
(*   - one executeJob per claimed job (exec[w][s], one slot each);         *)
(*   - the heartbeat timer of each execution and the sweep timer;          *)
(*   - stop(), on SIGINT and SIGTERM (proc).                               *)
(* An action is the code between two awaits together with the statement it *)
(* awaits.  A statement and its reply are two steps only where the code    *)
(* between them matters: the claim (a process can die or stop before it    *)
(* sees the row it owns) and the writes whose reply is lost.               *)
(***************************************************************************)
EXTENDS JobTable, FaultBudget

CONSTANTS
    Workers,       \* worker processes
    Concurrency,   \* WORKER_CONCURRENCY, the cap of one process
    Caching,       \* jobs whose handler looks for a stored output first
    Unhandled,     \* jobs of a type without a handler
    NoJob

ASSUME ConcurrencyAssumption == Concurrency \in Nat \ {0}
\* A result is the number of the attempt that computed it.
ASSUME AttemptsAssumption == \A b \in Budgets : 1 .. b \subseteq Results
ASSUME JobTypesAssumption ==
    Caching \subseteq Jobs /\ Unhandled \subseteq Jobs /\ NoJob \notin Jobs

VARIABLES
    proc,      \* proc[w]: "up", "stopping" (isRunning is false) or "down"
    loop,      \* loop[w]: where runLoop is
    fetched,   \* fetched[w]: the claim whose reply is on its way
    active,    \* active[w]: activeJobsCount
    exec       \* exec[w][s]: an executeJob in progress, or Idle

workerVars == <<proc, loop, fetched, active, exec>>

\* One slot more than the cap, so that a broken cap has room to show.
Slots == 1 .. (Concurrency + 1)

Idle    == [pc |-> "idle", job |-> NoJob, attempt |-> 0, result |-> NoOutput]
NoClaim == [job |-> NoJob, attempt |-> 0]

Busy(w) == {s \in Slots : exec[w][s].pc # "idle"}
\* Any slot that is free: they are alike.
FreeSlot(w) == CHOOSE s \in Slots : s \notin Busy(w)

WorkerInit ==
    /\ proc = [w \in Workers |-> "down"]
    /\ loop = [w \in Workers |-> "exited"]
    /\ fetched = [w \in Workers |-> NoClaim]
    /\ active = [w \in Workers |-> 0]
    /\ exec = [w \in Workers |-> [s \in Slots |-> Idle]]

-----------------------------------------------------------------------------
(***************************************************************************)
(* The process.                                                            *)
(***************************************************************************)

\* start(), on deployment and after every exit.
Start(w) ==
    /\ proc[w] = "down"
    /\ proc' = [proc EXCEPT ![w] = "up"]
    /\ loop' = [loop EXCEPT ![w] = "top"]
    /\ UNCHANGED <<tableVars, fetched, active, exec, faults>>

\* The process is gone, with everything it held in memory.
Exits(w) ==
    /\ proc' = [proc EXCEPT ![w] = "down"]
    /\ loop' = [loop EXCEPT ![w] = "exited"]
    /\ fetched' = [fetched EXCEPT ![w] = NoClaim]
    /\ active' = [active EXCEPT ![w] = 0]
    /\ exec' = [exec EXCEPT ![w] = [s \in Slots |-> Idle]]

Kill(w) ==
    /\ proc[w] # "down" /\ Fault("kill")
    /\ Exits(w)
    /\ UNCHANGED tableVars

\* A signal: stop() clears isRunning and the sweep timer.
Stop(w) ==
    /\ proc[w] = "up" /\ Fault("stop")
    /\ proc' = [proc EXCEPT ![w] = "stopping"]
    /\ UNCHANGED <<tableVars, loop, fetched, active, exec>>

\* stop() finds the count at zero, reports a clean stop and exits.
StopDrained(w) ==
    /\ proc[w] = "stopping" /\ active[w] = 0
    /\ Exits(w)
    /\ UNCHANGED <<tableVars, faults>>

\* stop() has waited 50 times 100 ms and exits with executions in flight.
StopGivesUp(w) ==
    /\ proc[w] = "stopping" /\ active[w] > 0
    /\ Exits(w)
    /\ UNCHANGED <<tableVars, faults>>

-----------------------------------------------------------------------------
(***************************************************************************)
(* runLoop.                                                                *)
(***************************************************************************)

\* The head of the loop: leave, or claim while the cap allows it.  At the cap
\* it sleeps and looks again.
LoopExits(w) ==
    /\ loop[w] = "top" /\ proc[w] = "stopping"
    /\ loop' = [loop EXCEPT ![w] = "exited"]
    /\ UNCHANGED <<tableVars, proc, fetched, active, exec, faults>>

\* Mutant: the count is compared the wrong side of the cap.
PollsOverCap(w) ==
    /\ loop[w] = "top" /\ proc[w] = "up" /\ active[w] <= Concurrency
    /\ loop' = [loop EXCEPT ![w] = "claiming"]
    /\ UNCHANGED <<tableVars, proc, fetched, active, exec, faults>>

Polls(w) ==
    /\ loop[w] = "top" /\ proc[w] = "up" /\ active[w] < Concurrency
    /\ loop' = [loop EXCEPT ![w] = "claiming"]
    /\ UNCHANGED <<tableVars, proc, fetched, active, exec, faults>>

\* claimNextJob commits; its reply carries the attempts the row had.
ClaimCommits(w) ==
    /\ loop[w] = "claiming"
    /\ \E j \in Jobs :
         /\ ClaimRow(j)
         /\ fetched' = [fetched EXCEPT ![w] =
                          [job |-> j, attempt |-> job[j].attempts + 1]]
    /\ loop' = [loop EXCEPT ![w] = "claimed"]
    /\ UNCHANGED <<proc, active, exec, faults>>

\* The claim also skips rows another transaction has locked; such a row is no
\* longer claimable when that transaction is over, or the next poll finds it.
ClaimFindsNothing(w) ==
    /\ loop[w] = "claiming" /\ ~\E j \in Jobs : Claimable(j)
    /\ loop' = [loop EXCEPT ![w] = "top"]
    /\ UNCHANGED <<tableVars, proc, fetched, active, exec, faults>>

\* claimNextJob throws: the loop logs, sleeps and polls again.
ClaimErrors(w) ==
    /\ loop[w] = "claiming"
    /\ \/ Fault("dbError") /\ UNCHANGED tableVars
       \/ Fault("lostReply") /\ \E j \in Jobs : ClaimRow(j)
    /\ loop' = [loop EXCEPT ![w] = "top"]
    /\ UNCHANGED <<proc, fetched, active, exec>>

\* The reply arrives, also after a signal: the loop does not look at isRunning
\* again.  executeJob runs up to its first await: without a handler that is
\* markJobFailed, otherwise the handler's.
ClaimReturns(w) ==
    /\ loop[w] = "claimed"
    /\ LET j == fetched[w].job
       IN  exec' = [exec EXCEPT ![w][FreeSlot(w)] =
                      [pc |-> IF j \in Unhandled THEN "failing" ELSE "started",
                       job |-> j, attempt |-> fetched[w].attempt,
                       result |-> NoOutput]]
    /\ active' = [active EXCEPT ![w] = @ + 1]
    /\ fetched' = [fetched EXCEPT ![w] = NoClaim]
    /\ loop' = [loop EXCEPT ![w] = "top"]
    /\ UNCHANGED <<tableVars, proc, faults>>

LoopStep(w) ==
    \/ LoopExits(w) \/ Polls(w) \/ ClaimCommits(w) \/ ClaimFindsNothing(w)
    \/ ClaimReturns(w)
-----------------------------------------------------------------------------
(***************************************************************************)
(* executeJob, the slot s of process w.                                    *)
(***************************************************************************)

At(w, s, pc) == exec[w][s].pc = pc
Goes(w, s, pc) == exec' = [exec EXCEPT ![w][s].pc = pc]

\* executeJob settles: its slot is free and finally() decrements the count.
Settles(w, s) ==
    /\ exec' = [exec EXCEPT ![w][s] = Idle]
    /\ active' = [active EXCEPT ![w] = @ - 1]

\* The handler is called: a caching one returns the stored output if there is
\* one, the others, and a caching one without it, go to work.
HandlerStarts(w, s) ==
    /\ At(w, s, "started")
    /\ LET j == exec[w][s].job
           stored == j \in Caching /\ output[j] # NoOutput
       IN  exec' = [exec EXCEPT ![w][s].pc = IF stored THEN "completing" ELSE "working",
                                ![w][s].result = IF stored THEN output[j] ELSE NoOutput]
    /\ UNCHANGED <<tableVars, proc, loop, fetched, active, faults>>

\* Mutant: the handler stores its output itself, before completeJob.
HandlerReturnsPersists(w, s) ==
    /\ At(w, s, "working")
    /\ exec' = [exec EXCEPT ![w][s].pc = "completing",
                            ![w][s].result = exec[w][s].attempt]
    /\ output' = [output EXCEPT ![exec[w][s].job] = exec[w][s].attempt]
    /\ UNCHANGED <<job, claims, proc, loop, fetched, active, faults>>

HandlerReturns(w, s) ==
    /\ At(w, s, "working")
    /\ exec' = [exec EXCEPT ![w][s].pc = "completing",
                            ![w][s].result = exec[w][s].attempt]
    /\ UNCHANGED <<tableVars, proc, loop, fetched, active, faults>>

\* The handler throws.  The two that look for a stored output do nothing else
\* that can fail; TEST_FAILING_JOB fails as its payload says.
HandlerThrows(w, s) ==
    /\ \/ At(w, s, "working") /\ exec[w][s].job \notin Caching /\ UNCHANGED faults
       \/ At(w, s, "started") /\ exec[w][s].job \in Caching /\ Fault("dbError")
    /\ Goes(w, s, "failing")
    /\ UNCHANGED <<tableVars, proc, loop, fetched, active>>

CompleteCommits(w, s) ==
    /\ At(w, s, "completing")
    /\ CompleteRow(exec[w][s].job, exec[w][s].result)
    /\ Settles(w, s)
    /\ UNCHANGED <<proc, loop, fetched, faults>>

\* completeJob throws, rolled back or after its commit: the catch block takes
\* either for a failed attempt.
CompleteErrors(w, s) ==
    /\ At(w, s, "completing")
    /\ \/ Fault("dbError") /\ UNCHANGED tableVars
       \/ Fault("lostReply") /\ CompleteRow(exec[w][s].job, exec[w][s].result)
    /\ Goes(w, s, "failing")
    /\ UNCHANGED <<proc, loop, fetched, active>>

\* Mutant: finally() is missing, the count is never given back.
FailCommitsLeak(w, s) ==
    /\ At(w, s, "failing")
    /\ FailRow(exec[w][s].job)
    /\ exec' = [exec EXCEPT ![w][s] = Idle]
    /\ UNCHANGED <<proc, loop, fetched, active, faults>>

\* Mutant: the catch block gives the count back as well as finally().
FailCommitsTwice(w, s) ==
    /\ At(w, s, "failing")
    /\ FailRow(exec[w][s].job)
    /\ exec' = [exec EXCEPT ![w][s] = Idle]
    /\ active' = [active EXCEPT ![w] = @ - 2]
    /\ UNCHANGED <<proc, loop, fetched, faults>>

FailCommits(w, s) ==
    /\ At(w, s, "failing")
    /\ FailRow(exec[w][s].job)
    /\ Settles(w, s)
    /\ UNCHANGED <<proc, loop, fetched, faults>>

\* markJobFailed throws: nothing catches it, the promise executeJob(...)
\* .finally(...) rejects unhandled and Node ends the process.
FailErrors(w, s) ==
    /\ At(w, s, "failing")
    /\ \/ Fault("dbError") /\ UNCHANGED tableVars
       \/ Fault("lostReply") /\ FailRow(exec[w][s].job)
    /\ Exits(w)

\* The heartbeat timer, set before the handler is called and cleared when
\* executeJob settles; a type without a handler sets none.
Heartbeats(w, s) ==
    /\ exec[w][s].pc # "idle" /\ exec[w][s].job \notin Unhandled
    /\ BeatRow(exec[w][s].job)
    /\ UNCHANGED <<workerVars, faults>>

\* The sweep timer.
Sweeps(w) ==
    /\ proc[w] = "up"
    /\ \E S \in SUBSET Jobs : SweepRows(S)
    /\ UNCHANGED <<workerVars, faults>>

ExecStep(w, s) ==
    \/ HandlerStarts(w, s) \/ HandlerReturns(w, s) \/ HandlerThrows(w, s)
    \/ CompleteCommits(w, s) \/ FailCommits(w, s)

WorkerNext(w) ==
    \/ Start(w) \/ Kill(w) \/ Stop(w) \/ StopDrained(w) \/ StopGivesUp(w)
    \/ LoopStep(w) \/ ClaimErrors(w) \/ Sweeps(w)
    \/ \E s \in Slots :
         \/ ExecStep(w, s) \/ CompleteErrors(w, s) \/ FailErrors(w, s)
         \/ Heartbeats(w, s)

-----------------------------------------------------------------------------
\* A live process holds a claim on j: the reply is on its way, or an execution
\* is in progress and heartbeats the row.
Attended(j) ==
    \E w \in Workers :
        \/ fetched[w].job = j
        \/ \E s \in Slots : exec[w][s].job = j

WorkerTypeOK ==
    /\ proc \in [Workers -> {"up", "stopping", "down"}]
    /\ loop \in [Workers -> {"top", "claiming", "claimed", "exited"}]
    /\ fetched \in [Workers -> [job : Jobs \cup {NoJob}, attempt : Nat]]
    /\ active \in [Workers -> Nat]
    /\ exec \in [Workers -> [Slots ->
         [pc : {"idle", "started", "working", "completing", "failing"},
          job : Jobs \cup {NoJob}, attempt : Nat, result : Nat]]]
    /\ faults \in 0 .. MaxFaults
=============================================================================
