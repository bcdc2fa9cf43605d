------------------------------ MODULE JobTable ------------------------------
(***************************************************************************)
(* The tables "Job" and "JobOutput" of task-2-background-jobs, and the     *)
(* statements src/queue/index.ts runs against them: one action per         *)
(* exported function, its transaction included.  Every function takes the  *)
(* lock of the row it writes and holds it until it commits, so a           *)
(* transaction is one step of the table.                                   *)
(*                                                                         *)
(* TableSpec lets any client issue any statement on any row in any order:  *)
(* no worker, no ownership, no schedule.  What holds here holds whatever   *)
(* the workers and the API processes do.                                   *)
(*                                                                         *)
(* Time is abstract.  A row does not carry timestamps but the two          *)
(* comparisons the statements make with the database clock:                *)
(*   due    runAt <= NOW()                         (claimNextJob)          *)
(*   beat   whether COALESCE(lastHeartbeatAt, startedAt) is NULL, or is    *)
(*          younger ("fresh") or older ("stale") than the stuck timeout;   *)
(*          only rows in processing are compared   (sweepStuckJobs)        *)
(* RunAtArrives and BeatAges are the passage of time.  createdAt,          *)
(* updatedAt, finishedAt, lastError, type and payload steer no statement   *)
(* of the queue and are left out.                                          *)
(***************************************************************************)
EXTENDS Integers, FiniteSets

CONSTANTS
    Jobs,              \* idempotency keys: the unique index makes a key a row
    Budgets,           \* the values of maxAttempts clients ask for
    Results,           \* what handlers compute: the number of the attempt
    SweeperBatchSize   \* LIMIT of one sweep

ASSUME BudgetsAssumption == Budgets \subseteq Nat \ {0}
ASSUME ResultsAssumption == Results \subseteq Nat \ {0}
ASSUME BatchAssumption   == SweeperBatchSize \in Nat \ {0}

VARIABLES
    job,      \* job[j]: the row of key j
    output,   \* output[j]: the result in JobOutput, NoOutput without a row
    claims    \* ghost: how often j was claimed since it was enqueued or reset

tableVars == <<job, output, claims>>

NoOutput == 0
Statuses == {"absent", "pending", "processing", "succeeded", "failed", "dead"}

\* Mutant: a failed row is never retried.
CLAIMABLE_PendingOnly == {"pending"}
\* Mutant: a row in processing can be claimed again.
CLAIMABLE_Processing == {"pending", "failed", "processing"}

CLAIMABLE_STATUSES == {"pending", "failed"}

Row == [status : Statuses, attempts : Nat, maxAttempts : Nat,
        due : BOOLEAN, beat : {"none", "fresh", "stale"}]

NoRow == [status |-> "absent", attempts |-> 0, maxAttempts |-> 0,
          due |-> FALSE, beat |-> "none"]

Exists(j) == job[j].status # "absent"
Claimable(j) == job[j].status \in CLAIMABLE_STATUSES /\ job[j].due

\* Mutant: the sweeper goes by startedAt and does not look at the heartbeat.
StuckByStart(j) == job[j].status = "processing"

Stuck(j) == job[j].status = "processing" /\ job[j].beat = "stale"

TableInit ==
    /\ job = [j \in Jobs |-> NoRow]
    /\ output = [j \in Jobs |-> NoOutput]
    /\ claims = [j \in Jobs |-> 0]

-----------------------------------------------------------------------------
(***************************************************************************)
(* The statements.                                                         *)
(***************************************************************************)

\* enqueueJob's INSERT.  runAt is the client's choice or the clock of the
\* application host, which may be ahead of the database's: due either way.
EnqueueRow(j, budget, due) ==
    /\ ~Exists(j)
    /\ job' = [job EXCEPT ![j] =
                 [status |-> "pending", attempts |-> 0, maxAttempts |-> budget,
                  due |-> due, beat |-> "none"]]
    /\ UNCHANGED <<output, claims>>

\* Mutant: the claim forgets to stamp lastHeartbeatAt and startedAt.
ClaimRowUnstamped(j) ==
    /\ Claimable(j)
    /\ job' = [job EXCEPT ![j] = [@ EXCEPT !.status = "processing",
                                               !.beat = "none"]]
    /\ claims' = [claims EXCEPT ![j] = @ + 1]
    /\ UNCHANGED output

\* claimNextJob.  Which due row is taken first is left open: the row with the
\* oldest runAt may be locked and is then skipped.
ClaimRow(j) ==
    /\ Claimable(j)
    /\ job' = [job EXCEPT ![j] = [@ EXCEPT !.status = "processing",
                                               !.beat = "fresh"]]
    /\ claims' = [claims EXCEPT ![j] = @ + 1]
    /\ UNCHANGED output

\* heartbeatJob: no claim identity, any row in processing is refreshed.
BeatRow(j) ==
    /\ job[j].status = "processing"
    /\ job' = [job EXCEPT ![j] = [@ EXCEPT !.beat = "fresh"]]
    /\ UNCHANGED <<output, claims>>

\* Mutant: one attempt too many before the row is dead.
ChargedLate(row, due) ==
    LET exhausted == row.attempts + 1 > row.maxAttempts
    IN  [row EXCEPT !.status = IF exhausted THEN "dead" ELSE "failed",
                    !.attempts = @ + 1, !.due = due, !.beat = "none"]

\* The row after one more charged attempt: dead when the budget is spent,
\* otherwise failed, due as given.
Charged(row, due) ==
    LET exhausted == row.attempts + 1 >= row.maxAttempts
    IN  [row EXCEPT !.status = IF exhausted THEN "dead" ELSE "failed",
                    !.attempts = @ + 1, !.due = due, !.beat = "none"]

\* markJobFailed: conditional on nothing but the row's existence.  A dead row
\* keeps its runAt, a failed one gets a slot in the future (the backoff is at
\* least 100 ms).
FailRow(j) ==
    /\ Exists(j)
    /\ LET row == job[j]
       IN  job' = [job EXCEPT ![j] =
                     Charged(row, row.due /\ row.attempts + 1 >= row.maxAttempts)]
    /\ UNCHANGED <<output, claims>>

\* Mutant: the status is written first and the output in a later transaction.
CompleteRowStatusOnly(j, result) ==
    /\ job[j].status = "processing"
    /\ job' = [job EXCEPT ![j] = [@ EXCEPT !.status = "succeeded",
                                               !.beat = "none"]]
    /\ UNCHANGED <<output, claims>>

\* Mutant: the status update is not conditional on processing.
CompleteRowAlways(j, result) ==
    /\ Exists(j)
    /\ output' = [output EXCEPT ![j] = IF @ = NoOutput THEN result ELSE @]
    /\ job' = [job EXCEPT ![j] = [@ EXCEPT !.status = "succeeded",
                                               !.beat = "none"]]
    /\ UNCHANGED claims

\* Mutant: an upsert whose update overwrites the stored result.
CompleteRowUpsert(j, result) ==
    /\ Exists(j)
    /\ output' = [output EXCEPT ![j] = result]
    /\ job' = IF job[j].status = "processing"
              THEN [job EXCEPT ![j] = [@ EXCEPT !.status = "succeeded",
                                               !.beat = "none"]]
              ELSE job
    /\ UNCHANGED claims

\* completeJob: the output is inserted or the stored one kept, whatever the
\* status; only a row in processing becomes succeeded.  (When the row is not,
\* nothing locks it until the commit: it can be claimed meanwhile, and its handler
\* can look for the output before that shows.  Here it shows at once.)
CompleteRow(j, result) ==
    /\ Exists(j)
    /\ output' = [output EXCEPT ![j] = IF @ = NoOutput THEN result ELSE @]
    /\ job' = IF job[j].status = "processing"
              THEN [job EXCEPT ![j] = [@ EXCEPT !.status = "succeeded",
                                               !.beat = "none"]]
              ELSE job
    /\ UNCHANGED claims

\* Mutant: the sweeper recovers the rows without charging an attempt.
SweepRowsFree(S) ==
    /\ S # {} /\ S \subseteq {j \in Jobs : Stuck(j)}
    /\ Cardinality(S) <= SweeperBatchSize
    /\ job' = [j \in Jobs |-> IF j \in S
                              THEN [job[j] EXCEPT !.status = "failed", !.due = TRUE,
                                                  !.beat = "none"]
                              ELSE job[j]]
    /\ UNCHANGED <<output, claims>>

\* Mutant: the sweeper leaves the rows on their last attempt alone.
SweepRowsWithBudget(S) ==
    /\ S # {} /\ S \subseteq {j \in Jobs : Stuck(j) /\ job[j].attempts + 1 < job[j].maxAttempts}
    /\ Cardinality(S) <= SweeperBatchSize
    /\ job' = [j \in Jobs |-> IF j \in S THEN Charged(job[j], TRUE) ELSE job[j]]
    /\ UNCHANGED <<output, claims>>

\* sweepStuckJobs: one statement recovers a batch.  Rows locked by others are
\* skipped, so any non-empty subset of the stuck rows within the LIMIT.
SweepRows(S) ==
    /\ S # {} /\ S \subseteq {j \in Jobs : Stuck(j)}
    /\ Cardinality(S) <= SweeperBatchSize
    /\ job' = [j \in Jobs |-> IF j \in S THEN Charged(job[j], TRUE) ELSE job[j]]
    /\ UNCHANGED <<output, claims>>

\* Mutant: the retry gives one attempt back instead of zeroing the count.
RetryRowRefund(j, due) ==
    /\ Exists(j)
    /\ job' = [job EXCEPT ![j] = [@ EXCEPT !.status = "pending", !.attempts = @ - 1,
                                               !.due = due, !.beat = "none"]]
    /\ claims' = [claims EXCEPT ![j] = 0]
    /\ UNCHANGED output

\* retryDeadJob: conditional on nothing but the row's existence.  runAt is the
\* clock of the application host.
RetryRow(j, due) ==
    /\ Exists(j)
    /\ job' = [job EXCEPT ![j] = [@ EXCEPT !.status = "pending", !.attempts = 0,
                                               !.due = due, !.beat = "none"]]
    /\ claims' = [claims EXCEPT ![j] = 0]
    /\ UNCHANGED output

-----------------------------------------------------------------------------
(***************************************************************************)
(* The passage of time.                                                    *)
(***************************************************************************)

RunAtArrives(j) ==
    /\ job[j].status \in CLAIMABLE_STATUSES /\ ~job[j].due
    /\ job' = [job EXCEPT ![j] = [@ EXCEPT !.due = TRUE]]
    /\ UNCHANGED <<output, claims>>

BeatAges(j) ==
    /\ job[j].status = "processing" /\ job[j].beat = "fresh"
    /\ job' = [job EXCEPT ![j] = [@ EXCEPT !.beat = "stale"]]
    /\ UNCHANGED <<output, claims>>

-----------------------------------------------------------------------------
TableNext ==
    \/ \E j \in Jobs, b \in Budgets, d \in BOOLEAN : EnqueueRow(j, b, d)
    \/ \E j \in Jobs : ClaimRow(j)
    \/ \E j \in Jobs : BeatRow(j)
    \/ \E j \in Jobs : FailRow(j)
    \/ \E j \in Jobs, r \in Results : CompleteRow(j, r)
    \/ \E S \in SUBSET Jobs : SweepRows(S)
    \/ \E j \in Jobs, d \in BOOLEAN : RetryRow(j, d)
    \/ \E j \in Jobs : RunAtArrives(j)
    \/ \E j \in Jobs : BeatAges(j)

TableSpec == TableInit /\ [][TableNext]_tableVars

-----------------------------------------------------------------------------
(***************************************************************************)
(* Properties of the tables under any client.                              *)
(***************************************************************************)

\* The variables stay in their domains.
TypeOK ==
    /\ job \in [Jobs -> Row]
    /\ output \in [Jobs -> Results \cup {NoOutput}]
    /\ claims \in [Jobs -> Nat]

\* A row is in the dead-letter queue exactly when its budget is spent, however
\* many workers and sweepers charge it at once (markJobFailed and
\* sweepStuckJobs both decide on the count the database holds).
DeadIffExhausted ==
    \A j \in Jobs : Exists(j) =>
        (job[j].status = "dead" <=> job[j].attempts >= job[j].maxAttempts)

\* No claim can be orphaned beyond the sweeper's reach: a row in processing
\* always has a timestamp sweepStuckJobs can compare.
OrphansRecoverable ==
    \A j \in Jobs : job[j].status = "processing" => job[j].beat # "none"

\* completeJob: no crash or race leaves a succeeded job without its output.
SucceededHasOutput ==
    \A j \in Jobs : job[j].status = "succeeded" => output[j] # NoOutput

\* A job is handed to workers at most maxAttempts times between two resets,
\* even when crashed, stalled and live workers all report on it: every hand-out
\* is charged before the next one (claimNextJob against the two charging
\* statements).
ClaimsWithinBudget ==
    \A j \in Jobs : Exists(j) => claims[j] <= job[j].maxAttempts

\* A dead row leaves the dead-letter queue only by retryDeadJob: no late
\* completion, failure, heartbeat or sweep revives it.
DeadLeavesOnlyByRetry ==
    [][\A j \in Jobs : job[j].status = "dead" /\ job'[j].status # "dead"
                           => \E d \in BOOLEAN : RetryRow(j, d)]_tableVars

\* The first stored output stands: every later completion of the job keeps it
\* (ON CONFLICT DO NOTHING on the unique jobId).
OutputWriteOnce ==
    [][\A j \in Jobs : output[j] # NoOutput => output'[j] = output[j]]_tableVars
=============================================================================
