------------------------------- MODULE JobApi -------------------------------
(***************************************************************************)
(* The requests of src/api/app.ts that write: POST /api/jobs, which is     *)
(* enqueueJob of src/queue/index.ts, and POST /api/dead-letter/:id/retry.  *)
(* A request is handled once, by any API process; requests are interleaved *)
(* at every await.                                                         *)
(*                                                                         *)
(* Requests rejected by validation (422, 400 on a malformed id) change     *)
(* nothing and are not modelled, nor are the reads (status, dead-letter    *)
(* list, metrics, dashboard).                                              *)
(***************************************************************************)
EXTENDS JobTable, FaultBudget

CONSTANTS
    EnqueueRequests,   \* the POST /api/jobs clients send
    RetryRequests,     \* the POST /api/dead-letter/:id/retry operators send
    NoTarget

ASSUME RequestsAssumption ==
    EnqueueRequests \cap RetryRequests = {} /\ NoTarget \notin Jobs

VARIABLE req   \* req[r]: where the handler of request r is, and what it answered

Requests == EnqueueRequests \cup RetryRequests
Replies == {"none", "created", "duplicate", "reset", "notDead", "notFound", "error"}

ApiInit == req = [r \in Requests |-> [pc |-> "sent", job |-> NoTarget, reply |-> "none"]]

Answers(r, j, reply) ==
    req' = [req EXCEPT ![r] = [pc |-> "done", job |-> j, reply |-> reply]]
Waits(r, j, pc) ==
    req' = [req EXCEPT ![r] = [pc |-> pc, job |-> j, reply |-> "none"]]

\* A write commits and is answered, or its reply is lost and the answer is 500.
Commits(r, j, reply) ==
    \/ Answers(r, j, reply) /\ UNCHANGED faults
    \/ Answers(r, j, "error") /\ Fault("lostReply")

-----------------------------------------------------------------------------
(***************************************************************************)
(* enqueueJob: insert first, read on conflict.                             *)
(***************************************************************************)

\* Mutant: read first, then write, as if the unique index were not there.
EnqueueInsertsBlindly(r) ==
    /\ req[r].pc = "sent"
    /\ \E j \in Jobs, b \in Budgets, d \in BOOLEAN :
         /\ job' = [job EXCEPT ![j] = [status |-> "pending", attempts |-> 0,
                        maxAttempts |-> b, due |-> d, beat |-> "none"]]
         /\ UNCHANGED <<output, claims>>
         /\ Commits(r, j, "created")

EnqueueInserts(r) ==
    /\ req[r].pc = "sent"
    /\ \E j \in Jobs, b \in Budgets, d \in BOOLEAN :
         EnqueueRow(j, b, d) /\ Commits(r, j, "created")

\* The unique index refuses the key (P2002).
EnqueueConflicts(r) ==
    /\ req[r].pc = "sent"
    /\ \E j \in Jobs : Exists(j) /\ Waits(r, j, "conflict")
    /\ UNCHANGED <<tableVars, faults>>

EnqueueReads(r) ==
    /\ req[r].pc = "conflict"
    /\ Answers(r, req[r].job, IF Exists(req[r].job) THEN "duplicate" ELSE "error")
    /\ UNCHANGED <<tableVars, faults>>

-----------------------------------------------------------------------------
(***************************************************************************)
(* The retry of a dead job: read, check, then retryDeadJob.                *)
(***************************************************************************)

RetryReads(r) ==
    /\ req[r].pc = "sent"
    /\ \E j \in Jobs :
         CASE ~Exists(j)             -> Answers(r, j, "notFound")
           [] job[j].status = "dead" -> Waits(r, j, "resetting")
           [] OTHER                  -> Answers(r, j, "notDead")
    /\ UNCHANGED <<tableVars, faults>>

RetryResets(r) ==
    /\ req[r].pc = "resetting"
    /\ \E d \in BOOLEAN : RetryRow(req[r].job, d)
    /\ Commits(r, req[r].job, "reset")

\* A statement of the handler fails: the error handler answers 500.
RequestErrors(r) ==
    /\ req[r].pc # "done" /\ Fault("dbError")
    /\ Answers(r, req[r].job, "error")
    /\ UNCHANGED tableVars

ApiNext ==
    \/ \E r \in EnqueueRequests : EnqueueInserts(r) \/ EnqueueConflicts(r) \/ EnqueueReads(r)
    \/ \E r \in RetryRequests : RetryReads(r) \/ RetryResets(r)
    \/ \E r \in Requests : RequestErrors(r)

-----------------------------------------------------------------------------
ApiTypeOK ==
    req \in [Requests -> [pc : {"sent", "conflict", "resetting", "done"},
                          job : Jobs \cup {NoTarget}, reply : Replies]]

\* However many clients race on a key, at most one is told that it created the
\* job; the others get the existing row (enqueueJob's insert on the unique key).
OneCreatorPerKey ==
    \A r, q \in Requests :
        req[r].reply = "created" /\ req[q].reply = "created" /\ req[r].job = req[q].job
            => r = q
=============================================================================
