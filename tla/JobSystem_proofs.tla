-------------------------- MODULE JobSystem_proofs --------------------------
(***************************************************************************)
(* What JobSystem's properties rest on in every environment: for any jobs, *)
(* workers, concurrency, requests and any number of disturbances of every  *)
(* kind.  The main result is that the system implements TableSpec, so that *)
(* the theorems of JobTable_proofs hold of it.                             *)
(***************************************************************************)
EXTENDS JobSystem, JobTable_proofs, FiniteSetTheorems

\* The budget a row was created with is one a client asked for.
BudgetsAsked == \A j \in Jobs : Exists(j) => job[j].maxAttempts \in Budgets

\* A claim is of a job and of one of its attempts, and is held exactly while
\* the reply is on its way; a process that is down has no loop.
LoopInv(w) ==
    /\ loop[w] = "claimed" => fetched[w].job \in Jobs /\ fetched[w].attempt \in Results
    /\ loop[w] # "claimed" => fetched[w] = NoClaim
    /\ proc[w] = "down" => loop[w] = "exited"

\* So is what an execution works on; what it completes with is a result.
ExecInv(e) ==
    /\ e.pc # "idle" => e.job \in Jobs /\ e.attempt \in Results
    /\ e.pc = "completing" => e.result \in Results
    /\ e.pc = "idle" => e = Idle

\* The count is exact, and there is room for the claim under way.
CountInv(w) ==
    /\ active[w] = Cardinality(Busy(w))
    /\ active[w] <= Concurrency
    /\ loop[w] \in {"claiming", "claimed"} => active[w] < Concurrency

Holdings == \A w \in Workers : LoopInv(w) /\ \A s \in Slots : ExecInv(exec[w][s])
Counts   == \A w \in Workers : CountInv(w)

\* A request past its first statement is about a job; one that was told it
\* created the job is about one that exists.
RequestInv(r) ==
    /\ req[r].pc \in {"conflict", "resetting"} => req[r].job \in Jobs
    /\ req[r].reply = "created" => req[r].job \in Jobs /\ Exists(req[r].job)

SystemInv ==
    /\ IInv /\ BudgetsAsked
    /\ WorkerTypeOK /\ Holdings /\ Counts
    /\ ApiTypeOK /\ (\A r \in Requests : RequestInv(r)) /\ OneCreatorPerKey

-----------------------------------------------------------------------------
(***************************************************************************)
(* Every step is a step of the tables, or leaves them alone.               *)
(***************************************************************************)

\* A row is claimed with an attempt within its budget.
LEMMA ClaimedAttempt ==
    ASSUME IInv, BudgetsAsked, NEW j \in Jobs, Claimable(j)
    PROVE  job[j].attempts + 1 \in Results
<1>1. /\ job[j].attempts \in Nat /\ job[j].maxAttempts \in Nat
      /\ Exists(j) /\ job[j].status # "dead"
  BY DEF IInv, TypeOK, Row, Claimable, CLAIMABLE_STATUSES, Exists
<1>2. job[j].attempts < job[j].maxAttempts
  BY <1>1 DEF IInv, RowInv
<1>3. job[j].attempts + 1 \in 1 .. job[j].maxAttempts
  BY <1>1, <1>2
<1> QED BY <1>1, <1>3, AttemptsAssumption DEF BudgetsAsked

\* The statements of the workers and of POST /api/jobs, and time: all of
\* TableNext but the reset.
Reports ==
    \/ \E j \in Jobs, b \in Budgets, d \in BOOLEAN : EnqueueRow(j, b, d)
    \/ \E j \in Jobs : ClaimRow(j) \/ BeatRow(j) \/ FailRow(j)
    \/ \E j \in Jobs, r \in Results : CompleteRow(j, r)
    \/ \E S \in SUBSET Jobs : SweepRows(S)
    \/ \E j \in Jobs : RunAtArrives(j) \/ BeatAges(j)

LEMMA WorkerTableStep ==
    ASSUME Holdings, NEW w \in Workers, WorkerNext(w)
    PROVE  [Reports]_tableVars
<1>1. CASE \/ Start(w) \/ Kill(w) \/ Stop(w) \/ StopDrained(w) \/ StopGivesUp(w)
           \/ LoopExits(w) \/ Polls(w) \/ ClaimFindsNothing(w) \/ ClaimReturns(w)
  BY <1>1 DEF Start, Kill, Stop, StopDrained, StopGivesUp, LoopExits, Polls,
              ClaimFindsNothing, ClaimReturns
<1>2. CASE ClaimCommits(w) \/ ClaimErrors(w)
  BY <1>2 DEF ClaimCommits, ClaimErrors, Reports
<1>3. CASE Sweeps(w)
  BY <1>3 DEF Sweeps, Reports
<1>4. ASSUME NEW s \in Slots, HandlerStarts(w, s) \/ HandlerReturns(w, s) \/ HandlerThrows(w, s)
      PROVE  UNCHANGED tableVars
  BY <1>4 DEF HandlerStarts, HandlerReturns, HandlerThrows
<1>5. ASSUME NEW s \in Slots, CompleteCommits(w, s) \/ CompleteErrors(w, s)
      PROVE  [Reports]_tableVars
  <2>1. exec[w][s].job \in Jobs /\ exec[w][s].result \in Results
    BY <1>5 DEF CompleteCommits, CompleteErrors, At, Holdings, ExecInv
  <2> QED BY <1>5, <2>1 DEF CompleteCommits, CompleteErrors, Reports
<1>6. ASSUME NEW s \in Slots, FailCommits(w, s) \/ FailErrors(w, s)
      PROVE  [Reports]_tableVars
  <2>1. exec[w][s].job \in Jobs
    BY <1>6 DEF FailCommits, FailErrors, At, Holdings, ExecInv
  <2> QED BY <1>6, <2>1 DEF FailCommits, FailErrors, Reports
<1>7. ASSUME NEW s \in Slots, Heartbeats(w, s)
      PROVE  [Reports]_tableVars
  BY <1>7 DEF Heartbeats, Holdings, ExecInv, Reports
<1> QED
  BY <1>1, <1>2, <1>3, <1>4, <1>5, <1>6, <1>7 DEF WorkerNext, LoopStep, ExecStep

LEMMA ReportOrReset ==
    ASSUME SystemInv, [Next]_vars
    PROVE  \/ [Reports]_tableVars
           \/ \E r \in RetryRequests : RetryResets(r) /\ req[r].job \in Jobs
<1>1. CASE UNCHANGED vars
  BY <1>1 DEF vars
<1>2. ASSUME NEW w \in Workers, WorkerNext(w) PROVE [Reports]_tableVars
  BY <1>2, WorkerTableStep DEF SystemInv
<1>3. ASSUME NEW r \in EnqueueRequests,
             EnqueueInserts(r) \/ EnqueueConflicts(r) \/ EnqueueReads(r)
      PROVE  [Reports]_tableVars
  BY <1>3 DEF EnqueueInserts, EnqueueConflicts, EnqueueReads, Reports
<1>4. ASSUME NEW r \in RetryRequests, RetryReads(r) PROVE UNCHANGED tableVars
  BY <1>4 DEF RetryReads
<1>5. ASSUME NEW r \in RetryRequests, RetryResets(r) PROVE req[r].job \in Jobs
  BY <1>5 DEF SystemInv, RequestInv, Requests, RetryResets
<1>6. ASSUME NEW r \in Requests, RequestErrors(r) PROVE UNCHANGED tableVars
  BY <1>6 DEF RequestErrors
<1>7. ASSUME NEW j \in Jobs, Ages(j) \/ DueNow(j) PROVE [Reports]_tableVars
  BY <1>7 DEF Ages, DueNow, Reports
<1> QED BY <1>1, <1>2, <1>3, <1>4, <1>5, <1>6, <1>7 DEF Next, ApiNext

LEMMA TableStep ==
    ASSUME SystemInv, [Next]_vars
    PROVE  [TableNext]_tableVars
<1>1. Reports => TableNext
  BY DEF Reports, TableNext
<1>2. ASSUME NEW r \in RetryRequests, RetryResets(r), req[r].job \in Jobs
      PROVE  TableNext
  BY <1>2 DEF RetryResets, TableNext
<1> QED BY <1>1, <1>2, ReportOrReset

\* The charge of one row, spelled out.
LEMMA ChargeEffect ==
    ASSUME TypeOK, NEW j \in Jobs, FailRow(j)
    PROVE  /\ job'[j].attempts = job[j].attempts + 1
           /\ job'[j].maxAttempts = job[j].maxAttempts
           /\ job'[j].status \in {"dead", "failed"}
           /\ job'[j].status = "dead" <=> job[j].attempts + 1 >= job[j].maxAttempts
           /\ \A k \in Jobs \ {j} : job'[k] = job[k]
           /\ UNCHANGED <<output, claims>>
<1> DEFINE due == job[j].due /\ job[j].attempts + 1 >= job[j].maxAttempts
<1>1. /\ job' = [job EXCEPT ![j] = Charged(job[j], due)]
      /\ job[j] \in Row /\ due \in BOOLEAN /\ UNCHANGED <<output, claims>>
  BY DEF FailRow, TypeOK
<1> HIDE DEF due
<1>2. job'[j] = Charged(job[j], due) /\ \A k \in Jobs \ {j} : job'[k] = job[k]
  BY <1>1 DEF TypeOK
<1> QED BY <1>1, <1>2, ChargedRow

\* And of the rows of a sweep.
LEMMA SweepEffect ==
    ASSUME TypeOK, NEW S \in SUBSET Jobs, SweepRows(S)
    PROVE  /\ S # {} /\ \A j \in S : Stuck(j)
           /\ \A j \in S :
                /\ job'[j].attempts = job[j].attempts + 1
                /\ job'[j].maxAttempts = job[j].maxAttempts
                /\ job'[j].status \in {"dead", "failed"}
                /\ job'[j].status = "dead" <=> job[j].attempts + 1 >= job[j].maxAttempts
           /\ \A k \in Jobs \ S : job'[k] = job[k]
           /\ UNCHANGED <<output, claims>>
<1>1. /\ S # {} /\ (\A j \in S : Stuck(j)) /\ UNCHANGED <<output, claims>>
      /\ \A j \in Jobs : job'[j] = IF j \in S THEN Charged(job[j], TRUE) ELSE job[j]
  BY DEF SweepRows
<1>2. ASSUME NEW j \in S
      PROVE  /\ job'[j].attempts = job[j].attempts + 1
             /\ job'[j].maxAttempts = job[j].maxAttempts
             /\ job'[j].status \in {"dead", "failed"}
             /\ job'[j].status = "dead" <=> job[j].attempts + 1 >= job[j].maxAttempts
  <2>1. job[j] \in Row /\ job'[j] = Charged(job[j], TRUE)
    BY <1>1 DEF TypeOK
  <2>2. TRUE \in BOOLEAN
    OBVIOUS
  <2>3. /\ Charged(job[j], TRUE).attempts = job[j].attempts + 1
        /\ Charged(job[j], TRUE).maxAttempts = job[j].maxAttempts
        /\ Charged(job[j], TRUE).status \in {"dead", "failed"}
        /\ Charged(job[j], TRUE).status = "dead"
             <=> job[j].attempts + 1 >= job[j].maxAttempts
    BY <2>1, <2>2, ChargedRow, Zenon
  <2> QED BY <2>1, <2>3, Zenon
<1> QED BY <1>1, <1>2

\* A row never disappears, and keeps the budget it was created with.
LEMMA RowsPersist ==
    ASSUME IInv, [TableNext]_tableVars, NEW j \in Jobs
    PROVE  /\ Exists(j) => Exists(j)' /\ job'[j].maxAttempts = job[j].maxAttempts
           /\ ~Exists(j) => ~Exists(j)' \/ job'[j].maxAttempts \in Budgets
<1>0. job \in [Jobs -> Row] /\ job[j] \in Row
  BY DEF IInv, TypeOK
<1> DEFINE Kept == /\ Exists(j) => Exists(j)' /\ job'[j].maxAttempts = job[j].maxAttempts
                   /\ ~Exists(j) => ~Exists(j)' \/ job'[j].maxAttempts \in Budgets
<1>1. CASE UNCHANGED tableVars
  BY <1>1 DEF tableVars, Exists
<1>2. ASSUME NEW k \in Jobs, NEW b \in Budgets, NEW d \in BOOLEAN, EnqueueRow(k, b, d)
      PROVE  Kept
  BY <1>0, <1>2 DEF EnqueueRow, Exists, Row
<1>3. ASSUME NEW k \in Jobs, ClaimRow(k) \/ BeatRow(k) \/ RunAtArrives(k) \/ BeatAges(k)
      PROVE  Kept
  <2>1. CASE ClaimRow(k)
    BY <1>0, <2>1 DEF ClaimRow, Exists, Row, Claimable, CLAIMABLE_STATUSES
  <2>2. CASE BeatRow(k)
    BY <1>0, <2>2 DEF BeatRow, Exists, Row
  <2>3. CASE RunAtArrives(k) \/ BeatAges(k)
    BY <1>0, <2>3 DEF RunAtArrives, BeatAges, Exists, Row
  <2> QED BY <1>3, <2>1, <2>2, <2>3
<1>4. ASSUME NEW k \in Jobs, FailRow(k) PROVE Kept
  <2> DEFINE due == job[k].due /\ job[k].attempts + 1 >= job[k].maxAttempts
  <2>1. job' = [job EXCEPT ![k] = Charged(job[k], due)] /\ due \in BOOLEAN /\ Exists(k)
    BY <1>4 DEF FailRow, IInv, TypeOK
  <2> HIDE DEF due
  <2>2. CASE k = j
    <3>1. job'[j] = Charged(job[j], due)
      BY <2>1, <2>2, <1>0
    <3> QED BY <1>0, <2>1, <2>2, <3>1, ChargedRow DEF Exists
  <2>3. CASE k # j
    BY <1>0, <2>1, <2>3 DEF Exists
  <2> QED BY <2>2, <2>3
<1>5. ASSUME NEW k \in Jobs, NEW r \in Results, CompleteRow(k, r) PROVE Kept
  BY <1>0, <1>5 DEF CompleteRow, Exists, Row
<1>6. ASSUME NEW S \in SUBSET Jobs, SweepRows(S) PROVE Kept
  <2>1. /\ job'[j] = IF j \in S THEN Charged(job[j], TRUE) ELSE job[j]
        /\ j \in S => job[j].status = "processing"
    BY <1>6 DEF SweepRows, Stuck
  <2>2. CASE j \in S
    <3>1. /\ Charged(job[j], TRUE).status \in {"dead", "failed"}
          /\ Charged(job[j], TRUE).maxAttempts = job[j].maxAttempts
      BY <1>0, ChargedRow
    <3>2. job'[j] = Charged(job[j], TRUE) /\ Exists(j)
      BY <2>1, <2>2 DEF Exists
    <3> QED BY <3>1, <3>2 DEF Exists
  <2>3. CASE j \notin S
    BY <2>1, <2>3 DEF Exists
  <2> QED BY <2>2, <2>3
<1>7. ASSUME NEW k \in Jobs, NEW d \in BOOLEAN, RetryRow(k, d) PROVE Kept
  BY <1>0, <1>7 DEF RetryRow, Exists, Row
<1> QED BY <1>1, <1>2, <1>3, <1>4, <1>5, <1>6, <1>7 DEF TableNext

LEMMA TableInv ==
    ASSUME SystemInv, [Next]_vars
    PROVE  IInv' /\ BudgetsAsked'
<1>1. IInv /\ [TableNext]_tableVars
  BY TableStep DEF SystemInv
<1>2. IInv'
  BY <1>1, NextInv
<1>3. BudgetsAsked'
  BY <1>1, RowsPersist DEF SystemInv, BudgetsAsked
<1> QED BY <1>2, <1>3

-----------------------------------------------------------------------------
(***************************************************************************)
(* The worker processes.                                                   *)
(***************************************************************************)

LEMMA FaultTyped ==
    ASSUME faults \in 0 .. MaxFaults, NEW kind, Fault(kind)
    PROVE  faults' \in 0 .. MaxFaults
  BY FaultsAssumption DEF Fault

Execution == [pc : {"idle", "started", "working", "completing", "failing"},
              job : Jobs \cup {NoJob}, attempt : Nat, result : Nat]

LEMMA IdleTyped == Idle \in Execution /\ NoClaim \in [job : Jobs \cup {NoJob}, attempt : Nat]
  BY DEF Idle, NoClaim, Execution, NoOutput

LEMMA FiniteSlots ==
    /\ IsFiniteSet(Slots) /\ Cardinality(Slots) = Concurrency + 1
    /\ \A w : IsFiniteSet(Busy(w)) /\ Cardinality(Busy(w)) \in Nat
<1>1. Concurrency + 1 \in Nat /\ 1 \in Nat
  BY ConcurrencyAssumption
<1>2. IsFiniteSet(Slots) /\ Cardinality(Slots) = Concurrency + 1
  BY <1>1, FS_Interval, ConcurrencyAssumption DEF Slots
<1>3. ASSUME NEW w PROVE IsFiniteSet(Busy(w)) /\ Cardinality(Busy(w)) \in Nat
  BY <1>2, FS_Subset, FS_CardinalityType DEF Busy
<1> QED BY <1>2, <1>3

\* There is a free slot whenever the count is under the cap.
LEMMA FreeSlotIsFree ==
    ASSUME NEW w \in Workers, CountInv(w), active[w] < Concurrency
    PROVE  FreeSlot(w) \in Slots /\ FreeSlot(w) \notin Busy(w)
<1>1. Busy(w) # Slots
  BY FiniteSlots, ConcurrencyAssumption DEF CountInv
<1>2. \E s \in Slots : s \notin Busy(w)
  BY <1>1 DEF Busy
<1> QED BY <1>2 DEF FreeSlot

\* A step of process w touches nothing of the others.
Others(w) ==
    \A v \in Workers \ {w} :
        /\ proc'[v] = proc[v] /\ loop'[v] = loop[v] /\ fetched'[v] = fetched[v]
        /\ active'[v] = active[v] /\ exec'[v] = exec[v]

LEMMA OneProcess ==
    ASSUME Holdings, Counts, NEW w \in Workers, Others(w),
           LoopInv(w)', \A s \in Slots : ExecInv(exec'[w][s]), CountInv(w)'
    PROVE  Holdings' /\ Counts'
<1>1. ASSUME NEW v \in Workers
      PROVE  LoopInv(v)' /\ CountInv(v)' /\ \A s \in Slots : ExecInv(exec'[v][s])
  <2>1. CASE v # w
    <3>1. /\ proc'[v] = proc[v] /\ loop'[v] = loop[v] /\ fetched'[v] = fetched[v]
          /\ active'[v] = active[v] /\ exec'[v] = exec[v]
      BY <2>1 DEF Others
    <3> QED BY <3>1 DEF Holdings, Counts, LoopInv, CountInv, Busy, NoClaim
  <2> QED BY <2>1
<1>2. Holdings'
  BY <1>1 DEF Holdings, ExecInv, Idle
<1> QED BY <1>1, <1>2 DEF Counts

\* A step that leaves the executions and the count of its process alone.
LEMMA ProcessMoves ==
    ASSUME WorkerTypeOK, Holdings, Counts, NEW w \in Workers, Others(w),
           UNCHANGED <<active, exec>>, LoopInv(w)',
           loop'[w] \in {"claiming", "claimed"} => active[w] < Concurrency
    PROVE  Holdings' /\ Counts'
<1>1. \A s \in Slots : ExecInv(exec'[w][s])
  BY DEF Holdings
<1>2. CountInv(w)'
  BY DEF Counts, CountInv, Busy
<1> QED BY <1>1, <1>2, OneProcess

LEMMA ExitsInv ==
    ASSUME WorkerTypeOK, Holdings, Counts, NEW w \in Workers, Exits(w),
           faults' \in 0 .. MaxFaults
    PROVE  WorkerTypeOK' /\ Holdings' /\ Counts'
<1>1. WorkerTypeOK'
  BY IdleTyped DEF WorkerTypeOK, Exits, Execution
<1>2. Others(w)
  BY DEF WorkerTypeOK, Exits, Others
<1>3. LoopInv(w)'
  BY DEF WorkerTypeOK, Exits, LoopInv, NoClaim
<1>4. \A s \in Slots : exec'[w][s] = Idle
  BY DEF WorkerTypeOK, Exits
<1>5. \A s \in Slots : ExecInv(exec'[w][s])
  BY <1>4 DEF ExecInv, Idle
<1>6. CountInv(w)'
  <2>1. Busy(w)' = {}
    BY <1>4 DEF Busy, Idle
  <2>2. active'[w] = 0 /\ loop'[w] = "exited"
    BY DEF WorkerTypeOK, Exits
  <2> QED BY <2>1, <2>2, FS_EmptySet, ConcurrencyAssumption DEF CountInv
<1> QED BY <1>1, <1>2, <1>3, <1>5, <1>6, OneProcess

\* Starting, stopping and runLoop up to the claim.
LEMMA LoopMoves ==
    ASSUME WorkerTypeOK, Holdings, Counts, NEW w \in Workers,
           \/ Start(w) \/ Stop(w) \/ LoopExits(w) \/ Polls(w)
           \/ ClaimFindsNothing(w) \/ ClaimErrors(w)
    PROVE  WorkerTypeOK' /\ Holdings' /\ Counts'
<1>1. LoopInv(w) /\ CountInv(w) /\ faults \in 0 .. MaxFaults
  BY DEF WorkerTypeOK, Holdings, Counts
<1>2. faults' \in 0 .. MaxFaults
  BY <1>1, FaultTyped DEF Start, Stop, LoopExits, Polls, ClaimFindsNothing, ClaimErrors
<1>3. UNCHANGED <<active, exec, fetched>>
  BY DEF Start, Stop, LoopExits, Polls, ClaimFindsNothing, ClaimErrors
<1>4. WorkerTypeOK'
  BY <1>2, <1>3 DEF WorkerTypeOK, Start, Stop, LoopExits, Polls, ClaimFindsNothing, ClaimErrors
<1>5. Others(w)
  BY <1>3 DEF WorkerTypeOK, Others, Start, Stop, LoopExits, Polls, ClaimFindsNothing, ClaimErrors
<1>6. LoopInv(w)'
  BY <1>1, <1>3 DEF WorkerTypeOK, LoopInv, NoClaim, Start, Stop, LoopExits, Polls,
                    ClaimFindsNothing, ClaimErrors
<1>7. loop'[w] \in {"claiming", "claimed"} => active[w] < Concurrency
  BY <1>1 DEF WorkerTypeOK, CountInv, Start, Stop, LoopExits, Polls,
              ClaimFindsNothing, ClaimErrors
<1> QED BY <1>3, <1>4, <1>5, <1>6, <1>7, ProcessMoves

LEMMA ClaimMoves ==
    ASSUME IInv, BudgetsAsked, WorkerTypeOK, Holdings, Counts,
           NEW w \in Workers, ClaimCommits(w)
    PROVE  WorkerTypeOK' /\ Holdings' /\ Counts'
<1>1. PICK j \in Jobs :
        /\ ClaimRow(j)
        /\ fetched' = [fetched EXCEPT ![w] = [job |-> j, attempt |-> job[j].attempts + 1]]
  BY DEF ClaimCommits
<1>2. job[j].attempts + 1 \in Results /\ job[j].attempts + 1 \in Nat
  BY <1>1, ClaimedAttempt, ResultsAssumption DEF ClaimRow
<1>3. /\ loop[w] = "claiming" /\ loop' = [loop EXCEPT ![w] = "claimed"]
      /\ UNCHANGED <<proc, active, exec, faults>>
  BY DEF ClaimCommits
<1>4. WorkerTypeOK'
  BY <1>1, <1>2, <1>3 DEF WorkerTypeOK
<1>5. Others(w)
  BY <1>1, <1>3 DEF WorkerTypeOK, Others
<1>6. LoopInv(w)'
  BY <1>1, <1>2, <1>3 DEF WorkerTypeOK, Holdings, LoopInv
<1>7. active[w] < Concurrency
  BY <1>3 DEF Counts, CountInv
<1> QED BY <1>3, <1>4, <1>5, <1>6, <1>7, ProcessMoves

\* The claim becomes an execution, in a slot that was free.
LEMMA ClaimReturnsMoves ==
    ASSUME WorkerTypeOK, Holdings, Counts, NEW w \in Workers, ClaimReturns(w)
    PROVE  WorkerTypeOK' /\ Holdings' /\ Counts'
<1> DEFINE e == [pc |-> IF fetched[w].job \in Unhandled THEN "failing" ELSE "started",
                 job |-> fetched[w].job, attempt |-> fetched[w].attempt,
                 result |-> NoOutput]
           s == FreeSlot(w)
<1>1. LoopInv(w) /\ CountInv(w) /\ active[w] \in Nat /\ active[w] < Concurrency
  BY DEF WorkerTypeOK, Holdings, Counts, CountInv, ClaimReturns
<1>2. s \in Slots /\ s \notin Busy(w)
  BY <1>1, FreeSlotIsFree
<1>3. e \in Execution /\ ExecInv(e) /\ e.pc # "idle"
  BY <1>1 DEF WorkerTypeOK, Execution, LoopInv, ExecInv, ClaimReturns, NoOutput
<1>4. /\ exec' = [exec EXCEPT ![w][s] = e]
      /\ active' = [active EXCEPT ![w] = @ + 1]
      /\ fetched' = [fetched EXCEPT ![w] = NoClaim]
      /\ loop' = [loop EXCEPT ![w] = "top"]
      /\ loop[w] = "claimed" /\ UNCHANGED <<proc, faults>>
  BY DEF ClaimReturns
<1> HIDE DEF e, s
<1>5. WorkerTypeOK'
  BY <1>1, <1>2, <1>3, <1>4, IdleTyped DEF WorkerTypeOK, Execution
<1>6. Others(w)
  BY <1>4 DEF WorkerTypeOK, Others
<1>7. LoopInv(w)'
  BY <1>1, <1>4 DEF WorkerTypeOK, LoopInv, NoClaim
<1>8. \A t \in Slots : exec'[w][t] = IF t = s THEN e ELSE exec[w][t]
  BY <1>2, <1>4 DEF WorkerTypeOK
<1>9. \A t \in Slots : ExecInv(exec'[w][t])
  BY <1>3, <1>8 DEF Holdings
<1>10. CountInv(w)'
  <2>1. Busy(w)' = Busy(w) \cup {s}
    BY <1>2, <1>3, <1>8 DEF Busy
  <2>2. Cardinality(Busy(w) \cup {s}) = Cardinality(Busy(w)) + 1
    BY <1>2, FiniteSlots, FS_AddElement
  <2>3. active'[w] = active[w] + 1 /\ loop'[w] = "top"
    BY <1>4 DEF WorkerTypeOK
  <2> QED BY <1>1, <2>1, <2>2, <2>3, ConcurrencyAssumption DEF CountInv
<1> QED BY <1>5, <1>6, <1>7, <1>9, <1>10, OneProcess

\* An execution that goes on in its slot.
LEMMA SlotMoves ==
    ASSUME WorkerTypeOK, Holdings, Counts, NEW w \in Workers, NEW s \in Slots,
           NEW e \in Execution, e.pc # "idle", ExecInv(e), exec[w][s].pc # "idle",
           \A v \in Workers, t \in Slots :
               exec'[v][t] = IF v = w /\ t = s THEN e ELSE exec[v][t],
           exec' \in [Workers -> [Slots -> Execution]],
           UNCHANGED <<proc, loop, fetched, active>>, faults' \in 0 .. MaxFaults
    PROVE  WorkerTypeOK' /\ Holdings' /\ Counts'
<1>1. WorkerTypeOK'
  BY DEF WorkerTypeOK, Execution
<1>2. \A t \in Slots : ExecInv(exec'[w][t])
  BY DEF Holdings
<1>3. ASSUME NEW v \in Workers PROVE Busy(v)' = Busy(v)
  BY DEF Busy
<1>4. Counts'
  BY <1>3 DEF Counts, CountInv
<1>5. Holdings'
  BY DEF Holdings, LoopInv, NoClaim, ExecInv, Idle
<1> QED BY <1>1, <1>4, <1>5

LEMMA WorkMoves ==
    ASSUME TypeOK, WorkerTypeOK, Holdings, Counts, NEW w \in Workers, NEW s \in Slots,
           \/ HandlerStarts(w, s) \/ HandlerReturns(w, s) \/ HandlerThrows(w, s)
           \/ CompleteErrors(w, s)
    PROVE  WorkerTypeOK' /\ Holdings' /\ Counts'
<1>1. /\ exec \in [Workers -> [Slots -> Execution]] /\ faults \in 0 .. MaxFaults
      /\ exec[w][s] \in Execution /\ ExecInv(exec[w][s]) /\ exec[w][s].pc # "idle"
  BY DEF WorkerTypeOK, Execution, Holdings, HandlerStarts, HandlerReturns,
         HandlerThrows, CompleteErrors, At
<1>2. /\ UNCHANGED <<proc, loop, fetched, active>> /\ faults' \in 0 .. MaxFaults
  BY <1>1, FaultTyped DEF HandlerStarts, HandlerReturns, HandlerThrows, CompleteErrors
<1>3. PICK e \in Execution :
        e.pc # "idle" /\ ExecInv(e) /\ exec' = [exec EXCEPT ![w][s] = e]
  <2>1. ASSUME NEW pc \in {"working", "completing", "failing"}, NEW r \in Nat,
               pc = "completing" => r \in Results,
               exec' = [exec EXCEPT ![w][s].pc = pc, ![w][s].result = r]
        PROVE  \E e \in Execution :
                  e.pc # "idle" /\ ExecInv(e) /\ exec' = [exec EXCEPT ![w][s] = e]
    <3> DEFINE e == [exec[w][s] EXCEPT !.pc = pc, !.result = r]
    <3>1. e \in Execution /\ e.pc # "idle" /\ ExecInv(e)
      BY <1>1, <2>1 DEF Execution, ExecInv
    <3>2. exec' = [exec EXCEPT ![w][s] = e]
      BY <1>1, <2>1
    <3> QED BY <3>1, <3>2
  <2>2. CASE HandlerStarts(w, s)
    <3> DEFINE j == exec[w][s].job
               stored == j \in Caching /\ output[j] # NoOutput
               pc == IF stored THEN "completing" ELSE "working"
               r == IF stored THEN output[j] ELSE NoOutput
    <3>1. r \in Nat /\ (pc = "completing" => r \in Results)
      BY <1>1, ResultsAssumption DEF TypeOK, ExecInv, NoOutput
    <3>2. exec' = [exec EXCEPT ![w][s].pc = pc, ![w][s].result = r]
      BY <2>2 DEF HandlerStarts
    <3> QED BY <2>1, <3>1, <3>2
  <2>3. CASE HandlerReturns(w, s)
    <3>1. exec[w][s].attempt \in Nat /\ exec[w][s].attempt \in Results
      BY <1>1, ResultsAssumption DEF ExecInv
    <3> QED BY <2>1, <2>3, <3>1 DEF HandlerReturns
  <2>4. CASE HandlerThrows(w, s) \/ CompleteErrors(w, s)
    <3>1. exec' = [exec EXCEPT ![w][s].pc = "failing"]
      BY <2>4 DEF HandlerThrows, CompleteErrors, Goes
    <3> DEFINE e == [exec[w][s] EXCEPT !.pc = "failing"]
    <3>2. e \in Execution /\ e.pc # "idle" /\ ExecInv(e)
      BY <1>1 DEF Execution, ExecInv
    <3> QED BY <3>1, <3>2
  <2> QED BY <2>2, <2>3, <2>4
<1>4. exec' \in [Workers -> [Slots -> Execution]]
  BY <1>1, <1>3
<1>5. \A v \in Workers, t \in Slots :
         exec'[v][t] = IF v = w /\ t = s THEN e ELSE exec[v][t]
  BY <1>1, <1>3
<1> QED BY <1>1, <1>2, <1>3, <1>4, <1>5, SlotMoves

\* An execution that settles gives back its slot and its count.
LEMMA SettleMoves ==
    ASSUME WorkerTypeOK, Holdings, Counts, NEW w \in Workers, NEW s \in Slots,
           exec[w][s].pc # "idle", Settles(w, s),
           UNCHANGED <<proc, loop, fetched, faults>>
    PROVE  WorkerTypeOK' /\ Holdings' /\ Counts'
<1>1. /\ exec \in [Workers -> [Slots -> Execution]] /\ active \in [Workers -> Nat]
      /\ CountInv(w) /\ active[w] \in Nat
  BY DEF WorkerTypeOK, Execution, Counts
<1>2. /\ exec' \in [Workers -> [Slots -> Execution]]
      /\ \A t \in Slots : exec'[w][t] = IF t = s THEN Idle ELSE exec[w][t]
  BY <1>1, IdleTyped DEF Settles
<1>3. s \in Busy(w) /\ Busy(w)' = Busy(w) \ {s}
  BY <1>2 DEF Busy, Idle
<1>4. /\ Cardinality(Busy(w) \ {s}) = Cardinality(Busy(w)) - 1
      /\ Cardinality(Busy(w) \ {s}) \in Nat
  BY <1>3, FiniteSlots, FS_RemoveElement, FS_CardinalityType
<1>5. active'[w] = active[w] - 1 /\ active' \in [Workers -> Nat]
  BY <1>1, <1>4 DEF Settles, CountInv
<1>6. WorkerTypeOK'
  BY <1>2, <1>5 DEF WorkerTypeOK, Execution
<1>7. Others(w)
  BY <1>1 DEF Settles, Others
<1>8. LoopInv(w)'
  BY DEF Holdings, LoopInv, NoClaim
<1>9. \A t \in Slots : ExecInv(exec'[w][t])
  BY <1>2 DEF Holdings, ExecInv, Idle
<1>10. CountInv(w)'
  BY <1>1, <1>3, <1>4, <1>5, ConcurrencyAssumption DEF CountInv
<1> QED BY <1>6, <1>7, <1>8, <1>9, <1>10, OneProcess

LEMMA WorkersWait ==
    ASSUME WorkerTypeOK, Holdings, Counts, UNCHANGED workerVars, faults' \in 0 .. MaxFaults
    PROVE  WorkerTypeOK' /\ Holdings' /\ Counts'
<1>1. WorkerTypeOK'
  BY DEF workerVars, WorkerTypeOK
<1>2. Holdings'
  BY DEF workerVars, Holdings, LoopInv, ExecInv, NoClaim, Idle
<1>3. Counts'
  BY DEF workerVars, Counts, CountInv, Busy
<1> QED BY <1>1, <1>2, <1>3

LEMMA WorkerInv ==
    ASSUME SystemInv, NEW w \in Workers, WorkerNext(w)
    PROVE  WorkerTypeOK' /\ Holdings' /\ Counts'
<1> USE DEF SystemInv
<1>0. IInv /\ TypeOK /\ BudgetsAsked /\ WorkerTypeOK /\ Holdings /\ Counts
  BY DEF IInv
<1>1. CASE \/ Start(w) \/ Stop(w) \/ LoopExits(w) \/ Polls(w)
           \/ ClaimFindsNothing(w) \/ ClaimErrors(w)
  BY <1>0, <1>1, LoopMoves
<1>2. CASE Kill(w) \/ StopDrained(w) \/ StopGivesUp(w)
  <2>1. faults \in 0 .. MaxFaults
    BY <1>0 DEF WorkerTypeOK
  <2>2. faults' \in 0 .. MaxFaults /\ Exits(w)
    BY <1>2, <2>1, FaultTyped DEF Kill, StopDrained, StopGivesUp
  <2> QED BY <1>0, <2>2, ExitsInv
<1>3. CASE ClaimCommits(w)
  BY <1>0, <1>3, ClaimMoves
<1>4. CASE ClaimReturns(w)
  BY <1>0, <1>4, ClaimReturnsMoves
<1>5. ASSUME NEW s \in Slots,
             \/ HandlerStarts(w, s) \/ HandlerReturns(w, s) \/ HandlerThrows(w, s)
             \/ CompleteErrors(w, s)
      PROVE  WorkerTypeOK' /\ Holdings' /\ Counts'
  BY <1>0, <1>5, WorkMoves
<1>6. ASSUME NEW s \in Slots, CompleteCommits(w, s) \/ FailCommits(w, s)
      PROVE  WorkerTypeOK' /\ Holdings' /\ Counts'
  <2>1. /\ exec[w][s].pc # "idle" /\ Settles(w, s)
        /\ UNCHANGED <<proc, loop, fetched, faults>>
    BY <1>6 DEF CompleteCommits, FailCommits, At
  <2> QED BY <1>0, <2>1, SettleMoves
<1>7. ASSUME NEW s \in Slots, FailErrors(w, s)
      PROVE  WorkerTypeOK' /\ Holdings' /\ Counts'
  <2>1. faults \in 0 .. MaxFaults
    BY <1>0 DEF WorkerTypeOK
  <2>2. faults' \in 0 .. MaxFaults /\ Exits(w)
    BY <1>7, <2>1, FaultTyped DEF FailErrors
  <2> QED BY <1>0, <2>2, ExitsInv
<1>8. CASE UNCHANGED <<workerVars, faults>>
  <2>1. faults' \in 0 .. MaxFaults
    BY <1>0, <1>8 DEF WorkerTypeOK
  <2> QED BY <1>0, <1>8, <2>1, WorkersWait
<1>9. Sweeps(w) => UNCHANGED <<workerVars, faults>>
  BY DEF Sweeps
<1>10. \A s \in Slots : Heartbeats(w, s) => UNCHANGED <<workerVars, faults>>
  BY DEF Heartbeats
<1> QED
  BY <1>1, <1>2, <1>3, <1>4, <1>5, <1>6, <1>7, <1>8, <1>9, <1>10
     DEF WorkerNext, LoopStep, ExecStep

-----------------------------------------------------------------------------
(***************************************************************************)
(* The requests.                                                           *)
(***************************************************************************)

ApiInv == ApiTypeOK /\ (\A r \in Requests : RequestInv(r)) /\ OneCreatorPerKey

Entry == [pc : {"sent", "conflict", "resetting", "done"},
          job : Jobs \cup {NoTarget}, reply : Replies]

\* A request that moves on; the one that is told it created a row is alone.
LEMMA RequestMoves ==
    ASSUME ApiInv, NEW r \in Requests, NEW e \in Entry, req' = [req EXCEPT ![r] = e],
           \A j \in Jobs : Exists(j) => Exists(j)',
           e.pc \in {"conflict", "resetting"} => e.job \in Jobs,
           e.reply = "created" => e.job \in Jobs /\ Exists(e.job)' /\ ~Exists(e.job)
    PROVE  ApiInv'
<1>1. ApiTypeOK'
  BY DEF ApiInv, ApiTypeOK, Entry
<1>2. \A q \in Requests : req'[q] = IF q = r THEN e ELSE req[q]
  BY DEF ApiInv, ApiTypeOK
<1>3. ASSUME NEW q \in Requests PROVE RequestInv(q)'
  <2>1. CASE q = r
    BY <1>2, <2>1 DEF RequestInv, Exists
  <2>2. CASE q # r
    BY <1>2, <2>2 DEF ApiInv, RequestInv, Exists
  <2> QED BY <2>1, <2>2
<1>4. OneCreatorPerKey'
  BY <1>2 DEF ApiInv, RequestInv, OneCreatorPerKey
<1> QED BY <1>1, <1>3, <1>4 DEF ApiInv

LEMMA RequestsWait ==
    ASSUME ApiInv, UNCHANGED req, \A j \in Jobs : Exists(j) => Exists(j)'
    PROVE  ApiInv'
  BY DEF ApiInv, ApiTypeOK, RequestInv, OneCreatorPerKey, Exists

LEMMA RequestsInv ==
    ASSUME TypeOK, ApiInv, ApiNext, \A j \in Jobs : Exists(j) => Exists(j)'
    PROVE  ApiInv'
<1>1. ASSUME NEW r \in Requests, NEW j \in Jobs \cup {NoTarget},
             NEW reply \in Replies \ {"created"}, Answers(r, j, reply)
      PROVE  ApiInv'
  <2> DEFINE e == [pc |-> "done", job |-> j, reply |-> reply]
  <2>1. e \in Entry /\ e.pc = "done" /\ e.reply # "created"
    BY DEF Entry
  <2> QED BY <1>1, <2>1, RequestMoves DEF Answers
<1>2. ASSUME NEW r \in Requests, NEW j \in Jobs, NEW pc \in {"conflict", "resetting"},
             Waits(r, j, pc)
      PROVE  ApiInv'
  <2> DEFINE e == [pc |-> pc, job |-> j, reply |-> "none"]
  <2>1. e \in Entry /\ e.reply # "created" /\ e.job \in Jobs
    BY DEF Entry, Replies
  <2> QED BY <1>2, <2>1, RequestMoves DEF Waits
<1>3. ASSUME NEW r \in EnqueueRequests, EnqueueInserts(r) PROVE ApiInv'
  <2>1. PICK j \in Jobs, b \in Budgets, d \in BOOLEAN :
               EnqueueRow(j, b, d) /\ Commits(r, j, "created")
    BY <1>3 DEF EnqueueInserts
  <2>2. r \in Requests /\ "error" \in Replies \ {"created"}
    BY DEF Requests, Replies
  <2>3. CASE Answers(r, j, "created")
    <3> DEFINE e == [pc |-> "done", job |-> j, reply |-> "created"]
    <3>1. e \in Entry /\ e.pc = "done" /\ e.job = j
      BY DEF Entry, Replies
    <3>2. ~Exists(j) /\ Exists(j)'
      BY <2>1 DEF EnqueueRow, Exists, TypeOK
    <3>3. req' = [req EXCEPT ![r] = e]
      BY <2>3 DEF Answers
    <3> QED BY <2>2, <3>1, <3>2, <3>3, RequestMoves
  <2>4. CASE Answers(r, j, "error")
    BY <1>1, <2>2, <2>4
  <2> QED BY <2>1, <2>3, <2>4 DEF Commits
<1>4. ASSUME NEW r \in EnqueueRequests, EnqueueConflicts(r) \/ EnqueueReads(r)
      PROVE  ApiInv'
  <2>1. r \in Requests /\ req[r].job \in Jobs \cup {NoTarget}
    BY DEF Requests, ApiInv, ApiTypeOK
  <2>2. EnqueueReads(r) => Answers(r, req[r].job, "duplicate") \/ Answers(r, req[r].job, "error")
    BY DEF EnqueueReads
  <2> QED BY <1>1, <1>2, <1>4, <2>1, <2>2 DEF EnqueueConflicts, Replies
<1>5. ASSUME NEW r \in RetryRequests, RetryReads(r) \/ RetryResets(r)
      PROVE  ApiInv'
  <2>1. r \in Requests /\ req[r].job \in Jobs \cup {NoTarget}
    BY DEF Requests, ApiInv, ApiTypeOK
  <2>2. CASE RetryReads(r)
    <3>1. PICK j \in Jobs : \/ Answers(r, j, "notFound") \/ Waits(r, j, "resetting")
                            \/ Answers(r, j, "notDead")
      BY <2>2 DEF RetryReads
    <3> QED BY <1>1, <1>2, <2>1, <3>1 DEF Replies
  <2>3. CASE RetryResets(r)
    <3>1. Answers(r, req[r].job, "reset") \/ Answers(r, req[r].job, "error")
      BY <2>3 DEF RetryResets, Commits
    <3> QED BY <1>1, <2>1, <3>1 DEF Replies
  <2> QED BY <1>5, <2>2, <2>3
<1>6. ASSUME NEW r \in Requests, RequestErrors(r) PROVE ApiInv'
  <2>1. req[r].job \in Jobs \cup {NoTarget}
    BY DEF ApiInv, ApiTypeOK
  <2> QED BY <1>1, <1>6, <2>1 DEF RequestErrors, Replies
<1> QED BY <1>3, <1>4, <1>5, <1>6 DEF ApiNext

-----------------------------------------------------------------------------
(***************************************************************************)
(* The system.                                                             *)
(***************************************************************************)

LEMMA SystemInit == Init => SystemInv
<1> SUFFICES ASSUME Init PROVE SystemInv
  OBVIOUS
<1> USE DEF Init
<1>1. IInv
  BY InitInv
<1>2. BudgetsAsked
  BY DEF TableInit, BudgetsAsked, Exists, NoRow
<1>3. WorkerTypeOK
  BY IdleTyped, FaultsAssumption DEF WorkerInit, WorkerTypeOK, Execution
<1>4. Holdings
  BY DEF WorkerInit, Holdings, LoopInv, ExecInv, Idle
<1>5. Counts
  <2> SUFFICES ASSUME NEW w \in Workers PROVE CountInv(w)
    BY DEF Counts
  <2>1. Busy(w) = {}
    BY DEF WorkerInit, Busy, Idle
  <2> QED BY <2>1, FS_EmptySet, ConcurrencyAssumption DEF WorkerInit, CountInv
<1>6. ApiTypeOK /\ (\A r \in Requests : RequestInv(r)) /\ OneCreatorPerKey
  BY DEF ApiInit, ApiTypeOK, RequestInv, OneCreatorPerKey, Replies
<1> QED BY <1>1, <1>2, <1>3, <1>4, <1>5, <1>6 DEF SystemInv

LEMMA SystemStep == SystemInv /\ [Next]_vars => SystemInv'
<1> SUFFICES ASSUME SystemInv, [Next]_vars PROVE SystemInv'
  OBVIOUS
<1>1. IInv' /\ BudgetsAsked' /\ TypeOK /\ ApiInv
  BY TableInv DEF SystemInv, ApiInv, IInv
<1>2. \A j \in Jobs : Exists(j) => Exists(j)'
  BY TableStep, RowsPersist DEF SystemInv
<1>3. UNCHANGED workerVars /\ faults' \in 0 .. MaxFaults
        => WorkerTypeOK' /\ Holdings' /\ Counts'
  BY WorkersWait DEF SystemInv
<1>4. CASE UNCHANGED vars
  <2>1. UNCHANGED <<workerVars, req>> /\ faults' \in 0 .. MaxFaults
    BY <1>4 DEF vars, SystemInv, WorkerTypeOK
  <2>2. ApiInv'
    BY <1>1, <1>2, <2>1, RequestsWait
  <2> QED BY <1>1, <1>3, <2>1, <2>2 DEF SystemInv, ApiInv
<1>5. ASSUME NEW w \in Workers, WorkerNext(w), UNCHANGED req PROVE SystemInv'
  BY <1>1, <1>2, <1>5, WorkerInv, RequestsWait DEF SystemInv, ApiInv
<1>6. CASE ApiNext /\ UNCHANGED workerVars
  <2>1. faults \in 0 .. MaxFaults
    BY DEF SystemInv, WorkerTypeOK
  <2>2. faults' \in 0 .. MaxFaults
    BY <1>6, <2>1, FaultTyped
       DEF ApiNext, EnqueueInserts, EnqueueConflicts, EnqueueReads, RetryReads,
           RetryResets, RequestErrors, Commits
  <2>3. ApiInv'
    BY <1>1, <1>2, <1>6, RequestsInv
  <2> QED BY <1>1, <1>3, <1>6, <2>2, <2>3 DEF SystemInv, ApiInv
<1>7. ASSUME NEW j \in Jobs, Ages(j) \/ DueNow(j) PROVE SystemInv'
  <2>1. UNCHANGED <<workerVars, req>> /\ faults \in 0 .. MaxFaults
    BY <1>7 DEF Ages, DueNow, SystemInv, WorkerTypeOK
  <2>2. faults' \in 0 .. MaxFaults
    BY <1>7, <2>1, FaultTyped DEF Ages, DueNow
  <2>3. ApiInv'
    BY <1>1, <1>2, <2>1, RequestsWait
  <2> QED BY <1>1, <1>3, <2>1, <2>2, <2>3 DEF SystemInv, ApiInv
<1> QED BY <1>4, <1>5, <1>6, <1>7 DEF Next

\* The inductive invariant holds in every behaviour of the deployed system.
THEOREM SystemInvariant == Spec => []SystemInv
  BY SystemInit, SystemStep, PTL DEF Spec

\* The processes do to the tables only what TableSpec allows: no worker, live,
\* stalled or stopping, and no request writes a row otherwise than by a
\* statement of the queue, on a job, with a result of one of its attempts.
THEOREM SystemImplementsTable == Spec => ImplementsTable
<1>1. Init => TableInit
  BY DEF Init
<1>2. SystemInv /\ [Next]_vars => [TableNext]_tableVars
  BY TableStep
<1> QED BY <1>1, <1>2, SystemInvariant, PTL DEF Spec, ImplementsTable, TableSpec

\* So the budget of a job bounds its hand-outs by all the workers together.
THEOREM SystemKeepsBudgets == Spec => []ClaimsWithinBudget
  BY SystemImplementsTable, HandedOutWithinBudget, PTL DEF ImplementsTable

\* activeJobsCount is the number of executions in progress, and never above the
\* cap, for any concurrency and whatever becomes of the executions.
THEOREM CountIsExact == Spec => []CountKeepsCap
<1>1. SystemInv => CountKeepsCap
  BY DEF SystemInv, Counts, CountInv, CountKeepsCap
<1> QED BY <1>1, SystemInvariant, PTL

\* However many clients race on a key, one is told that it created the job.
THEOREM OneCreator == Spec => []OneCreatorPerKey
<1>1. SystemInv => OneCreatorPerKey
  BY DEF SystemInv
<1> QED BY <1>1, SystemInvariant, PTL

\* The variables of the system stay in their domains.
THEOREM SystemTyped == Spec => []SystemTypeOK
<1>1. SystemInv => SystemTypeOK
  BY DEF SystemInv, IInv, SystemTypeOK
<1> QED BY <1>1, SystemInvariant, PTL

-----------------------------------------------------------------------------
(***************************************************************************)
(* The retry.                                                              *)
(***************************************************************************)

\* There may be any number of retries, but no two are between their read and
\* their reset of the same row: two operators do not click at the same moment.
RetriesTakeTurns ==
    \A r, q \in RetryRequests :
        req[r].pc = "resetting" /\ req[q].pc = "resetting" /\ req[r].job = req[q].job
            => r = q

\* The row a retry has read as dead is still dead when it is reset.
DeadWaits ==
    \A r \in RetryRequests : req[r].pc = "resetting" => job[req[r].job].status = "dead"

\* No report, late or not, takes a row out of the dead-letter queue.
LEMMA DeadStays ==
    ASSUME IInv, NEW j \in Jobs, job[j].status = "dead", [Reports]_tableVars
    PROVE  job'[j].status = "dead"
<1>0. /\ TypeOK /\ job \in [Jobs -> Row] /\ job[j] \in Row
      /\ job[j].attempts \in Nat /\ job[j].maxAttempts \in Nat
      /\ job[j].attempts >= job[j].maxAttempts
  BY DEF IInv, TypeOK, RowInv, Exists, Row
<1>1. CASE UNCHANGED tableVars
  BY <1>1 DEF tableVars
<1>2. ASSUME NEW k \in Jobs, NEW b \in Budgets, NEW d \in BOOLEAN, EnqueueRow(k, b, d)
      PROVE  job'[j] = job[j]
  BY <1>0, <1>2 DEF EnqueueRow, Exists
<1>3. ASSUME NEW k \in Jobs,
             ClaimRow(k) \/ BeatRow(k) \/ RunAtArrives(k) \/ BeatAges(k)
      PROVE  job'[j] = job[j]
  BY <1>0, <1>3 DEF ClaimRow, Claimable, CLAIMABLE_STATUSES, BeatRow, RunAtArrives, BeatAges
<1>4. ASSUME NEW k \in Jobs, FailRow(k) PROVE job'[j].status = "dead"
  BY <1>0, <1>4, ChargeEffect
<1>5. ASSUME NEW k \in Jobs, NEW r \in Results, CompleteRow(k, r)
      PROVE  job'[j] = job[j]
  BY <1>0, <1>5 DEF CompleteRow
<1>6. ASSUME NEW S \in SUBSET Jobs, SweepRows(S) PROVE job'[j] = job[j]
  BY <1>0, <1>6, SweepEffect DEF Stuck
<1> QED BY <1>1, <1>2, <1>3, <1>4, <1>5, <1>6 DEF Reports

LEMMA DeadWaitsKept ==
    ASSUME RetriesTakeTurns, SystemInv, DeadWaits, [Next]_vars
    PROVE  DeadWaits'
<1>0. /\ IInv /\ req \in [Requests -> Entry] /\ RetryRequests \subseteq Requests
  BY DEF SystemInv, ApiTypeOK, Entry, Requests
<1> SUFFICES ASSUME NEW r \in RetryRequests, req'[r].pc = "resetting"
             PROVE  job'[req'[r].job].status = "dead"
  BY DEF DeadWaits
<1>1. CASE req'[r] # req[r]
  <2>1. ApiNext
    BY <1>1 DEF Next, vars, Ages, DueNow
  <2>2. ASSUME NEW q \in EnqueueRequests,
               EnqueueInserts(q) \/ EnqueueConflicts(q) \/ EnqueueReads(q)
        PROVE  FALSE
    BY <1>0, <1>1, <2>2, RequestsAssumption
       DEF EnqueueInserts, EnqueueConflicts, EnqueueReads, Commits, Answers, Waits
  <2>3. ASSUME NEW q \in RetryRequests, RetryReads(q)
        PROVE  job'[req'[r].job].status = "dead"
    <3>1. PICK j \in Jobs : \/ Answers(q, j, "notFound") \/ Answers(q, j, "notDead")
                            \/ Waits(q, j, "resetting") /\ job[j].status = "dead"
      BY <2>3 DEF RetryReads
    <3>2. q = r /\ UNCHANGED job
      BY <1>0, <1>1, <2>3, <3>1 DEF RetryReads, tableVars, Answers, Waits
    <3> QED BY <1>0, <3>1, <3>2 DEF Answers, Waits
  <2>4. ASSUME NEW q \in RetryRequests, RetryResets(q) PROVE FALSE
    <3>1. q = r
      BY <1>0, <1>1, <2>4 DEF RetryResets, Commits, Answers
    <3> QED BY <1>0, <2>4, <3>1 DEF RetryResets, Commits, Answers
  <2>5. ASSUME NEW q \in Requests, RequestErrors(q) PROVE FALSE
    BY <1>0, <1>1, <2>5 DEF RequestErrors, Answers
  <2> QED BY <2>1, <2>2, <2>3, <2>4, <2>5 DEF ApiNext
<1>2. CASE req'[r] = req[r]
  <2>1. req[r].job \in Jobs /\ job[req[r].job].status = "dead"
    BY <1>0, <1>2 DEF SystemInv, RequestInv, DeadWaits
\* Another retry resets another row.
  <2>2. ASSUME NEW q \in RetryRequests, RetryResets(q)
        PROVE  job'[req[r].job].status = "dead"
    <3>1. q # r /\ req[q].pc = "resetting"
      BY <1>0, <1>2, <2>2 DEF RetryResets, Commits, Answers
    <3>2. req[q].job # req[r].job
      BY <1>2, <3>1 DEF RetriesTakeTurns
    <3> QED BY <2>1, <2>2, <3>2 DEF RetryResets, RetryRow
  <2>3. CASE [Reports]_tableVars
    BY <1>0, <1>2, <2>1, <2>3, DeadStays
  <2> QED BY <1>2, <2>2, <2>3, ReportOrReset
<1> QED BY <1>1, <1>2
=============================================================================
