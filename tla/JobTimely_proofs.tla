-------------------------- MODULE JobTimely_proofs --------------------------
(***************************************************************************)
(* What JobSystem's ownership properties rest on in a timely environment:  *)
(* no stall, no lost reply, no two retries of one job at the same time.    *)
(* Crashes, signals and failed statements are as many as there may be;     *)
(* jobs, workers, concurrency and requests are any.                        *)
(***************************************************************************)
EXTENDS JobSystem_proofs

Timely == "stall" \notin Faults /\ "lostReply" \notin Faults

\* A process holds claims in its slots and, while a reply is on its way, in
\* the hand 0.
Hands == {0} \cup Slots
HeldJob(w, h) == IF h = 0 THEN fetched[w].job ELSE exec[w][h].job
HeldAttempt(w, h) == IF h = 0 THEN fetched[w].attempt ELSE exec[w][h].attempt

\* The row of a held claim is in processing at the attempt claimed, and fresh.
OwnRow(w, h) ==
    HeldJob(w, h) \in Jobs =>
        LET row == job[HeldJob(w, h)]
        IN  /\ row.status = "processing" /\ row.beat # "stale"
            /\ HeldAttempt(w, h) = row.attempts + 1

HoldersOwn == \A w \in Workers, h \in Hands : OwnRow(w, h)

\* No two hands hold the same job.
HoldersAlone ==
    \A w, v \in Workers : \A h, g \in Hands :
        HeldJob(w, h) \in Jobs /\ HeldJob(w, h) = HeldJob(v, g) => w = v /\ h = g

TimelyInv ==
    HoldersOwn /\ HoldersAlone /\ DeadWaits /\ ClaimsAccounted /\ OutputMeansDone

-----------------------------------------------------------------------------
(***************************************************************************)
(* The statements a timely system issues: reports come from the owner of   *)
(* the row, resets hit dead rows.                                          *)
(***************************************************************************)

OwnedReports ==
    \/ \E j \in Jobs, b \in Budgets, d \in BOOLEAN : EnqueueRow(j, b, d)
    \/ \E j \in Jobs : ClaimRow(j)
    \/ \E j \in Jobs : BeatRow(j) \/ RunAtArrives(j) \/ BeatAges(j)
    \/ \E j \in Jobs : job[j].status = "processing" /\ FailRow(j)
    \/ \E j \in Jobs, r \in Results : job[j].status = "processing" /\ CompleteRow(j, r)
    \/ \E S \in SUBSET Jobs : SweepRows(S)

OwnedNext ==
    OwnedReports \/ \E j \in Jobs, d \in BOOLEAN : job[j].status = "dead" /\ RetryRow(j, d)

LEMMA ExecutionsHold ==
    ASSUME Holdings, HoldersOwn, NEW w \in Workers, NEW s \in Slots,
           exec[w][s].pc # "idle"
    PROVE  /\ exec[w][s].job \in Jobs
           /\ job[exec[w][s].job].status = "processing"
           /\ exec[w][s].attempt = job[exec[w][s].job].attempts + 1
<1>1. exec[w][s].job \in Jobs
  BY DEF Holdings, ExecInv
<1>2. s \in Hands /\ s # 0
  BY ConcurrencyAssumption DEF Hands, Slots
<1>3. OwnRow(w, s)
  BY <1>2 DEF HoldersOwn
<1> QED BY <1>1, <1>2, <1>3 DEF OwnRow, HeldJob, HeldAttempt

LEMMA OwnedWorkerStep ==
    ASSUME Timely, Holdings, HoldersOwn, NEW w \in Workers, WorkerNext(w)
    PROVE  [OwnedReports]_tableVars
<1>1. CASE \/ Start(w) \/ Kill(w) \/ Stop(w) \/ StopDrained(w) \/ StopGivesUp(w)
           \/ LoopExits(w) \/ Polls(w) \/ ClaimFindsNothing(w) \/ ClaimReturns(w)
           \/ ClaimErrors(w)
  BY <1>1 DEF Start, Kill, Stop, StopDrained, StopGivesUp, LoopExits, Polls,
              ClaimFindsNothing, ClaimReturns, ClaimErrors, Timely, Fault
<1>2. CASE ClaimCommits(w)
  BY <1>2 DEF ClaimCommits, OwnedReports
<1>3. CASE Sweeps(w)
  BY <1>3 DEF Sweeps, OwnedReports
<1>4. ASSUME NEW s \in Slots,
             \/ HandlerStarts(w, s) \/ HandlerReturns(w, s) \/ HandlerThrows(w, s)
             \/ CompleteErrors(w, s) \/ FailErrors(w, s)
      PROVE  UNCHANGED tableVars
  BY <1>4 DEF HandlerStarts, HandlerReturns, HandlerThrows, CompleteErrors, FailErrors,
              Timely, Fault
<1>5. ASSUME NEW s \in Slots, CompleteCommits(w, s) PROVE OwnedReports
  <2>1. exec[w][s].pc # "idle" /\ exec[w][s].result \in Results
    BY <1>5 DEF CompleteCommits, At, Holdings, ExecInv
  <2> QED BY <1>5, <2>1, ExecutionsHold DEF CompleteCommits, OwnedReports
<1>6. ASSUME NEW s \in Slots, FailCommits(w, s) PROVE OwnedReports
  <2>1. exec[w][s].pc # "idle"
    BY <1>6 DEF FailCommits, At
  <2> QED BY <1>6, <2>1, ExecutionsHold DEF FailCommits, OwnedReports
<1>7. ASSUME NEW s \in Slots, Heartbeats(w, s) PROVE OwnedReports
  BY <1>7, ExecutionsHold DEF Heartbeats, OwnedReports
<1> QED
  BY <1>1, <1>2, <1>3, <1>4, <1>5, <1>6, <1>7 DEF WorkerNext, LoopStep, ExecStep

LEMMA OwnedReportOrReset ==
    ASSUME Timely, SystemInv, TimelyInv, [Next]_vars
    PROVE  \/ [OwnedReports]_tableVars
           \/ \E r \in RetryRequests :
                RetryResets(r) /\ req[r].job \in Jobs /\ job[req[r].job].status = "dead"
<1>1. CASE UNCHANGED vars
  BY <1>1 DEF vars
<1>2. ASSUME NEW w \in Workers, WorkerNext(w) PROVE [OwnedReports]_tableVars
  BY <1>2, OwnedWorkerStep DEF SystemInv, TimelyInv
<1>3. ASSUME NEW r \in EnqueueRequests,
             EnqueueInserts(r) \/ EnqueueConflicts(r) \/ EnqueueReads(r)
      PROVE  [OwnedReports]_tableVars
  BY <1>3 DEF EnqueueInserts, EnqueueConflicts, EnqueueReads, OwnedReports
<1>4. ASSUME NEW r \in RetryRequests, RetryReads(r) PROVE UNCHANGED tableVars
  BY <1>4 DEF RetryReads
<1>5. ASSUME NEW r \in RetryRequests, RetryResets(r)
      PROVE  req[r].job \in Jobs /\ job[req[r].job].status = "dead"
  BY <1>5 DEF SystemInv, RequestInv, Requests, RetryResets, TimelyInv, DeadWaits
<1>6. ASSUME NEW r \in Requests, RequestErrors(r) PROVE UNCHANGED tableVars
  BY <1>6 DEF RequestErrors
<1>7. ASSUME NEW j \in Jobs, Ages(j) \/ DueNow(j) PROVE [OwnedReports]_tableVars
  BY <1>7 DEF Ages, DueNow, OwnedReports
<1> QED BY <1>1, <1>2, <1>3, <1>4, <1>5, <1>6, <1>7 DEF Next, ApiNext

LEMMA OwnedStep ==
    ASSUME Timely, SystemInv, TimelyInv, [Next]_vars
    PROVE  [OwnedNext]_tableVars
  BY OwnedReportOrReset DEF RetryResets, OwnedNext

-----------------------------------------------------------------------------
(***************************************************************************)
(* What those statements do to the books.                                  *)
(***************************************************************************)

Books(j) ==
    /\ claims[j] = job[j].attempts
         + (IF job[j].status \in {"processing", "succeeded"} THEN 1 ELSE 0)
    /\ output[j] # NoOutput => job[j].status = "succeeded"

LEMMA BooksKept ==
    ASSUME IInv, ClaimsAccounted, OutputMeansDone, [OwnedNext]_tableVars
    PROVE  ClaimsAccounted' /\ OutputMeansDone'
<1>0. /\ TypeOK /\ job \in [Jobs -> Row] /\ claims \in [Jobs -> Nat]
      /\ DOMAIN output = Jobs
  BY DEF IInv, TypeOK
<1> SUFFICES ASSUME NEW j \in Jobs PROVE Books(j)'
  BY DEF Books, ClaimsAccounted, OutputMeansDone
<1>1. Books(j) /\ job[j] \in Row /\ claims[j] \in Nat
  BY <1>0 DEF Books, ClaimsAccounted, OutputMeansDone
<1>2. CASE UNCHANGED tableVars
  BY <1>1, <1>2 DEF tableVars, Books
<1>3. ASSUME NEW k \in Jobs, NEW b \in Budgets, NEW d \in BOOLEAN, EnqueueRow(k, b, d)
      PROVE  Books(j)'
  <2>1. CASE k = j
    <3>1. claims[j] = 0 /\ ~Exists(j)
      BY <1>3, <2>1 DEF IInv, RowInv, EnqueueRow
    <3> QED BY <1>0, <1>1, <1>3, <2>1, <3>1 DEF EnqueueRow, Books, Exists
  <2>2. CASE k # j
    BY <1>0, <1>1, <1>3, <2>2 DEF EnqueueRow, Books
  <2> QED BY <2>1, <2>2
<1>4. ASSUME NEW k \in Jobs, ClaimRow(k) PROVE Books(j)'
  BY <1>0, <1>1, <1>4 DEF ClaimRow, Claimable, CLAIMABLE_STATUSES, Books, Row
<1>5. ASSUME NEW k \in Jobs, BeatRow(k) \/ RunAtArrives(k) \/ BeatAges(k)
      PROVE  Books(j)'
  <2>1. job'[j].status = job[j].status /\ job'[j].attempts = job[j].attempts
    BY <1>0, <1>1, <1>5 DEF BeatRow, RunAtArrives, BeatAges, Row
  <2>2. UNCHANGED <<output, claims>>
    BY <1>5 DEF BeatRow, RunAtArrives, BeatAges
  <2> QED BY <1>1, <2>1, <2>2 DEF Books
<1>6. ASSUME NEW k \in Jobs, job[k].status = "processing", FailRow(k) PROVE Books(j)'
  BY <1>0, <1>1, <1>6, ChargeEffect DEF Books, Row
<1>7. ASSUME NEW k \in Jobs, NEW r \in Results, job[k].status = "processing",
             CompleteRow(k, r)
      PROVE  Books(j)'
  BY <1>0, <1>1, <1>7 DEF CompleteRow, Books, Row
<1>8. ASSUME NEW S \in SUBSET Jobs, SweepRows(S) PROVE Books(j)'
  BY <1>0, <1>1, <1>8, SweepEffect DEF Books, Row, Stuck
<1>9. ASSUME NEW k \in Jobs, NEW d \in BOOLEAN, job[k].status = "dead", RetryRow(k, d)
      PROVE  Books(j)'
  BY <1>0, <1>1, <1>9 DEF RetryRow, Books, Row
<1> QED
  BY <1>2, <1>3, <1>4, <1>5, <1>6, <1>7, <1>8, <1>9
     DEF OwnedNext, OwnedReports

-----------------------------------------------------------------------------
(***************************************************************************)
(* What they do to the rows that are held.                                 *)
(***************************************************************************)

RowKept(j) ==
    /\ job'[j].status = job[j].status /\ job'[j].attempts = job[j].attempts
    /\ job[j].beat # "stale" => job'[j].beat # "stale"

\* Claims that are given up or kept, with their rows, stay owned and alone.
LEMMA HoldersKept ==
    ASSUME HoldersOwn, HoldersAlone,
           \A w \in Workers, h \in Hands :
               HeldJob(w, h)' \in Jobs =>
                   /\ HeldJob(w, h)' = HeldJob(w, h)
                   /\ HeldAttempt(w, h)' = HeldAttempt(w, h)
                   /\ RowKept(HeldJob(w, h))
    PROVE  HoldersOwn' /\ HoldersAlone'
<1>1. HoldersOwn'
  <2> SUFFICES ASSUME NEW w \in Workers, NEW h \in Hands, HeldJob(w, h)' \in Jobs
               PROVE  /\ job'[HeldJob(w, h)'].status = "processing"
                      /\ job'[HeldJob(w, h)'].beat # "stale"
                      /\ HeldAttempt(w, h)' = job'[HeldJob(w, h)'].attempts + 1
    BY DEF HoldersOwn, OwnRow, Hands, Slots
  <2>1. OwnRow(w, h) /\ HeldJob(w, h) \in Jobs
    BY DEF HoldersOwn
  <2> QED BY <2>1 DEF OwnRow, RowKept
<1>2. HoldersAlone'
  <2> SUFFICES ASSUME NEW w \in Workers, NEW v \in Workers, NEW h \in Hands, NEW g \in Hands,
                      HeldJob(w, h)' \in Jobs, HeldJob(w, h)' = HeldJob(v, g)'
               PROVE  w = v /\ h = g
    BY DEF HoldersAlone, Hands, Slots
  <2> QED BY DEF HoldersAlone
<1> QED BY <1>1, <1>2

Attends(j) == \E w \in Workers, h \in Hands : HeldJob(w, h) = j

LEMMA AttendedMeansHeld == \A j : Attended(j) <=> Attends(j)
<1> SUFFICES ASSUME NEW j PROVE Attended(j) <=> Attends(j)
  OBVIOUS
<1>1. \A s \in Slots : s # 0
  BY ConcurrencyAssumption DEF Slots
<1> QED BY <1>1 DEF Attended, Attends, Hands, HeldJob

\* A statement that is not a report on the row keeps a row that is held.
LEMMA OtherStatements ==
    ASSUME TypeOK, NEW j \in Jobs, job[j].status = "processing", job[j].beat # "stale",
           \/ UNCHANGED tableVars
           \/ \E k \in Jobs, b \in Budgets, d \in BOOLEAN : EnqueueRow(k, b, d)
           \/ \E k \in Jobs : ClaimRow(k) \/ BeatRow(k) \/ RunAtArrives(k)
           \/ \E k \in Jobs : k # j /\ BeatAges(k)
           \/ \E k \in Jobs : k # j /\ FailRow(k)
           \/ \E k \in Jobs, r \in Results : k # j /\ CompleteRow(k, r)
           \/ \E S \in SUBSET Jobs : SweepRows(S)
           \/ \E k \in Jobs, d \in BOOLEAN : job[k].status = "dead" /\ RetryRow(k, d)
    PROVE  RowKept(j)
<1>0. job \in [Jobs -> Row] /\ job[j] \in Row
  BY DEF TypeOK
<1>1. CASE \E k \in Jobs : k # j /\ FailRow(k)
  BY <1>1, ChargeEffect DEF RowKept
<1>2. CASE \E S \in SUBSET Jobs : SweepRows(S)
  BY <1>2, SweepEffect DEF RowKept, Stuck
<1>3. CASE \E k \in Jobs : ClaimRow(k) \/ BeatRow(k) \/ RunAtArrives(k)
  <2>1. ASSUME NEW k \in Jobs, ClaimRow(k) \/ RunAtArrives(k) PROVE job'[j] = job[j]
    BY <1>0, <2>1 DEF ClaimRow, Claimable, CLAIMABLE_STATUSES, RunAtArrives
  <2>2. ASSUME NEW k \in Jobs, BeatRow(k) PROVE RowKept(j)
    BY <1>0, <2>2 DEF BeatRow, RowKept, Row
  <2> QED BY <1>3, <2>1, <2>2 DEF RowKept
<1>4. CASE \E k \in Jobs : k # j /\ BeatAges(k)
  BY <1>0, <1>4 DEF RowKept, BeatAges
<1>5. CASE \E k \in Jobs, r \in Results : k # j /\ CompleteRow(k, r)
  BY <1>0, <1>5 DEF RowKept, CompleteRow
<1>6. CASE \E k \in Jobs, b \in Budgets, d \in BOOLEAN : EnqueueRow(k, b, d)
  BY <1>0, <1>6 DEF RowKept, EnqueueRow, Exists
<1>7. CASE \E k \in Jobs, d \in BOOLEAN : job[k].status = "dead" /\ RetryRow(k, d)
  BY <1>0, <1>7 DEF RowKept, RetryRow
<1>8. CASE UNCHANGED tableVars
  BY <1>8 DEF tableVars, RowKept
<1> QED BY <1>1, <1>2, <1>3, <1>4, <1>5, <1>6, <1>7, <1>8

\* An execution in slot s, seen as the hand s.
LEMMA SlotIsHand ==
    ASSUME NEW w \in Workers, NEW s \in Slots
    PROVE  /\ s \in Hands /\ s # 0
           /\ HeldJob(w, s) = exec[w][s].job /\ HeldAttempt(w, s) = exec[w][s].attempt
           /\ HeldJob(w, s)' = exec'[w][s].job /\ HeldAttempt(w, s)' = exec'[w][s].attempt
  BY ConcurrencyAssumption DEF Hands, Slots, HeldJob, HeldAttempt

\* What process w holds after a step, it held before, except for the claim.
LEMMA HoldsNoMore ==
    ASSUME WorkerTypeOK, Holdings, NEW w \in Workers, WorkerNext(w),
           ~ClaimCommits(w), ~ClaimReturns(w),
           NEW v \in Workers, NEW h \in Hands, HeldJob(v, h)' \in Jobs
    PROVE  /\ HeldJob(v, h)' = HeldJob(v, h)
           /\ HeldAttempt(v, h)' = HeldAttempt(v, h)
<1> DEFINE Same == /\ HeldJob(v, h)' = HeldJob(v, h)
                   /\ HeldAttempt(v, h)' = HeldAttempt(v, h)
<1>0. /\ exec \in [Workers -> [Slots -> Execution]] /\ NoJob \notin Jobs
      /\ fetched \in [Workers -> [job : Jobs \cup {NoJob}, attempt : Nat]]
  BY JobTypesAssumption DEF WorkerTypeOK, Execution
<1>1. CASE UNCHANGED <<fetched, exec>>
  BY <1>1 DEF HeldJob, HeldAttempt
<1>2. CASE Exits(w)
  <2>1. CASE v = w
    <3>1. fetched'[v] = NoClaim /\ \A s \in Slots : exec'[v][s] = Idle
      BY <1>0, <1>2, <2>1 DEF Exits
    <3>2. HeldJob(v, h)' = NoJob
      BY <3>1 DEF HeldJob, NoClaim, Idle, Hands
    <3> QED BY <1>0, <3>2
  <2>2. CASE v # w
    BY <1>0, <1>2, <2>2 DEF Exits, HeldJob, HeldAttempt
  <2> QED BY <2>1, <2>2
<1>3. ASSUME NEW s \in Slots,
             \/ HandlerStarts(w, s) \/ HandlerReturns(w, s) \/ HandlerThrows(w, s)
             \/ CompleteErrors(w, s)
      PROVE  Same
  <2>1. /\ fetched' = fetched
        /\ \A t \in Slots : /\ exec'[v][t].job = exec[v][t].job
                            /\ exec'[v][t].attempt = exec[v][t].attempt
    <3>1. CASE HandlerStarts(w, s)
      BY <1>0, <3>1 DEF HandlerStarts, Execution
    <3>2. CASE HandlerReturns(w, s)
      BY <1>0, <3>2 DEF HandlerReturns, Execution
    <3>3. CASE HandlerThrows(w, s) \/ CompleteErrors(w, s)
      <4>1. exec' = [exec EXCEPT ![w][s].pc = "failing"] /\ UNCHANGED fetched
        BY <3>3 DEF HandlerThrows, CompleteErrors, Goes
      <4> QED BY <1>0, <4>1 DEF Execution
    <3> QED BY <1>3, <3>1, <3>2, <3>3
  <2> QED BY <2>1 DEF HeldJob, HeldAttempt, Hands
<1>4. ASSUME NEW s \in Slots, CompleteCommits(w, s) \/ FailCommits(w, s) PROVE Same
  <2>1. /\ fetched' = fetched
        /\ \A t \in Slots : exec'[v][t] = IF v = w /\ t = s THEN Idle ELSE exec[v][t]
    BY <1>0, <1>4 DEF CompleteCommits, FailCommits, Settles
  <2>2. CASE h = 0
    BY <2>1, <2>2 DEF HeldJob, HeldAttempt
  <2>3. CASE h # 0
    <3>1. h \in Slots /\ exec'[v][h] # Idle
      BY <1>0, <2>3 DEF Hands, HeldJob, Idle
    <3> QED BY <2>1, <2>3, <3>1 DEF HeldJob, HeldAttempt
  <2> QED BY <2>2, <2>3
<1> QED
  BY <1>1, <1>2, <1>3, <1>4
     DEF WorkerNext, LoopStep, ExecStep, Start, Kill, Stop, StopDrained, StopGivesUp,
         LoopExits, Polls, ClaimFindsNothing, ClaimErrors, Sweeps, FailErrors,
         Heartbeats, workerVars

-----------------------------------------------------------------------------
(***************************************************************************)
(* Ownership is kept.                                                      *)
(***************************************************************************)

\* A report on a row comes from the only hand that holds it, and empties it.
LEMMA ReportEmpties ==
    ASSUME SystemInv, HoldersOwn, HoldersAlone, NEW w \in Workers, NEW s \in Slots,
           CompleteCommits(w, s) \/ FailCommits(w, s),
           NEW v \in Workers, NEW h \in Hands, HeldJob(v, h)' \in Jobs
    PROVE  HeldJob(v, h) # exec[w][s].job
<1>0. /\ exec \in [Workers -> [Slots -> Execution]] /\ NoJob \notin Jobs
      /\ Holdings /\ WorkerTypeOK
  BY JobTypesAssumption DEF SystemInv, WorkerTypeOK, Execution
<1>1. exec[w][s].pc # "idle" /\ exec' = [exec EXCEPT ![w][s] = Idle]
  BY DEF CompleteCommits, FailCommits, At, Settles
<1>2. HeldJob(w, s) = exec[w][s].job /\ exec[w][s].job \in Jobs
  BY <1>0, <1>1, ExecutionsHold, SlotIsHand
<1>3. HeldJob(w, s)' = NoJob
  BY <1>0, <1>1, SlotIsHand DEF Idle
<1>4. SUFFICES ASSUME HeldJob(v, h) = exec[w][s].job PROVE FALSE
  OBVIOUS
<1>5. v = w /\ h = s
  BY <1>2, <1>4, SlotIsHand DEF HoldersAlone
<1> QED BY <1>0, <1>3, <1>5

LEMMA WorkerKeepsOwners ==
    ASSUME Timely, SystemInv, HoldersOwn, HoldersAlone, NEW w \in Workers,
           WorkerNext(w), ~ClaimCommits(w), ~ClaimReturns(w)
    PROVE  HoldersOwn' /\ HoldersAlone'
<1>0. TypeOK /\ WorkerTypeOK /\ Holdings
  BY DEF SystemInv, IInv
<1> SUFFICES ASSUME NEW v \in Workers, NEW h \in Hands, HeldJob(v, h)' \in Jobs
             PROVE  RowKept(HeldJob(v, h))
  BY <1>0, HoldsNoMore, HoldersKept
<1>1. HeldJob(v, h) \in Jobs
  BY <1>0, HoldsNoMore
<1>2. job[HeldJob(v, h)].status = "processing" /\ job[HeldJob(v, h)].beat # "stale"
  BY <1>1 DEF HoldersOwn, OwnRow
<1>3. ASSUME NEW s \in Slots, CompleteCommits(w, s) PROVE RowKept(HeldJob(v, h))
  <2>1. HeldJob(v, h) # exec[w][s].job
    BY <1>3, ReportEmpties
  <2>2. /\ exec[w][s].job \in Jobs /\ exec[w][s].result \in Results
        /\ CompleteRow(exec[w][s].job, exec[w][s].result)
    BY <1>0, <1>3 DEF CompleteCommits, At, Holdings, ExecInv
  <2> QED BY <1>0, <1>1, <1>2, <2>1, <2>2, OtherStatements
<1>4. ASSUME NEW s \in Slots, FailCommits(w, s) PROVE RowKept(HeldJob(v, h))
  <2>1. HeldJob(v, h) # exec[w][s].job
    BY <1>4, ReportEmpties
  <2>2. exec[w][s].job \in Jobs /\ FailRow(exec[w][s].job)
    BY <1>0, <1>4 DEF FailCommits, At, Holdings, ExecInv
  <2> QED BY <1>0, <1>1, <1>2, <2>1, <2>2, OtherStatements
<1>5. ASSUME NEW s \in Slots, Heartbeats(w, s) PROVE RowKept(HeldJob(v, h))
  <2>1. exec[w][s].job \in Jobs /\ BeatRow(exec[w][s].job)
    BY <1>0, <1>5 DEF Heartbeats, Holdings, ExecInv
  <2> QED BY <1>0, <1>1, <1>2, <2>1, OtherStatements
<1>6. CASE Sweeps(w)
  <2>1. \E S \in SUBSET Jobs : SweepRows(S)
    BY <1>6 DEF Sweeps
  <2> QED BY <1>0, <1>1, <1>2, <2>1, OtherStatements
<1>7. CASE UNCHANGED tableVars
  BY <1>0, <1>1, <1>2, <1>7, OtherStatements
<1>8. ASSUME \/ Start(w) \/ Kill(w) \/ Stop(w) \/ StopDrained(w) \/ StopGivesUp(w)
             \/ LoopExits(w) \/ Polls(w) \/ ClaimFindsNothing(w) \/ ClaimErrors(w)
             \/ \E s \in Slots :
                  \/ HandlerStarts(w, s) \/ HandlerReturns(w, s) \/ HandlerThrows(w, s)
                  \/ CompleteErrors(w, s) \/ FailErrors(w, s)
      PROVE  UNCHANGED tableVars
  BY <1>8 DEF Start, Kill, Stop, StopDrained, StopGivesUp, LoopExits, Polls,
              ClaimFindsNothing, ClaimErrors, HandlerStarts, HandlerReturns, HandlerThrows,
              CompleteErrors, FailErrors, Timely, Fault
<1> QED
  BY <1>3, <1>4, <1>5, <1>6, <1>7, <1>8 DEF WorkerNext, LoopStep, ExecStep

\* The row a claim takes was in nobody's hands.
LEMMA ClaimKeepsOwners ==
    ASSUME SystemInv, HoldersOwn, HoldersAlone, NEW w \in Workers, ClaimCommits(w)
    PROVE  HoldersOwn' /\ HoldersAlone'
<1>0. /\ TypeOK /\ job \in [Jobs -> Row] /\ NoJob \notin Jobs
      /\ fetched \in [Workers -> [job : Jobs \cup {NoJob}, attempt : Nat]]
      /\ loop[w] # "claimed" => fetched[w] = NoClaim
  BY JobTypesAssumption DEF SystemInv, IInv, TypeOK, WorkerTypeOK, Holdings, LoopInv
<1>1. PICK j \in Jobs :
        /\ ClaimRow(j)
        /\ fetched' = [fetched EXCEPT ![w] = [job |-> j, attempt |-> job[j].attempts + 1]]
  BY DEF ClaimCommits
<1>2. /\ job[j].status # "processing" /\ UNCHANGED exec
      /\ job'[j].status = "processing" /\ job'[j].beat = "fresh"
      /\ job'[j].attempts = job[j].attempts
      /\ \A k \in Jobs \ {j} : job'[k] = job[k]
  BY <1>0, <1>1 DEF ClaimCommits, ClaimRow, Claimable, CLAIMABLE_STATUSES, Row
<1>3. /\ HeldJob(w, 0)' = j /\ HeldAttempt(w, 0)' = job[j].attempts + 1 /\ 0 \in Hands
  BY <1>0, <1>1 DEF HeldJob, HeldAttempt, Hands
<1>4. ASSUME NEW v \in Workers, NEW h \in Hands, v # w \/ h # 0
      PROVE  /\ HeldJob(v, h)' = HeldJob(v, h) /\ HeldAttempt(v, h)' = HeldAttempt(v, h)
             /\ HeldJob(v, h) # j
  <2>1. HeldJob(v, h)' = HeldJob(v, h) /\ HeldAttempt(v, h)' = HeldAttempt(v, h)
    BY <1>0, <1>1, <1>2, <1>4 DEF HeldJob, HeldAttempt
  <2>2. HeldJob(v, h) # j
    BY <1>2 DEF HoldersOwn, OwnRow
  <2> QED BY <2>1, <2>2
<1>5. HoldersOwn'
  <2> SUFFICES ASSUME NEW v \in Workers, NEW h \in Hands, HeldJob(v, h)' \in Jobs
               PROVE  /\ job'[HeldJob(v, h)'].status = "processing"
                      /\ job'[HeldJob(v, h)'].beat # "stale"
                      /\ HeldAttempt(v, h)' = job'[HeldJob(v, h)'].attempts + 1
    BY DEF HoldersOwn, OwnRow, Hands, Slots
  <2>1. CASE v = w /\ h = 0
    BY <1>2, <1>3, <2>1
  <2>2. CASE v # w \/ h # 0
    BY <1>2, <1>4, <2>2 DEF HoldersOwn, OwnRow
  <2> QED BY <2>1, <2>2
<1>6. HoldersAlone'
  <2> SUFFICES ASSUME NEW v \in Workers, NEW u \in Workers, NEW h \in Hands, NEW g \in Hands,
                      HeldJob(v, h)' \in Jobs, HeldJob(v, h)' = HeldJob(u, g)'
               PROVE  v = u /\ h = g
    BY DEF HoldersAlone, Hands, Slots
  <2>1. CASE v = w /\ h = 0
    BY <1>3, <1>4, <2>1
  <2>2. CASE u = w /\ g = 0
    BY <1>3, <1>4, <2>2
  <2>3. CASE (v # w \/ h # 0) /\ (u # w \/ g # 0)
    BY <1>4, <2>3 DEF HoldersAlone
  <2> QED BY <2>1, <2>2, <2>3
<1> QED BY <1>5, <1>6

\* The claim passes from the hand 0 to a slot that was empty.
LEMMA ReturnKeepsOwners ==
    ASSUME SystemInv, HoldersOwn, HoldersAlone, NEW w \in Workers, ClaimReturns(w)
    PROVE  HoldersOwn' /\ HoldersAlone'
<1>0. /\ exec \in [Workers -> [Slots -> Execution]] /\ NoJob \notin Jobs
      /\ fetched \in [Workers -> [job : Jobs \cup {NoJob}, attempt : Nat]]
      /\ CountInv(w) /\ active[w] < Concurrency /\ UNCHANGED tableVars
  BY JobTypesAssumption
     DEF SystemInv, WorkerTypeOK, Execution, Counts, CountInv, ClaimReturns
<1>1. PICK s \in Slots : s = FreeSlot(w)
  BY <1>0, FreeSlotIsFree
<1>2. /\ fetched' = [fetched EXCEPT ![w] = NoClaim]
      /\ \E pc : exec' = [exec EXCEPT ![w][s] =
                    [pc |-> pc, job |-> fetched[w].job, attempt |-> fetched[w].attempt,
                     result |-> NoOutput]]
  BY <1>1 DEF ClaimReturns
<1>3. s \in Hands /\ s # 0 /\ 0 \in Hands
  BY <1>1, SlotIsHand DEF Hands
<1>4. /\ HeldJob(w, s)' = HeldJob(w, 0) /\ HeldAttempt(w, s)' = HeldAttempt(w, 0)
      /\ HeldJob(w, 0)' = NoJob
  <2>1. fetched'[w] = NoClaim
    BY <1>0, <1>2
  <2>2. exec'[w][s].job = fetched[w].job /\ exec'[w][s].attempt = fetched[w].attempt
    BY <1>0, <1>1, <1>2
  <2> QED BY <1>3, <2>1, <2>2 DEF HeldJob, HeldAttempt, NoClaim
<1>5. ASSUME NEW v \in Workers, NEW h \in Hands, v # w \/ h \notin {0, s}
      PROVE  HeldJob(v, h)' = HeldJob(v, h) /\ HeldAttempt(v, h)' = HeldAttempt(v, h)
  BY <1>0, <1>1, <1>2, <1>5 DEF HeldJob, HeldAttempt, Hands
<1>6. UNCHANGED job
  BY <1>0 DEF tableVars
<1>7. HoldersOwn'
  <2> SUFFICES ASSUME NEW v \in Workers, NEW h \in Hands, HeldJob(v, h)' \in Jobs
               PROVE  /\ job'[HeldJob(v, h)'].status = "processing"
                      /\ job'[HeldJob(v, h)'].beat # "stale"
                      /\ HeldAttempt(v, h)' = job'[HeldJob(v, h)'].attempts + 1
    BY DEF HoldersOwn, OwnRow, Hands, Slots
  <2>1. CASE v = w /\ h = 0
    BY <1>0, <1>4, <2>1
  <2>2. CASE v = w /\ h = s
    <3>1. OwnRow(w, 0) /\ HeldJob(w, 0) \in Jobs /\ HeldJob(v, h)' = HeldJob(w, 0)
          /\ HeldAttempt(v, h)' = HeldAttempt(w, 0)
      BY <1>3, <1>4, <2>2 DEF HoldersOwn
    <3> QED BY <1>6, <3>1 DEF OwnRow
  <2>3. CASE v # w \/ h \notin {0, s}
    <3>1. OwnRow(v, h) /\ HeldJob(v, h)' = HeldJob(v, h)
          /\ HeldAttempt(v, h)' = HeldAttempt(v, h)
      BY <1>5, <2>3 DEF HoldersOwn
    <3> QED BY <1>6, <3>1 DEF OwnRow
  <2> QED BY <2>1, <2>2, <2>3
<1>8. HoldersAlone'
  <2> SUFFICES ASSUME NEW v \in Workers, NEW u \in Workers, NEW h \in Hands, NEW g \in Hands,
                      HeldJob(v, h)' \in Jobs, HeldJob(v, h)' = HeldJob(u, g)'
               PROVE  v = u /\ h = g
    BY DEF HoldersAlone, Hands, Slots
  <2>1. CASE v = w /\ h = s
    <3>1. HeldJob(w, 0) \in Jobs /\ HeldJob(u, g)' = HeldJob(w, 0)
      BY <1>4, <2>1
    <3>2. CASE u = w /\ g = 0
      BY <1>0, <1>4, <3>1, <3>2
    <3>3. CASE u = w /\ g = s
      BY <2>1, <3>3
    <3>4. CASE u # w \/ g \notin {0, s}
      <4>1. HeldJob(u, g) = HeldJob(w, 0)
        BY <1>5, <3>1, <3>4
      <4>2. u = w /\ g = 0
        BY <1>3, <3>1, <4>1 DEF HoldersAlone
      <4> QED BY <3>4, <4>2
    <3> QED BY <3>2, <3>3, <3>4
  <2>2. CASE u = w /\ g = s
    <3>1. HeldJob(w, 0) \in Jobs /\ HeldJob(v, h)' = HeldJob(w, 0)
      BY <1>4, <2>2
    <3>2. CASE v = w /\ h = 0
      BY <1>0, <1>4, <3>1, <3>2
    <3>3. CASE v = w /\ h = s
      BY <2>2, <3>3
    <3>4. CASE v # w \/ h \notin {0, s}
      <4>1. HeldJob(v, h) = HeldJob(w, 0)
        BY <1>5, <3>1, <3>4
      <4>2. v = w /\ h = 0
        BY <1>3, <3>1, <4>1 DEF HoldersAlone
      <4> QED BY <3>4, <4>2
    <3> QED BY <3>2, <3>3, <3>4
  <2>3. CASE ~(v = w /\ h = s) /\ ~(u = w /\ g = s)
    BY <1>0, <1>3, <1>4, <1>5, <2>3 DEF HoldersAlone
  <2> QED BY <2>1, <2>2, <2>3
<1> QED BY <1>7, <1>8

LEMMA OwnersKept ==
    ASSUME Timely, SystemInv, TimelyInv, [Next]_vars
    PROVE  HoldersOwn' /\ HoldersAlone'
<1>0. /\ TypeOK /\ HoldersOwn /\ HoldersAlone
  BY DEF SystemInv, IInv, TimelyInv
<1>1. ASSUME NEW w \in Workers, WorkerNext(w) PROVE HoldersOwn' /\ HoldersAlone'
  BY <1>0, <1>1, WorkerKeepsOwners, ClaimKeepsOwners, ReturnKeepsOwners
\* A step that is not a worker's leaves the hands alone.
<1>2. ASSUME UNCHANGED workerVars,
             \A w \in Workers, h \in Hands :
                 HeldJob(w, h) \in Jobs => RowKept(HeldJob(w, h))
      PROVE  HoldersOwn' /\ HoldersAlone'
  <2>1. \A w \in Workers, h \in Hands : /\ HeldJob(w, h)' = HeldJob(w, h)
                                        /\ HeldAttempt(w, h)' = HeldAttempt(w, h)
    BY <1>2 DEF workerVars, HeldJob, HeldAttempt
  <2> QED BY <1>0, <1>2, <2>1, HoldersKept
<1>3. ASSUME NEW w \in Workers, NEW h \in Hands, HeldJob(w, h) \in Jobs
      PROVE  /\ job[HeldJob(w, h)].status = "processing"
             /\ job[HeldJob(w, h)].beat # "stale"
  BY <1>0, <1>3 DEF HoldersOwn, OwnRow
<1>4. CASE UNCHANGED vars
  <2>1. UNCHANGED workerVars /\ UNCHANGED tableVars
    BY <1>4 DEF vars
  <2> QED BY <1>0, <1>2, <1>3, <2>1, OtherStatements
<1>5. CASE ApiNext /\ UNCHANGED workerVars
  <2>1. \/ UNCHANGED tableVars
        \/ \E k \in Jobs, b \in Budgets, d \in BOOLEAN : EnqueueRow(k, b, d)
        \/ \E k \in Jobs, d \in BOOLEAN : job[k].status = "dead" /\ RetryRow(k, d)
    <3>1. ASSUME NEW r \in EnqueueRequests, EnqueueInserts(r)
          PROVE  \E k \in Jobs, b \in Budgets, d \in BOOLEAN : EnqueueRow(k, b, d)
      BY <3>1 DEF EnqueueInserts
    <3>2. ASSUME NEW r \in RetryRequests, RetryResets(r)
          PROVE  \E k \in Jobs, d \in BOOLEAN : job[k].status = "dead" /\ RetryRow(k, d)
      BY <3>2 DEF RetryResets, SystemInv, RequestInv, Requests, TimelyInv, DeadWaits
    <3> QED
      BY <1>5, <3>1, <3>2 DEF ApiNext, EnqueueConflicts, EnqueueReads, RetryReads, RequestErrors
  <2> QED BY <1>0, <1>2, <1>3, <1>5, <2>1, OtherStatements
<1>6. ASSUME NEW j \in Jobs, Ages(j) \/ DueNow(j) PROVE HoldersOwn' /\ HoldersAlone'
  <2>1. UNCHANGED workerVars
    BY <1>6 DEF Ages, DueNow
  <2>2. CASE DueNow(j)
    BY <1>0, <1>2, <1>3, <2>1, <2>2, OtherStatements DEF DueNow
  <2>3. CASE Ages(j)
    <3>1. BeatAges(j) /\ ~Attends(j)
      BY <2>3, AttendedMeansHeld DEF Ages, Timely, Fault
    <3>2. ASSUME NEW w \in Workers, NEW h \in Hands, HeldJob(w, h) \in Jobs
          PROVE  RowKept(HeldJob(w, h))
      <4>1. HeldJob(w, h) # j
        BY <3>1 DEF Attends
      <4> QED BY <1>0, <1>3, <3>1, <3>2, <4>1, OtherStatements
    <3> QED BY <1>2, <2>1, <3>2
  <2> QED BY <1>6, <2>2, <2>3
<1> QED BY <1>1, <1>4, <1>5, <1>6 DEF Next

-----------------------------------------------------------------------------
(***************************************************************************)
(* The timely system.                                                      *)
(***************************************************************************)

LEMMA TimelyInit == Init => TimelyInv
<1> SUFFICES ASSUME Init PROVE TimelyInv
  OBVIOUS
<1>1. \A w \in Workers, h \in Hands : HeldJob(w, h) \notin Jobs
  BY JobTypesAssumption DEF Init, WorkerInit, Hands, HeldJob, NoClaim, Idle
<1>2. HoldersOwn /\ HoldersAlone
  BY <1>1 DEF HoldersOwn, OwnRow, HoldersAlone
<1>3. DeadWaits
  BY DEF Init, ApiInit, DeadWaits, Requests
<1>4. ClaimsAccounted /\ OutputMeansDone
  BY DEF Init, TableInit, NoRow, NoOutput, ClaimsAccounted, OutputMeansDone
<1> QED BY <1>2, <1>3, <1>4 DEF TimelyInv

LEMMA TimelyStep ==
    ASSUME Timely, RetriesTakeTurns, SystemInv, TimelyInv, [Next]_vars
    PROVE  TimelyInv'
<1>1. ClaimsAccounted' /\ OutputMeansDone'
  BY OwnedStep, BooksKept DEF SystemInv, TimelyInv
<1>2. DeadWaits'
  BY DeadWaitsKept DEF TimelyInv
<1> QED BY <1>1, <1>2, OwnersKept DEF TimelyInv

\* In a timely environment claims are owned, in every behaviour.
THEOREM TimelyInvariant ==
    ASSUME Timely
    PROVE  Spec /\ []RetriesTakeTurns => []TimelyInv
<1>1. RetriesTakeTurns /\ SystemInv /\ TimelyInv /\ [Next]_vars => TimelyInv'
  BY TimelyStep
<1> QED BY <1>1, TimelyInit, SystemInvariant, PTL DEF Spec

\* Every execution works on the claim its row stands for.
THEOREM OwnersExecute ==
    ASSUME Timely
    PROVE  Spec /\ []RetriesTakeTurns => []ExecutionsOwnTheirRow
<1>1. SystemInv /\ TimelyInv => ExecutionsOwnTheirRow
  <2> SUFFICES ASSUME SystemInv, TimelyInv, NEW w \in Workers, NEW s \in Busy(w)
               PROVE  /\ job[exec[w][s].job].status = "processing"
                      /\ exec[w][s].attempt = job[exec[w][s].job].attempts + 1
    BY DEF ExecutionsOwnTheirRow
  <2> QED BY ExecutionsHold DEF SystemInv, TimelyInv, Busy
<1> QED BY <1>1, SystemInvariant, TimelyInvariant, PTL

\* No job is executed twice at the same time, by any number of workers of any
\* concurrency.
THEOREM ExecutedOnce ==
    ASSUME Timely
    PROVE  Spec /\ []RetriesTakeTurns => []SingleExecution
<1>1. SystemInv /\ TimelyInv => SingleExecution
  <2> SUFFICES ASSUME SystemInv, TimelyInv, NEW w \in Workers, NEW v \in Workers,
                      NEW s \in Busy(w), NEW t \in Busy(v), exec[w][s].job = exec[v][t].job
               PROVE  w = v /\ s = t
    BY DEF SingleExecution
  <2>1. exec[w][s].job \in Jobs /\ s \in Slots /\ t \in Slots
    BY ExecutionsHold DEF SystemInv, TimelyInv, Busy
  <2> QED BY <2>1, SlotIsHand DEF TimelyInv, HoldersAlone
<1> QED BY <1>1, SystemInvariant, TimelyInvariant, PTL

\* A crash, the sweeper and the worker's own report never charge a claim twice.
THEOREM ChargedOnce ==
    ASSUME Timely
    PROVE  Spec /\ []RetriesTakeTurns => []ClaimsAccounted
<1>1. TimelyInv => ClaimsAccounted
  BY DEF TimelyInv
<1> QED BY <1>1, TimelyInvariant, PTL

\* An output is never left behind without the job being marked done.
THEOREM OutputIsOfDone ==
    ASSUME Timely
    PROVE  Spec /\ []RetriesTakeTurns => []OutputMeansDone
<1>1. TimelyInv => OutputMeansDone
  BY DEF TimelyInv
<1> QED BY <1>1, TimelyInvariant, PTL

-----------------------------------------------------------------------------
(***************************************************************************)
(* The life of a job.                                                      *)
(***************************************************************************)

\* A statement that changes neither status, count, budget nor output is no
\* step of the lifecycle.
LEMMA LifeGoesOn ==
    ASSUME UNCHANGED output,
           \A j \in Jobs : /\ job'[j].status = job[j].status
                           /\ job'[j].attempts = job[j].attempts
                           /\ job'[j].maxAttempts = job[j].maxAttempts
    PROVE  UNCHANGED Lifecycle!lifecycleVars
  BY DEF Lifecycle!lifecycleVars

\* A statement that charges the rows of S, all in processing.
LEMMA LifeCharges ==
    ASSUME NEW S \in SUBSET Jobs, S # {}, UNCHANGED output, TypeOK,
           \A j \in S : job[j].status = "processing",
           \A j \in S :
              /\ job'[j].attempts = job[j].attempts + 1
              /\ job'[j].maxAttempts = job[j].maxAttempts
              /\ job'[j].status \in {"dead", "failed"}
              /\ job'[j].status = "dead" <=> job[j].attempts + 1 >= job[j].maxAttempts,
           \A k \in Jobs \ S : job'[k] = job[k]
    PROVE  Lifecycle!Next
<1>0. \A j \in Jobs : job[j].attempts \in Nat /\ job[j].maxAttempts \in Nat
  BY DEF TypeOK, Row
<1> DEFINE phase == [j \in Jobs |-> job[j].status]
           spent == [j \in Jobs |-> job[j].attempts]
           budget == [j \in Jobs |-> job[j].maxAttempts]
<1>1. spent' = [j \in Jobs |-> IF j \in S THEN spent[j] + 1 ELSE spent[j]]
  OBVIOUS
<1>2. phase' = [j \in Jobs |-> IF j \notin S THEN phase[j]
                               ELSE IF spent'[j] < budget[j] THEN "failed" ELSE "dead"]
  <2>1. ASSUME NEW j \in Jobs
        PROVE  job'[j].status = IF j \notin S THEN job[j].status
                                ELSE IF job'[j].attempts < job[j].maxAttempts
                                     THEN "failed" ELSE "dead"
    BY <1>0
  <2> QED BY <2>1
<1>3. UNCHANGED budget /\ \A j \in S : phase[j] = "processing"
  OBVIOUS
<1>4. Lifecycle!Charge(S)
  BY <1>1, <1>2, <1>3 DEF Lifecycle!Charge
<1> QED BY <1>4 DEF Lifecycle!Next

LEMMA LifecycleStep ==
    ASSUME IInv, BudgetsAsked, ClaimsAccounted, OutputMeansDone, [OwnedNext]_tableVars
    PROVE  [Lifecycle!Next]_(Lifecycle!lifecycleVars)
<1>0. /\ TypeOK /\ job \in [Jobs -> Row] /\ output \in [Jobs -> Results \cup {NoOutput}]
      /\ \A j \in Jobs : job[j] \in Row
  BY DEF IInv, TypeOK
<1> DEFINE phase == [j \in Jobs |-> job[j].status]
           spent == [j \in Jobs |-> job[j].attempts]
           budget == [j \in Jobs |-> job[j].maxAttempts]
<1>1. CASE UNCHANGED tableVars
  BY <1>1, LifeGoesOn DEF tableVars
<1>2. ASSUME NEW k \in Jobs, NEW b \in Budgets, NEW d \in BOOLEAN, EnqueueRow(k, b, d)
      PROVE  Lifecycle!Next
  <2>1. ~Exists(k) /\ job[k].attempts = 0
    BY <1>0, <1>2 DEF EnqueueRow, IInv, RowInv, ClaimsAccounted, Exists, Row
  <2>2. /\ phase[k] = "absent" /\ phase' = [phase EXCEPT ![k] = "pending"]
        /\ budget' = [budget EXCEPT ![k] = b]
        /\ UNCHANGED <<spent, output>>
    BY <1>0, <1>2, <2>1 DEF EnqueueRow, Exists
  <2>3. Lifecycle!Submit(k)
    BY <2>2 DEF Lifecycle!Submit
  <2> QED BY <2>3 DEF Lifecycle!Next
<1>3. ASSUME NEW k \in Jobs, ClaimRow(k) PROVE Lifecycle!Next
  <2>1. /\ job[k].status \in {"pending", "failed"} /\ job[k].attempts < job[k].maxAttempts
    BY <1>0, <1>3 DEF ClaimRow, Claimable, CLAIMABLE_STATUSES, IInv, RowInv, Exists, Row
  <2>2. /\ phase' = [phase EXCEPT ![k] = "processing"]
        /\ UNCHANGED <<spent, budget, output>>
    BY <1>0, <1>3 DEF ClaimRow, Row
  <2>3. Lifecycle!Begin(k)
    BY <2>1, <2>2 DEF Lifecycle!Begin
  <2> QED BY <2>3 DEF Lifecycle!Next
<1>4. ASSUME NEW k \in Jobs, BeatRow(k) \/ RunAtArrives(k) \/ BeatAges(k)
      PROVE  UNCHANGED Lifecycle!lifecycleVars
  <2>1. ASSUME NEW j \in Jobs
        PROVE  /\ job'[j].status = job[j].status
               /\ job'[j].attempts = job[j].attempts
               /\ job'[j].maxAttempts = job[j].maxAttempts
    BY <1>0, <1>4 DEF BeatRow, RunAtArrives, BeatAges, Row
  <2>2. UNCHANGED output
    BY <1>4 DEF BeatRow, RunAtArrives, BeatAges
  <2> QED BY <2>1, <2>2, LifeGoesOn
<1>5. ASSUME NEW k \in Jobs, job[k].status = "processing", FailRow(k) PROVE Lifecycle!Next
  <2> DEFINE S == {k}
  <2>1. S \in SUBSET Jobs /\ S # {} /\ \A j \in S : j = k
    OBVIOUS
  <2>2. \A j \in Jobs \ S : j \in Jobs \ {k}
    OBVIOUS
  <2> HIDE DEF S
  <2> QED BY <1>0, <1>5, <2>1, <2>2, ChargeEffect, LifeCharges
<1>6. ASSUME NEW k \in Jobs, NEW r \in Results, job[k].status = "processing",
             CompleteRow(k, r)
      PROVE  Lifecycle!Next
  <2>1. output[k] = NoOutput
    BY <1>6 DEF OutputMeansDone
  <2>2. /\ phase' = [phase EXCEPT ![k] = "succeeded"]
        /\ UNCHANGED <<spent, budget>>
    BY <1>0, <1>6 DEF CompleteRow, Row
  <2>3. output' = [output EXCEPT ![k] = r]
    BY <1>0, <1>6, <2>1 DEF CompleteRow
  <2>4. Lifecycle!Succeed(k)
    BY <1>6, <2>1, <2>2, <2>3 DEF Lifecycle!Succeed
  <2> QED BY <2>4 DEF Lifecycle!Next
<1>7. ASSUME NEW S \in SUBSET Jobs, SweepRows(S) PROVE Lifecycle!Next
  BY <1>0, <1>7, SweepEffect, LifeCharges DEF Stuck
<1>8. ASSUME NEW k \in Jobs, NEW d \in BOOLEAN, job[k].status = "dead", RetryRow(k, d)
      PROVE  Lifecycle!Next
  <2>1. /\ phase' = [phase EXCEPT ![k] = "pending"] /\ spent' = [spent EXCEPT ![k] = 0]
        /\ UNCHANGED <<budget, output>>
    BY <1>0, <1>8 DEF RetryRow, Row
  <2>2. Lifecycle!Reset(k)
    BY <1>8, <2>1 DEF Lifecycle!Reset
  <2> QED BY <2>2 DEF Lifecycle!Next
<1> QED
  BY <1>1, <1>2, <1>3, <1>4, <1>5, <1>6, <1>7, <1>8 DEF OwnedNext, OwnedReports

\* The queue, its workers and its API implement the documented life of a job:
\* submitted once, started within its budget, each start ended once, reset only
\* when dead, and done for good when succeeded.
THEOREM ImplementsTheLife ==
    ASSUME Timely
    PROVE  Spec /\ []RetriesTakeTurns => ImplementsLifecycle
<1>1. Init => Lifecycle!Init
  BY DEF Init, TableInit, NoRow, Lifecycle!Init
<1>2. SystemInv /\ TimelyInv /\ [Next]_vars => [Lifecycle!Next]_(Lifecycle!lifecycleVars)
  BY OwnedStep, LifecycleStep DEF SystemInv, TimelyInv
<1> QED
  BY <1>1, <1>2, SystemInvariant, TimelyInvariant, PTL
     DEF Spec, ImplementsLifecycle, Lifecycle!Spec
=============================================================================
