-------------------------- MODULE JobTable_proofs --------------------------
(***************************************************************************)
(* What JobTable's properties rest on, for every set of jobs, every set of *)
(* budgets and every batch size.                                           *)
(***************************************************************************)
EXTENDS JobTable, TLAPS

\* Claims not yet charged: the one a row in processing or succeeded stands for.
Uncharged(j) == IF job[j].status \in {"processing", "succeeded"} THEN 1 ELSE 0

\* The strengthening, row by row.  An absent row was never claimed; a budget is
\* positive; every claim but the current one has been charged to attempts.
RowInv(j) ==
    /\ ~Exists(j) => claims[j] = 0 /\ job[j].beat = "none"
    /\ Exists(j) =>
         /\ job[j].maxAttempts >= 1
         /\ job[j].status = "dead" <=> job[j].attempts >= job[j].maxAttempts
         /\ claims[j] <= job[j].maxAttempts
    /\ claims[j] <= job[j].attempts + Uncharged(j)
    /\ job[j].status = "processing" => job[j].beat # "none"
    /\ job[j].status = "succeeded" => output[j] # NoOutput

IInv == TypeOK /\ \A j \in Jobs : RowInv(j)

-----------------------------------------------------------------------------
\* A statement that rewrites one row, its output and its claim count keeps the
\* invariant of every other row.
LEMMA OtherRows ==
    ASSUME IInv, NEW j \in Jobs, NEW k \in Jobs, k # j,
           job'[k] = job[k], output'[k] = output[k], claims'[k] = claims[k]
    PROVE  RowInv(k)'
  BY DEF IInv, RowInv, Exists, Uncharged

\* The row after a charge is typed and is dead exactly when its budget is spent.
LEMMA ChargedRow ==
    ASSUME NEW row \in Row, NEW due \in BOOLEAN
    PROVE  /\ Charged(row, due) \in Row
           /\ Charged(row, due).attempts = row.attempts + 1
           /\ Charged(row, due).maxAttempts = row.maxAttempts
           /\ Charged(row, due).beat = "none"
           /\ Charged(row, due).status = "dead"
                <=> row.attempts + 1 >= row.maxAttempts
           /\ Charged(row, due).status \in {"dead", "failed"}
<1>1. row.attempts \in Nat /\ row.maxAttempts \in Nat
  BY DEF Row
<1>2. CASE row.attempts + 1 >= row.maxAttempts
  <2>0. Charged(row, due) =
               [row EXCEPT !.status = "dead", !.attempts = row.attempts + 1,
                           !.due = due, !.beat = "none"]
    BY <1>2 DEF Charged
  <2>1. Charged(row, due) =
               [status |-> "dead", attempts |-> row.attempts + 1,
                maxAttempts |-> row.maxAttempts, due |-> due, beat |-> "none"]
    BY <2>0 DEF Row
  <2>2. Charged(row, due) \in Row
    BY <1>1, <2>1 DEF Row, Statuses
  <2>3. /\ Charged(row, due).attempts = row.attempts + 1
        /\ Charged(row, due).maxAttempts = row.maxAttempts
        /\ Charged(row, due).beat = "none"
        /\ Charged(row, due).status = "dead"
    BY <2>1
  <2> QED BY <1>2, <2>2, <2>3
<1>3. CASE ~(row.attempts + 1 >= row.maxAttempts)
  <2>0. Charged(row, due) =
               [row EXCEPT !.status = "failed", !.attempts = row.attempts + 1,
                           !.due = due, !.beat = "none"]
    BY <1>3 DEF Charged
  <2>1. Charged(row, due) =
               [status |-> "failed", attempts |-> row.attempts + 1,
                maxAttempts |-> row.maxAttempts, due |-> due, beat |-> "none"]
    BY <2>0 DEF Row
  <2>2. Charged(row, due) \in Row
    BY <1>1, <2>1 DEF Row, Statuses
  <2>3. /\ Charged(row, due).attempts = row.attempts + 1
        /\ Charged(row, due).maxAttempts = row.maxAttempts
        /\ Charged(row, due).beat = "none"
        /\ Charged(row, due).status = "failed"
    BY <2>1
  <2> QED BY <1>3, <2>2, <2>3
<1> QED BY <1>2, <1>3

\* Charging an existing row keeps the invariant of that row.
LEMMA ChargeRowInv ==
    ASSUME IInv, NEW j \in Jobs, Exists(j), NEW due \in BOOLEAN,
           job'[j] = Charged(job[j], due),
           output'[j] = output[j], claims'[j] = claims[j]
    PROVE  RowInv(j)'
<1>1. job[j] \in Row
  BY DEF IInv, TypeOK
<1> QED
  BY <1>1, ChargedRow DEF IInv, TypeOK, RowInv, Exists, Uncharged, Row

LEMMA InitInv == TableInit => IInv
  BY DEF TableInit, IInv, TypeOK, RowInv, Exists, Uncharged, NoRow, NoOutput,
         Row, Statuses

LEMMA EnqueueInv ==
    ASSUME IInv, NEW j \in Jobs, NEW b \in Budgets, NEW d \in BOOLEAN,
           EnqueueRow(j, b, d)
    PROVE  IInv'
<1>1. TypeOK'
  BY BudgetsAssumption DEF IInv, TypeOK, EnqueueRow, Row, Statuses
<1>2. RowInv(j)'
  BY BudgetsAssumption DEF IInv, TypeOK, RowInv, EnqueueRow, Exists, Uncharged, Row, NoOutput
<1>3. ASSUME NEW k \in Jobs, k # j PROVE RowInv(k)'
  BY <1>3, OtherRows DEF IInv, TypeOK, EnqueueRow
<1> QED BY <1>1, <1>2, <1>3 DEF IInv

LEMMA ClaimInv ==
    ASSUME IInv, NEW j \in Jobs, ClaimRow(j)
    PROVE  IInv'
<1>1. TypeOK'
  <2>1. [job[j] EXCEPT !.status = "processing", !.beat = "fresh"] \in Row
    BY DEF IInv, TypeOK, Row, Statuses
  <2> QED BY <2>1 DEF IInv, TypeOK, ClaimRow
<1>2. RowInv(j)'
  BY DEF IInv, TypeOK, RowInv, ClaimRow, Claimable, CLAIMABLE_STATUSES, Exists,
         Uncharged, Row
<1>3. ASSUME NEW k \in Jobs, k # j PROVE RowInv(k)'
  BY <1>3, OtherRows DEF IInv, TypeOK, ClaimRow
<1> QED BY <1>1, <1>2, <1>3 DEF IInv

LEMMA BeatInv ==
    ASSUME IInv, NEW j \in Jobs, BeatRow(j) \/ BeatAges(j) \/ RunAtArrives(j)
    PROVE  IInv'
<1>1. TypeOK'
  <2>1. /\ [job[j] EXCEPT !.beat = "fresh"] \in Row
        /\ [job[j] EXCEPT !.beat = "stale"] \in Row
        /\ [job[j] EXCEPT !.due = TRUE] \in Row
    BY DEF IInv, TypeOK, Row
  <2> QED BY <2>1 DEF IInv, TypeOK, BeatRow, BeatAges, RunAtArrives
<1>2. RowInv(j)'
  BY DEF IInv, TypeOK, RowInv, BeatRow, BeatAges, RunAtArrives,
         CLAIMABLE_STATUSES, Exists, Uncharged, Row
<1>3. ASSUME NEW k \in Jobs, k # j PROVE RowInv(k)'
  BY <1>3, OtherRows DEF IInv, TypeOK, BeatRow, BeatAges, RunAtArrives
<1> QED BY <1>1, <1>2, <1>3 DEF IInv

LEMMA FailInv ==
    ASSUME IInv, NEW j \in Jobs, FailRow(j)
    PROVE  IInv'
<1> DEFINE due == job[j].due /\ job[j].attempts + 1 >= job[j].maxAttempts
<1>1. job' = [job EXCEPT ![j] = Charged(job[j], due)]
      /\ Exists(j) /\ UNCHANGED <<output, claims>>
  BY DEF FailRow
<1>2. job[j] \in Row /\ due \in BOOLEAN
  BY DEF IInv, TypeOK
<1> HIDE DEF due
<1>3. job'[j] = Charged(job[j], due)
  BY <1>1 DEF IInv, TypeOK
<1>4. TypeOK'
  BY <1>1, <1>2, ChargedRow DEF IInv, TypeOK
<1>5. RowInv(j)'
  BY <1>1, <1>2, <1>3, ChargeRowInv
<1>6. ASSUME NEW k \in Jobs, k # j PROVE RowInv(k)'
  BY <1>1, <1>6, OtherRows DEF IInv, TypeOK
<1> QED BY <1>4, <1>5, <1>6 DEF IInv

LEMMA CompleteInv ==
    ASSUME IInv, NEW j \in Jobs, NEW r \in Results, CompleteRow(j, r)
    PROVE  IInv'
<1>1. TypeOK'
  BY DEF IInv, TypeOK, CompleteRow, Row, Statuses
<1>2. RowInv(j)'
  BY ResultsAssumption
     DEF IInv, TypeOK, RowInv, CompleteRow, Exists, Uncharged, Row, NoOutput
<1>3. ASSUME NEW k \in Jobs, k # j PROVE RowInv(k)'
  BY <1>3, OtherRows DEF IInv, TypeOK, CompleteRow
<1> QED BY <1>1, <1>2, <1>3 DEF IInv

LEMMA SweepInv ==
    ASSUME IInv, NEW S \in SUBSET Jobs, SweepRows(S)
    PROVE  IInv'
<1>1. /\ job' = [j \in Jobs |-> IF j \in S THEN Charged(job[j], TRUE) ELSE job[j]]
      /\ UNCHANGED <<output, claims>>
      /\ \A j \in S : Stuck(j)
  BY DEF SweepRows
<1>2. ASSUME NEW j \in Jobs
      PROVE  job[j] \in Row /\ Charged(job[j], TRUE) \in Row
  BY ChargedRow DEF IInv, TypeOK
<1>3. TypeOK'
  BY <1>1, <1>2 DEF IInv, TypeOK
<1>4. ASSUME NEW j \in Jobs PROVE RowInv(j)'
  <2>1. CASE j \in S
    <3>1. job'[j] = Charged(job[j], TRUE) /\ job[j].status = "processing"
      BY <1>1, <2>1 DEF Stuck
    <3>2. Exists(j) /\ TRUE \in BOOLEAN
          /\ output'[j] = output[j] /\ claims'[j] = claims[j]
      BY <1>1, <3>1 DEF Exists
    <3> QED BY <3>1, <3>2, ChargeRowInv, Zenon
  <2>2. CASE j \notin S
    BY <1>1, <2>2 DEF IInv, RowInv, Exists, Uncharged
  <2> QED BY <2>1, <2>2
<1> QED BY <1>3, <1>4 DEF IInv

\* The row retryDeadJob leaves.
LEMMA ResetRow ==
    ASSUME NEW row \in Row, NEW due \in BOOLEAN, NEW new,
           new = [row EXCEPT !.status = "pending", !.attempts = 0,
                             !.due = due, !.beat = "none"]
    PROVE  /\ new \in Row /\ new.status = "pending" /\ new.attempts = 0
           /\ new.maxAttempts = row.maxAttempts /\ new.beat = "none"
<1>1. new = [status |-> "pending", attempts |-> 0,
             maxAttempts |-> row.maxAttempts, due |-> due, beat |-> "none"]
  BY DEF Row
<1>2. row.maxAttempts \in Nat
  BY DEF Row
<1> QED BY <1>1, <1>2 DEF Row, Statuses

LEMMA RetryInv ==
    ASSUME IInv, NEW j \in Jobs, NEW d \in BOOLEAN, RetryRow(j, d)
    PROVE  IInv'
<1> DEFINE new == [job[j] EXCEPT !.status = "pending", !.attempts = 0,
                                 !.due = d, !.beat = "none"]
<1>1. job[j] \in Row
  BY DEF IInv, TypeOK
<1>2. /\ new \in Row /\ new.status = "pending" /\ new.attempts = 0
      /\ new.maxAttempts = job[j].maxAttempts /\ new.beat = "none"
  BY <1>1, ResetRow, Zenon
<1>3. job' = [job EXCEPT ![j] = new]
  BY DEF RetryRow
<1> HIDE DEF new
<1>4. job'[j] = new
  BY <1>3 DEF IInv, TypeOK
<1>5. TypeOK'
  BY <1>2, <1>3 DEF IInv, TypeOK, RetryRow
<1>6. RowInv(j)'
  BY <1>1, <1>2, <1>4 DEF IInv, TypeOK, RowInv, RetryRow, Exists, Uncharged, Row
<1>7. ASSUME NEW k \in Jobs, k # j PROVE RowInv(k)'
  BY <1>3, <1>7, OtherRows DEF IInv, TypeOK, RetryRow
<1> QED BY <1>5, <1>6, <1>7 DEF IInv

\* Every statement of the queue, and the passage of time, keeps the invariant.
LEMMA NextInv == IInv /\ [TableNext]_tableVars => IInv'
<1> SUFFICES ASSUME IInv, [TableNext]_tableVars PROVE IInv'
  OBVIOUS
<1>1. CASE UNCHANGED tableVars
  BY <1>1 DEF tableVars, IInv, TypeOK, RowInv, Exists, Uncharged
<1>2. CASE TableNext
  BY <1>2, EnqueueInv, ClaimInv, BeatInv, FailInv, CompleteInv, SweepInv, RetryInv
     DEF TableNext
<1> QED BY <1>1, <1>2

\* The inductive invariant holds in every behaviour of the tables.
THEOREM InductiveInvariant == TableSpec => []IInv
  BY InitInv, NextInv, PTL DEF TableSpec

\* The rows, the outputs and the claim counts stay in their domains.
THEOREM TypeCorrect == TableSpec => []TypeOK
<1>1. IInv => TypeOK
  BY DEF IInv
<1> QED BY <1>1, InductiveInvariant, PTL

\* A row is dead exactly when its budget is spent: for any number of workers
\* and sweepers charging the same rows in any order.
THEOREM DeadExactlyWhenExhausted == TableSpec => []DeadIffExhausted
<1>1. IInv => DeadIffExhausted
  BY DEF IInv, RowInv, DeadIffExhausted
<1> QED BY <1>1, InductiveInvariant, PTL

\* A row in processing always carries a timestamp the sweeper compares.
THEOREM NoClaimOutOfReach == TableSpec => []OrphansRecoverable
<1>1. IInv => OrphansRecoverable
  BY DEF IInv, RowInv, OrphansRecoverable
<1> QED BY <1>1, InductiveInvariant, PTL

\* A succeeded row has its output.
THEOREM NoSuccessWithoutOutput == TableSpec => []SucceededHasOutput
<1>1. IInv => SucceededHasOutput
  BY DEF IInv, RowInv, SucceededHasOutput
<1> QED BY <1>1, InductiveInvariant, PTL

\* Between two resets a job is handed out at most maxAttempts times.
THEOREM HandedOutWithinBudget == TableSpec => []ClaimsWithinBudget
<1>1. IInv => ClaimsWithinBudget
  BY DEF IInv, RowInv, ClaimsWithinBudget
<1> QED BY <1>1, InductiveInvariant, PTL

-----------------------------------------------------------------------------
(***************************************************************************)
(* The action properties.                                                  *)
(***************************************************************************)

\* A dead row keeps attempts >= maxAttempts, so another charge leaves it dead,
\* and every other statement but retryDeadJob passes it over.
LEMMA DeadStep ==
    ASSUME IInv, [TableNext]_tableVars, NEW j \in Jobs,
           job[j].status = "dead", job'[j].status # "dead"
    PROVE  \E d \in BOOLEAN : RetryRow(j, d)
<1>1. /\ job[j].attempts \in Nat /\ job[j].maxAttempts \in Nat
      /\ job[j].attempts >= job[j].maxAttempts
      /\ job[j] \in Row /\ Exists(j)
  BY DEF IInv, TypeOK, RowInv, Exists, Row
<1>2. job[j].attempts + 1 >= job[j].maxAttempts
  BY <1>1
<1>3. ASSUME NEW due \in BOOLEAN PROVE Charged(job[j], due).status = "dead"
  BY <1>1, <1>2, ChargedRow, Zenon
<1>4. ASSUME NEW k \in Jobs, NEW b \in Budgets, NEW d \in BOOLEAN, EnqueueRow(k, b, d)
      PROVE  FALSE
  BY <1>1, <1>4 DEF EnqueueRow, Exists, IInv, TypeOK
<1>5. ASSUME NEW k \in Jobs, ClaimRow(k) PROVE FALSE
  BY <1>5 DEF ClaimRow, Claimable, CLAIMABLE_STATUSES, IInv, TypeOK
<1>6. ASSUME NEW k \in Jobs, BeatRow(k) \/ BeatAges(k) \/ RunAtArrives(k) PROVE FALSE
  BY <1>6 DEF BeatRow, BeatAges, RunAtArrives, CLAIMABLE_STATUSES, IInv, TypeOK
<1>7. ASSUME NEW k \in Jobs, FailRow(k) PROVE FALSE
  <2> DEFINE due == job[k].due /\ job[k].attempts + 1 >= job[k].maxAttempts
  <2>1. job' = [job EXCEPT ![k] = Charged(job[k], due)] /\ due \in BOOLEAN
    BY <1>7 DEF FailRow, IInv, TypeOK
  <2> HIDE DEF due
  <2>2. CASE k = j
    <3>1. job'[j] = Charged(job[j], due)
      BY <2>1, <2>2 DEF IInv, TypeOK
    <3> QED BY <2>1, <3>1, <1>3, Zenon
  <2>3. CASE k # j
    BY <2>1, <2>3 DEF IInv, TypeOK
  <2> QED BY <2>2, <2>3
<1>8. ASSUME NEW k \in Jobs, NEW r \in Results, CompleteRow(k, r) PROVE FALSE
  BY <1>8 DEF CompleteRow, IInv, TypeOK
<1>9. ASSUME NEW S \in SUBSET Jobs, SweepRows(S) PROVE FALSE
  <2>1. job'[j] = IF j \in S THEN Charged(job[j], TRUE) ELSE job[j]
    BY <1>9 DEF SweepRows
  <2> QED BY <2>1, <1>3, Zenon
<1>10. ASSUME NEW k \in Jobs, NEW d \in BOOLEAN, RetryRow(k, d)
       PROVE  \E due \in BOOLEAN : RetryRow(j, due)
  <2>1. k = j
    BY <1>10 DEF RetryRow, IInv, TypeOK
  <2> QED BY <1>10, <2>1
<1>11. ~ UNCHANGED tableVars
  BY DEF tableVars
<1>12. TableNext
  BY <1>11
<1> QED
  BY <1>4, <1>5, <1>6, <1>7, <1>8, <1>9, <1>10, <1>12, Zenon DEF TableNext

\* A dead row leaves the dead-letter queue only by retryDeadJob.
THEOREM DeadIsFinalButForRetry == TableSpec => DeadLeavesOnlyByRetry
<1>1. IInv /\ [TableNext]_tableVars =>
        [\A j \in Jobs : job[j].status = "dead" /\ job'[j].status # "dead"
                            => \E d \in BOOLEAN : RetryRow(j, d)]_tableVars
  BY DeadStep
<1> QED BY <1>1, InductiveInvariant, PTL DEF TableSpec, DeadLeavesOnlyByRetry

\* Of two results of one job the first one stored is kept.
THEOREM FirstOutputStands == TableSpec => OutputWriteOnce
<1>1. IInv /\ [TableNext]_tableVars =>
        [\A j \in Jobs : output[j] # NoOutput => output'[j] = output[j]]_tableVars
  <2> SUFFICES ASSUME IInv, TableNext, NEW j \in Jobs, output[j] # NoOutput
               PROVE  output'[j] = output[j]
    OBVIOUS
  <2>1. ASSUME NEW k \in Jobs, NEW r \in Results, CompleteRow(k, r)
        PROVE  output'[j] = output[j]
    BY <2>1 DEF CompleteRow, IInv, TypeOK
  <2>2. CASE UNCHANGED output
    BY <2>2
  <2> QED
    BY <2>1, <2>2 DEF TableNext, EnqueueRow, ClaimRow, BeatRow, FailRow, SweepRows,
                      RetryRow, RunAtArrives, BeatAges
<1> QED BY <1>1, InductiveInvariant, PTL DEF TableSpec, OutputWriteOnce

=============================================================================
