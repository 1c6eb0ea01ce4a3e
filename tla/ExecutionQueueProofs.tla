------------------------ MODULE ExecutionQueueProofs ------------------------
(***************************************************************************)
(* What ExecutionQueue guarantees, for any set of jobs, any workers, any   *)
(* limit of attempts and both backends.                                    *)
(***************************************************************************)
EXTENDS ExecutionQueue, TLAPS

\* The three invariants are inductive together: the generation rule needs the
\* types, and the claim rule supplies the worker that the owner check compares.
QueueInv == QueueTypeOK /\ ClaimWellFormed /\ GenerationCountsAttempts

LEMMA QueueInvInit == QueueInit => QueueInv
  BY DEF QueueInit, QueueInv, QueueTypeOK, ClaimWellFormed,
         GenerationCountsAttempts, NoJob, Job, Statuses, Claimed, Terminal, Stages

\* Whatever replaces one row of the table by a well-formed row preserves the
\* invariant.
RowOK(row) ==
    /\ row \in Job
    /\ row.status \in Claimed => row.worker # NoWorker /\ row.lease # "none"
    /\ row.status \in {"absent", "queued"} \cup Terminal => row.lease = "none"
    /\ row.status = "queued" => row.worker = NoWorker
    /\ row.lease # "none" => row.worker # NoWorker
    /\ row.attempt <= row.gen
    /\ row.status \in Claimed => row.attempt >= 1

LEMMA QueueInvRows == QueueInv <=> /\ jobs \in [Jobs -> Job]
                                   /\ \A j \in Jobs : RowOK(jobs[j])
  BY DEF QueueInv, QueueTypeOK, ClaimWellFormed, GenerationCountsAttempts, RowOK

LEMMA PutRow ==
  ASSUME QueueInv, NEW j \in Jobs, NEW row, RowOK(row), Put(j, row)
  PROVE  QueueInv'
  <1>1. jobs \in [Jobs -> Job] /\ \A k \in Jobs : RowOK(jobs[k])
    BY QueueInvRows
  <1>2. row \in Job
    BY DEF RowOK
  <1>3. jobs' \in [Jobs -> Job] /\ \A k \in Jobs : RowOK(jobs'[k])
    BY <1>1, <1>2 DEF Put
  <1> QED
    BY <1>3 DEF QueueInv, QueueTypeOK, ClaimWellFormed, GenerationCountsAttempts,
                RowOK

\* The row an operation starts from.
LEMMA OldRow ==
  ASSUME QueueInv, NEW j \in Jobs
  PROVE  /\ jobs[j] \in Job
         /\ RowOK(jobs[j])
         /\ jobs[j].gen \in Nat /\ jobs[j].gen + 1 \in Nat
         /\ jobs[j].attempt \in Nat
  BY QueueInvRows DEF RowOK, Job

\* A row under a live lease is well formed when its attempts are counted.
LEMMA LeasedRow ==
  ASSUME NEW row \in Job, row.worker \in Workers, row.lease = "live",
         row.status \in Claimed \cup {"cancel_requested"},
         row.attempt <= row.gen, row.status \in Claimed => row.attempt >= 1
  PROVE  RowOK(row)
  BY QueueAssumption DEF RowOK, Claimed, Terminal

LEMMA AcquirePreserves ==
  ASSUME QueueInv, NEW j \in Jobs, NEW w \in Workers, Acquire(j, w)
  PROVE  QueueInv'
  <1> DEFINE g == jobs[j].gen + 1
  <1>1. /\ jobs[j] \in Job /\ RowOK(jobs[j])
        /\ jobs[j].attempt \in Nat /\ g \in Nat /\ jobs[j].attempt <= g
    BY OldRow DEF RowOK
  <1>2. {"running", "finalizing"} \subseteq Statuses /\
        {"none", "outcome_reconciliation", "cancellation_pending"} \subseteq Stages
    BY DEF Statuses, Claimed, Stages
  <1>3. CASE start(j, w)
    <2> DEFINE row == [status |-> "running", worker |-> w, lease |-> "live",
                       gen |-> g, attempt |-> jobs[j].attempt + 1,
                       error |-> FALSE, stage |-> "none"]
    <2>1. Put(j, row)
      BY <1>3 DEF start
    <2>2. row \in Job
      BY <1>1, <1>2 DEF Job
    <2>3. /\ row.status = "running" /\ row.worker = w /\ row.lease = "live"
          /\ row.attempt <= row.gen /\ row.attempt >= 1
      BY <1>1, OldRow DEF RowOK
    <2> HIDE DEF row
    <2>4. RowOK(row)
      BY <2>2, <2>3, LeasedRow DEF Claimed
    <2> QED
      BY <2>1, <2>4, PutRow
  <1> HIDE DEF g
  <1>4. CASE resume_finalizing(j, w)
    <2> DEFINE row == [jobs[j] EXCEPT !.worker = w, !.lease = "live", !.gen = g]
    <2>1. jobs[j].status = "finalizing" /\ Put(j, row)
      BY <1>4 DEF resume_finalizing, g
    <2>2. row \in Job
      BY <1>1 DEF Job
    <2>3. /\ row.status = "finalizing" /\ row.worker = w /\ row.lease = "live"
          /\ row.gen = g /\ row.attempt = jobs[j].attempt
      BY <1>1, <2>1 DEF Job
    <2> HIDE DEF row
    <2>4. RowOK(row)
      BY <1>1, <2>1, <2>2, <2>3, LeasedRow DEF RowOK, Claimed
    <2> QED
      BY <2>1, <2>4, PutRow
  <1>5. CASE recover_expired_executing(j, w)
    <2> DEFINE row == [jobs[j] EXCEPT !.status = "finalizing", !.worker = w,
                              !.lease = "live", !.gen = g, !.error = FALSE,
                              !.stage = "outcome_reconciliation"]
    <2>1. jobs[j].status = "executing" /\ Put(j, row)
      BY <1>5 DEF recover_expired_executing, g
    <2>2. row \in Job
      BY <1>1, <1>2 DEF Job
    <2>3. /\ row.status = "finalizing" /\ row.worker = w /\ row.lease = "live"
          /\ row.gen = g /\ row.attempt = jobs[j].attempt
      BY <1>1 DEF Job
    <2> HIDE DEF row
    <2>4. RowOK(row)
      BY <1>1, <2>1, <2>2, <2>3, LeasedRow DEF RowOK, Claimed
    <2> QED
      BY <2>1, <2>4, PutRow
  <1>6. CASE claim_cancellation(j, w)
    <2> DEFINE row == [jobs[j] EXCEPT !.worker = w, !.lease = "live", !.gen = g,
                              !.stage = "cancellation_pending"]
    <2>1. jobs[j].status = "cancel_requested" /\ Put(j, row)
      BY <1>6 DEF claim_cancellation, g
    <2>2. row \in Job
      BY <1>1, <1>2 DEF Job
    <2>3. /\ row.status = "cancel_requested" /\ row.worker = w /\ row.lease = "live"
          /\ row.gen = g /\ row.attempt = jobs[j].attempt
      BY <1>1, <2>1 DEF Job
    <2> HIDE DEF row
    <2>4. RowOK(row)
      BY <1>1, <2>1, <2>2, <2>3, LeasedRow DEF RowOK, Claimed
    <2> QED
      BY <2>1, <2>4, PutRow
  <1> QED
    BY <1>3, <1>4, <1>5, <1>6 DEF Acquire

\* The rows that the operations which keep the generation write.
LEMMA KeptClaimRows ==
  ASSUME NEW r \in Job, RowOK(r)
  PROVE  /\ r.status = "running" => RowOK([r EXCEPT !.status = "executing"])
         /\ r.status \in {"executing", "finalizing"} =>
               RowOK([r EXCEPT !.status = "outcome_unknown", !.lease = "none",
                               !.error = TRUE])
         /\ r.status \in {"running", "executing"} =>
               \A e \in BOOLEAN, st \in Stages :
                   RowOK([r EXCEPT !.status = "finalizing", !.error = e, !.stage = st])
         /\ r.status = "finalizing" =>
               \A b \in BOOLEAN : RowOK(Finished(r, b))
         /\ \A st \in Stages : RowOK([r EXCEPT !.stage = st])
         /\ \A st \in Stages : RowOK([r EXCEPT !.error = TRUE, !.stage = st])
         /\ r.status = "cancel_requested" =>
               RowOK([r EXCEPT !.status = "canceled", !.lease = "none"])
         /\ r.status \in {"queued", "running"} =>
               RowOK([r EXCEPT !.status = "cancel_requested",
                               !.stage = "cancellation_pending"])
         /\ r.lease = "live" => RowOK([r EXCEPT !.lease = "expired"])
         /\ r.status = "absent" /\ r.worker = NoWorker =>
               RowOK([r EXCEPT !.status = "queued"])
  <1> USE DEF RowOK, Job, Statuses, Claimed, Terminal
  <1>1. r.status = "running" => RowOK([r EXCEPT !.status = "executing"])
    OBVIOUS
  <1>2. r.status \in {"executing", "finalizing"} =>
          RowOK([r EXCEPT !.status = "outcome_unknown", !.lease = "none",
                          !.error = TRUE])
    OBVIOUS
  <1>3. r.status \in {"running", "executing"} =>
          \A e \in BOOLEAN, st \in Stages :
              RowOK([r EXCEPT !.status = "finalizing", !.error = e, !.stage = st])
    OBVIOUS
  <1>4. r.status = "finalizing" => \A b \in BOOLEAN : RowOK(Finished(r, b))
    BY DEF Finished
  <1>5. \A st \in Stages : RowOK([r EXCEPT !.stage = st])
    OBVIOUS
  <1>6. \A st \in Stages : RowOK([r EXCEPT !.error = TRUE, !.stage = st])
    OBVIOUS
  <1>7. r.status = "cancel_requested" =>
          RowOK([r EXCEPT !.status = "canceled", !.lease = "none"])
    OBVIOUS
  <1>8. r.status \in {"queued", "running"} =>
          RowOK([r EXCEPT !.status = "cancel_requested",
                          !.stage = "cancellation_pending"])
    BY DEF Stages
  <1>9. r.lease = "live" => RowOK([r EXCEPT !.lease = "expired"])
    OBVIOUS
  <1>10. r.status = "absent" /\ r.worker = NoWorker =>
          RowOK([r EXCEPT !.status = "queued"])
    OBVIOUS
  <1> QED
    BY <1>1, <1>2, <1>3, <1>4, <1>5, <1>6, <1>7, <1>8, <1>9, <1>10

LEMMA ClaimOperationPreserves ==
  ASSUME QueueInv, NEW j \in Jobs, NEW w \in Workers, NEW g, ClaimOperation(j, w, g)
  PROVE  QueueInv'
  <1>1. jobs[j] \in Job /\ RowOK(jobs[j])
    BY OldRow
  <1>2. /\ {"precommit", "tool_precommit_retry", "tool_known_failure",
            "tool_execution", "failure_pending", "completion_pending",
            "cancellation_cleanup"} \subseteq Stages
    BY DEF Stages
  <1>3. CASE begin_executing_started(j, w, g)
    BY <1>1, <1>3, KeptClaimRows, PutRow DEF begin_executing_started
  <1>4. CASE mark_outcome_unknown_started(j, w, g)
    BY <1>1, <1>4, KeptClaimRows, PutRow DEF mark_outcome_unknown_started
  <1>5. ASSUME NEW error \in BOOLEAN, NEW stage \in Stages,
               begin_finalizing_started(j, w, g, error, stage)
        PROVE  QueueInv'
    BY <1>1, <1>5, KeptClaimRows, PutRow DEF begin_finalizing_started
  <1>6. ASSUME NEW retryable \in BOOLEAN,
               finish_finalizing_started(j, w, g, retryable)
        PROVE  QueueInv'
    BY <1>1, <1>6, KeptClaimRows, PutRow DEF finish_finalizing_started
  <1>7. CASE set_finalizing_failure(j, w, g)
    BY <1>1, <1>2, <1>7, KeptClaimRows, PutRow DEF set_finalizing_failure
  <1>8. CASE mark_outcome_unknown_finalizing(j, w, g)
    BY <1>1, <1>8, KeptClaimRows, PutRow DEF mark_outcome_unknown_finalizing
  <1>9. CASE prepare_outcome_tail(j, w, g)
    BY <1>1, <1>2, <1>9, KeptClaimRows, PutRow DEF prepare_outcome_tail
  <1>10. CASE begin_cancellation_cleanup(j, w, g)
    <2> DEFINE h == jobs[j].gen + 1
               row == [jobs[j] EXCEPT !.gen = h, !.stage = "cancellation_cleanup",
                                      !.lease = "live"]
    <2>1. /\ jobs[j].status = "cancel_requested" /\ jobs[j].lease = "live"
          /\ Put(j, row)
      BY <1>10 DEF begin_cancellation_cleanup, OwnsClaim
    <2>2. jobs[j].attempt \in Nat /\ h \in Nat /\ jobs[j].attempt <= h
      BY OldRow DEF RowOK
    <2> HIDE DEF h
    <2>3. row \in Job
      BY <1>1, <1>2, <2>2 DEF Job
    <2>4. /\ row.status = "cancel_requested" /\ row.lease = "live"
          /\ row.worker = jobs[j].worker
          /\ row.gen = h /\ row.attempt = jobs[j].attempt
      BY <1>1, <2>1 DEF Job
    <2>5. jobs[j].worker \in Workers
      BY <1>1, <2>1 DEF RowOK, Job
    <2> HIDE DEF row
    <2>6. RowOK(row)
      BY <2>2, <2>3, <2>4, <2>5, LeasedRow DEF Claimed
    <2> QED
      BY <2>1, <2>6, PutRow
  <1>11. CASE acknowledge_canceled(j, w, g)
    BY <1>1, <1>11, KeptClaimRows, PutRow DEF acknowledge_canceled
  <1> QED
    BY <1>2, <1>3, <1>4, <1>5, <1>6, <1>7, <1>8, <1>9, <1>10, <1>11 DEF ClaimOperation

LEMMA QueueInvStep == QueueInv /\ [QueueNext]_jobs => QueueInv'
  <1> SUFFICES ASSUME QueueInv, [QueueNext]_jobs PROVE QueueInv'
    OBVIOUS
  <1>1. CASE UNCHANGED jobs
    BY <1>1 DEF QueueInv, QueueTypeOK, ClaimWellFormed, GenerationCountsAttempts
  <1>2. ASSUME NEW j \in Jobs,
               enqueue(j) \/ cancel(j) \/ mark_outcome_published(j) \/ LeaseExpires(j)
        PROVE  QueueInv'
    <2>1. jobs[j] \in Job /\ RowOK(jobs[j])
      BY OldRow
    <2>2. CASE enqueue(j)
      <3>1. /\ NoJob \in Job /\ NoJob.status = "absent" /\ NoJob.worker = NoWorker
            /\ NoJob.lease = "none" /\ NoJob.gen = 0 /\ NoJob.attempt = 0
        BY DEF NoJob, Job, Statuses, Stages
      <3>2. RowOK(NoJob)
        BY <3>1 DEF RowOK, Claimed
      <3>3. RowOK([NoJob EXCEPT !.status = "queued"])
        BY <3>1, <3>2, KeptClaimRows
      <3> QED
        BY <2>2, <3>3, PutRow DEF enqueue
    <2>3. CASE cancel(j)
      BY <2>1, <2>3, KeptClaimRows, PutRow DEF cancel
    <2>4. CASE mark_outcome_published(j)
      <3>1. "completion_published" \in Stages /\ "failure_published" \in Stages
        BY DEF Stages
      <3> QED
        BY <2>1, <2>4, <3>1, KeptClaimRows, PutRow DEF mark_outcome_published
    <2>5. CASE LeaseExpires(j)
      BY <2>1, <2>5, KeptClaimRows, PutRow DEF LeaseExpires
    <2> QED
      BY <1>2, <2>2, <2>3, <2>4, <2>5
  <1> QED
    BY <1>1, <1>2, AcquirePreserves, ClaimOperationPreserves DEF QueueNext

\* The table always holds well-typed rows, whatever its callers do: execution
\* jobs, claims, recoveries and cancellations in any order.
THEOREM QueueTypeCorrect == QueueSpec => []QueueTypeOK
  BY QueueInvInit, QueueInvStep, PTL DEF QueueSpec, QueueInv

\* A claimed row names its worker and has a lease; a row that nobody may touch
\* has none; a queued row names no worker.
THEOREM ClaimsWellFormed == QueueSpec => []ClaimWellFormed
  BY QueueInvInit, QueueInvStep, PTL DEF QueueSpec, QueueInv

\* Every attempt that start() counts has a claim generation of its own.
THEOREM GenerationsCountAttempts == QueueSpec => []GenerationCountsAttempts
  BY QueueInvInit, QueueInvStep, PTL DEF QueueSpec, QueueInv
-----------------------------------------------------------------------------
(* Action properties: what one step may do to one row. *)

RowStep(old, new) ==
    /\ old.status \in Terminal =>
          new.status = old.status /\ new.attempt = old.attempt /\ new.gen = old.gen
    /\ old.lease = "live" /\ new.worker # old.worker => new.status = "queued"
    /\ new.lease = "live" /\ old.lease # "live" => new.gen > old.gen
    /\ old.status = "executing" /\ new.status # "executing" =>
          new.status \in {"finalizing", "outcome_unknown"}

TableStep == \A k \in Jobs : RowStep(jobs[k], jobs'[k])

LEMMA PutStep ==
  ASSUME QueueTypeOK, NEW j \in Jobs, NEW row, RowStep(jobs[j], row), Put(j, row)
  PROVE  TableStep
  BY DEF QueueTypeOK, TableStep, RowStep, Put

\* The rows written from a row of each status, as far as RowStep looks at them.
LEMMA RowSteps ==
  ASSUME NEW r \in Job, NEW st \in Stages, NEW e \in BOOLEAN
  PROVE  /\ r.status \in {"queued", "running"} =>
               /\ RowStep(r, [r EXCEPT !.status = "cancel_requested", !.stage = st])
               /\ RowStep(r, [r EXCEPT !.status = "executing"])
         /\ r.status \in {"running", "executing", "finalizing"} =>
               /\ RowStep(r, [r EXCEPT !.status = "finalizing", !.error = e, !.stage = st])
               /\ RowStep(r, [r EXCEPT !.error = e, !.stage = st])
               /\ RowStep(r, [r EXCEPT !.status = "outcome_unknown", !.lease = "none",
                                       !.error = e])
         /\ r.status = "finalizing" => RowStep(r, Finished(r, e))
         /\ r.status = "cancel_requested" =>
               RowStep(r, [r EXCEPT !.status = "canceled", !.lease = "none"])
         /\ RowStep(r, [r EXCEPT !.stage = st])
         /\ r.lease = "live" => RowStep(r, [r EXCEPT !.lease = "expired"])
  <1> USE DEF RowStep, Job, Terminal
  <1>1. r.status \in {"queued", "running"} =>
          /\ RowStep(r, [r EXCEPT !.status = "cancel_requested", !.stage = st])
          /\ RowStep(r, [r EXCEPT !.status = "executing"])
    OBVIOUS
  <1>2. r.status \in {"running", "executing", "finalizing"} =>
          /\ RowStep(r, [r EXCEPT !.status = "finalizing", !.error = e, !.stage = st])
          /\ RowStep(r, [r EXCEPT !.error = e, !.stage = st])
          /\ RowStep(r, [r EXCEPT !.status = "outcome_unknown", !.lease = "none",
                                  !.error = e])
    OBVIOUS
  <1>3. r.status = "finalizing" => RowStep(r, Finished(r, e))
    BY DEF Finished
  <1>4. r.status = "cancel_requested" =>
          RowStep(r, [r EXCEPT !.status = "canceled", !.lease = "none"])
    OBVIOUS
  <1>5. /\ RowStep(r, [r EXCEPT !.stage = st])
        /\ r.lease = "live" => RowStep(r, [r EXCEPT !.lease = "expired"])
    OBVIOUS
  <1> QED
    BY <1>1, <1>2, <1>3, <1>4, <1>5

LEMMA NewClaimSteps ==
  ASSUME NEW r \in Job, r.lease # "live", NEW w \in Workers
  PROVE  /\ r.status \in {"queued", "running"} =>
               RowStep(r, [status |-> "running", worker |-> w, lease |-> "live",
                           gen |-> r.gen + 1, attempt |-> r.attempt + 1,
                           error |-> FALSE, stage |-> "none"])
         /\ r.status = "finalizing" =>
               RowStep(r, [r EXCEPT !.worker = w, !.lease = "live", !.gen = @ + 1])
         /\ r.status = "executing" =>
               RowStep(r, [r EXCEPT !.status = "finalizing", !.worker = w,
                                    !.lease = "live", !.gen = @ + 1, !.error = FALSE,
                                    !.stage = "outcome_reconciliation"])
         /\ r.status = "cancel_requested" =>
               RowStep(r, [r EXCEPT !.worker = w, !.lease = "live", !.gen = @ + 1,
                                    !.stage = "cancellation_pending"])
  BY DEF RowStep, Job, Terminal

\* ClaimWellFormed is needed here: a queued row has no live lease that start()
\* could take from somebody.
LEMMA AcquireStep ==
  ASSUME QueueInv, NEW j \in Jobs, NEW w \in Workers, Acquire(j, w)
  PROVE  TableStep
  <1>1. QueueTypeOK /\ jobs[j] \in Job
    BY OldRow DEF QueueInv
  <1>2. CASE start(j, w)
    <2>1. jobs[j].lease # "live" /\ jobs[j].status \in {"queued", "running"}
      BY <1>2 DEF start, QueueInv, ClaimWellFormed
    <2> QED
      BY <1>1, <1>2, <2>1, NewClaimSteps, PutStep DEF start
  <1>3. CASE resume_finalizing(j, w)
    BY <1>1, <1>3, NewClaimSteps, PutStep DEF resume_finalizing
  <1>4. CASE recover_expired_executing(j, w)
    BY <1>1, <1>4, NewClaimSteps, PutStep DEF recover_expired_executing
  <1>5. CASE claim_cancellation(j, w)
    BY <1>1, <1>5, NewClaimSteps, PutStep DEF claim_cancellation
  <1> QED
    BY <1>2, <1>3, <1>4, <1>5 DEF Acquire

LEMMA ClaimOperationStep ==
  ASSUME QueueInv, NEW j \in Jobs, NEW w \in Workers, NEW g, ClaimOperation(j, w, g)
  PROVE  TableStep
  <1>1. QueueTypeOK /\ jobs[j] \in Job
    BY OldRow DEF QueueInv
  <1>2. {"precommit", "tool_precommit_retry", "tool_known_failure",
         "tool_execution", "failure_pending", "completion_pending"} \subseteq Stages
    BY DEF Stages
  <1>3. CASE begin_executing_started(j, w, g)
    BY <1>1, <1>2, <1>3, RowSteps, PutStep DEF begin_executing_started
  <1>4. CASE mark_outcome_unknown_started(j, w, g)
    BY <1>1, <1>2, <1>4, RowSteps, PutStep DEF mark_outcome_unknown_started
  <1>5. ASSUME NEW error \in BOOLEAN, NEW stage \in Stages,
               begin_finalizing_started(j, w, g, error, stage)
        PROVE  TableStep
    BY <1>1, <1>5, RowSteps, PutStep DEF begin_finalizing_started
  <1>6. ASSUME NEW retryable \in BOOLEAN,
               finish_finalizing_started(j, w, g, retryable)
        PROVE  TableStep
    BY <1>1, <1>2, <1>6, RowSteps, PutStep DEF finish_finalizing_started
  <1>7. CASE set_finalizing_failure(j, w, g)
    BY <1>1, <1>2, <1>7, RowSteps, PutStep DEF set_finalizing_failure
  <1>8. CASE mark_outcome_unknown_finalizing(j, w, g)
    BY <1>1, <1>2, <1>8, RowSteps, PutStep DEF mark_outcome_unknown_finalizing
  <1>9. CASE prepare_outcome_tail(j, w, g)
    BY <1>1, <1>2, <1>9, RowSteps, PutStep DEF prepare_outcome_tail
  <1>10. CASE begin_cancellation_cleanup(j, w, g)
    <2> DEFINE row == [jobs[j] EXCEPT !.gen = @ + 1, !.stage = "cancellation_cleanup",
                                      !.lease = "live"]
    <2>1. /\ jobs[j].status = "cancel_requested" /\ jobs[j].lease = "live"
          /\ Put(j, row)
      BY <1>10 DEF begin_cancellation_cleanup, OwnsClaim
    <2>2. RowStep(jobs[j], row)
      BY <1>1, <2>1 DEF RowStep, Job, Terminal
    <2> QED
      BY <1>1, <2>1, <2>2, PutStep
  <1>11. CASE acknowledge_canceled(j, w, g)
    BY <1>1, <1>2, <1>11, RowSteps, PutStep DEF acknowledge_canceled
  <1> QED
    BY <1>2, <1>3, <1>4, <1>5, <1>6, <1>7, <1>8, <1>9, <1>10, <1>11 DEF ClaimOperation

LEMMA QueueStep == QueueInv /\ QueueNext => TableStep
  <1> SUFFICES ASSUME QueueInv, QueueNext PROVE TableStep
    OBVIOUS
  <1>1. ASSUME NEW j \in Jobs,
               enqueue(j) \/ cancel(j) \/ mark_outcome_published(j) \/ LeaseExpires(j)
        PROVE  TableStep
    <2>1. QueueTypeOK /\ jobs[j] \in Job
      BY OldRow DEF QueueInv
    <2>2. {"cancellation_pending", "completion_published",
           "failure_published"} \subseteq Stages
      BY DEF Stages
    <2>4. CASE enqueue(j)
      BY <2>1, <2>4, PutStep DEF enqueue, RowStep, NoJob, Terminal
    <2>5. CASE cancel(j)
      BY <2>1, <2>2, <2>5, RowSteps, PutStep DEF cancel
    <2>6. CASE mark_outcome_published(j)
      BY <2>1, <2>2, <2>6, RowSteps, PutStep DEF mark_outcome_published
    <2>7. CASE LeaseExpires(j)
      BY <2>1, <2>2, <2>7, RowSteps, PutStep DEF LeaseExpires
    <2> QED
      BY <1>1, <2>4, <2>5, <2>6, <2>7
  <1> QED
    BY <1>1, AcquireStep, ClaimOperationStep DEF QueueNext

LEMMA QueueSteps == QueueSpec => [][TableStep]_jobs
  <1>1. QueueInv /\ [QueueNext]_jobs => [TableStep]_jobs
    BY QueueStep
  <1> QED
    BY <1>1, QueueInvInit, QueueInvStep, PTL DEF QueueSpec

\* No late worker, recovery or cancellation reopens an ended job.
THEOREM TerminalStaysTerminal == QueueSpec => TerminalIsFinal
  <1>1. [TableStep]_jobs =>
          [\A j \in Jobs :
              jobs[j].status \in Terminal =>
                  /\ jobs'[j].status = jobs[j].status
                  /\ jobs'[j].attempt = jobs[j].attempt
                  /\ jobs'[j].gen = jobs[j].gen]_jobs
    BY DEF TableStep, RowStep
  <1> QED
    BY <1>1, QueueSteps, PTL DEF TerminalIsFinal

\* Nobody takes a row from the holder of a live lease.
THEOREM LeasesAreExclusive == QueueSpec => LiveLeaseIsExclusive
  <1>1. [TableStep]_jobs =>
          [\A j \in Jobs :
              (jobs[j].lease = "live" /\ jobs'[j].worker # jobs[j].worker) =>
                  jobs'[j].status = "queued"]_jobs
    BY DEF TableStep, RowStep
  <1> QED
    BY <1>1, QueueSteps, PTL DEF LiveLeaseIsExclusive

\* A lease that becomes live belongs to a new claim generation.
THEOREM ClaimsHaveNewGenerations == QueueSpec => NewClaimNewGeneration
  <1>1. [TableStep]_jobs =>
          [\A j \in Jobs :
              (jobs'[j].lease = "live" /\ jobs[j].lease # "live") =>
                  jobs'[j].gen > jobs[j].gen]_jobs
    BY DEF TableStep, RowStep
  <1> QED
    BY <1>1, QueueSteps, PTL DEF NewClaimNewGeneration

\* An attempt that passed its commit point is neither restarted nor canceled.
THEOREM CommitsAreIrrevocable == QueueSpec => CommitIsIrrevocable
  <1>1. [TableStep]_jobs =>
          [\A j \in Jobs :
              (jobs[j].status = "executing" /\ jobs'[j].status # "executing") =>
                  jobs'[j].status \in {"finalizing", "outcome_unknown"}]_jobs
    BY DEF TableStep, RowStep
  <1> QED
    BY <1>1, QueueSteps, PTL DEF CommitIsIrrevocable
=============================================================================
